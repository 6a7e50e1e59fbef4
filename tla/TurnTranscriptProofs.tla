------------------------ MODULE TurnTranscriptProofs ------------------------
(***************************************************************************)
(* The transcript of TurnLifecycle: for any number of turns, Stops and     *)
(* restarts, whoever settles a turn, and in whatever order, the transcript *)
(* keeps what was typed and answered, in order, and says it once.          *)
(*                                                                         *)
(* A worker that lost the session may replace the repair marker of a       *)
(* prompt with its own text.  So no thread may be late, or no two prompts  *)
(* may have the same text:                                                 *)
(***************************************************************************)
EXTENDS TurnRegistryProofs

RepairsAreRecognised == Timely \/ \A m, n \in Turns : Text[m] = Text[n] => m = n

Has(rows, row) == \E i \in 1..Len(rows) : rows[i] = row

NoneTwice(rows) == \A i, j \in 1..Len(rows) : rows[i] = rows[j] => i = j

\* The rows of a turn come after its prompt.
PromptsFirst(rows) == \A i \in 1..Len(rows) : \E j \in 1..i : rows[j] = Row("user", rows[i].turn)

IsTranscript(rows) == InTurnOrder(rows) /\ NoneTwice(rows) /\ PromptsFirst(rows)

UpTo(rows, n) == \A i \in 1..Len(rows) : rows[i].turn <= n

\* What was typed and answered in old is in new.
Kept(old, new) == \A row \in Rows : row.kind \in {"user", "answer"} /\ Has(old, row) => Has(new, row)

\* The rows of turn n, with one of a kind, were added to a transcript.
Settles(old, new, n, kind) ==
    /\ new \in Seq(Rows) /\ IsTranscript(new) /\ UpTo(new, n)
    /\ \A row \in Rows :
          Has(new, row) <=> Has(old, row) \/ row \in {Row("user", n), Row(kind, n)}
-----------------------------------------------------------------------------
(***************************************************************************)
(* Sequences of rows.                                                      *)
(***************************************************************************)
\* A row put at the end is there, with what was there before.
LEMMA HasAppended ==
    ASSUME NEW rows \in Seq(Rows), NEW new \in Rows, NEW row
    PROVE  Has(Append(rows, new), row) <=> Has(rows, row) \/ row = new
<1>1. Len(Append(rows, new)) = Len(rows) + 1 /\ Append(rows, new)[Len(rows) + 1] = new
    OBVIOUS
<1>2. \A i \in 1..Len(rows) : Append(rows, new)[i] = rows[i]
    OBVIOUS
<1>3. Len(rows) \in Nat
    OBVIOUS
<1>4. 1..Len(Append(rows, new)) = 1..Len(rows) \cup {Len(rows) + 1}
    BY <1>1, <1>3
<1> QED BY <1>1, <1>2, <1>4 DEF Has

\* A new row of the last turn, after its prompt, leaves a transcript.
LEMMA TranscriptGrows ==
    ASSUME NEW rows \in Seq(Rows), NEW n \in Turns, NEW new \in Rows, new.turn = n,
           IsTranscript(rows), UpTo(rows, n), ~Has(rows, new),
           new.kind = "user" \/ Has(rows, Row("user", n))
    PROVE  IsTranscript(Append(rows, new)) /\ UpTo(Append(rows, new), n)
<1> DEFINE rows2 == Append(rows, new)
<1>1. Len(rows2) = Len(rows) + 1 /\ rows2[Len(rows) + 1] = new
    OBVIOUS
<1>2. \A i \in 1..Len(rows) : rows2[i] = rows[i] /\ rows[i] \in Rows
    OBVIOUS
<1>3. Len(rows) \in Nat /\ n \in Int
    BY DEF Turns
<1>4. 1..Len(rows2) = 1..Len(rows) \cup {Len(rows) + 1}
    BY <1>1, <1>3
<1>5. new = Row(new.kind, n)
    BY DEF Row, Rows
<1>6. UpTo(rows2, n)
    BY <1>1, <1>2, <1>3, <1>4 DEF UpTo
<1>7. InTurnOrder(rows2)
    <2> SUFFICES ASSUME NEW i \in 1..Len(rows2), NEW j \in 1..Len(rows2), i < j
                 PROVE  rows2[i].turn <= rows2[j].turn
        BY DEF InTurnOrder
    <2>1. i \in 1..Len(rows)
        BY <1>1, <1>3
    <2>2. CASE j = Len(rows) + 1
        BY <1>1, <1>2, <1>4, <1>6, <2>1, <2>2 DEF UpTo
    <2>3. CASE j \in 1..Len(rows)
        BY <1>2, <2>1, <2>3 DEF IsTranscript, InTurnOrder
    <2> QED BY <1>4, <2>2, <2>3
<1>8. NoneTwice(rows2)
    <2>1. \A i \in 1..Len(rows) : rows[i] # new
        BY DEF Has
    <2> QED BY <1>1, <1>2, <1>4, <2>1 DEF IsTranscript, NoneTwice
<1>9. PromptsFirst(rows2)
    <2> SUFFICES ASSUME NEW i \in 1..Len(rows2)
                 PROVE  \E j \in 1..i : rows2[j] = Row("user", rows2[i].turn)
        BY DEF PromptsFirst
    <2>1. CASE i \in 1..Len(rows)
        <3>1. PICK j \in 1..i : rows[j] = Row("user", rows[i].turn)
            BY <2>1 DEF IsTranscript, PromptsFirst
        <3>2. j \in 1..Len(rows)
            BY <1>3, <2>1, <3>1
        <3> QED BY <1>2, <2>1, <3>1, <3>2
    <2>2. CASE i = Len(rows) + 1 /\ new.kind = "user"
        BY <1>1, <1>3, <1>5, <2>2
    <2>3. CASE i = Len(rows) + 1 /\ Has(rows, Row("user", n))
        <3>1. PICK j \in 1..Len(rows) : rows[j] = Row("user", n)
            BY <2>3 DEF Has
        <3>2. j \in 1..i
            BY <1>3, <2>3
        <3> QED BY <1>1, <1>2, <2>3, <3>1, <3>2
    <2> QED BY <1>4, <2>1, <2>2, <2>3
<1> QED BY <1>6, <1>7, <1>8, <1>9 DEF IsTranscript

\* A row of a turn is not in a transcript of earlier turns.
LEMMA NotYetThere ==
    ASSUME NEW rows \in Seq(Rows), NEW n \in Turns, NEW kind, UpTo(rows, n - 1)
    PROVE  ~Has(rows, Row(kind, n))
BY DEF UpTo, Has, Row, Turns, Rows

\* Rows that are kept by two steps in a row are kept by both together.
LEMMA KeptIsTransitive ==
    ASSUME NEW a, NEW b, NEW c, Kept(a, b), Kept(b, c)
    PROVE  Kept(a, c)
BY DEF Kept

\* A step that leaves the rows alone keeps them.
LEMMA KeptIsReflexive == ASSUME NEW a PROVE Kept(a, a)
BY DEF Kept

\* In a transcript up to turn n nothing of a later turn follows n's prompt.
LEMMA LastPromptIsLast ==
    ASSUME NEW rows \in Seq(Rows), NEW n \in Turns, IsTranscript(rows), UpTo(rows, n),
           NEW i \in 1..Len(rows), rows[i].turn = n
    PROVE  InLastTurn(rows, i)
<1> SUFFICES ASSUME NEW j \in (i + 1)..Len(rows), rows[j].kind = "user"
             PROVE  FALSE
    BY DEF InLastTurn
<1>1. Len(rows) \in Nat /\ n \in Int /\ j \in 1..Len(rows) /\ i < j
    BY DEF Turns
<1>2. rows[j] \in Rows /\ rows[i] \in Rows
    BY <1>1
<1>3. rows[j].turn = n
    <2>1. rows[i].turn <= rows[j].turn
        BY <1>1 DEF IsTranscript, InTurnOrder
    <2>2. rows[j].turn <= n /\ rows[j].turn \in Int
        BY <1>1, <1>2 DEF UpTo, Rows, Turns
    <2> QED BY <1>1, <2>1, <2>2
<1>4. rows[j] = Row("user", n)
    BY <1>2, <1>3 DEF Rows, Row
<1>5. PICK p \in 1..i : rows[p] = Row("user", n)
    BY DEF IsTranscript, PromptsFirst
<1>6. p \in 1..Len(rows) /\ p # j
    BY <1>1, <1>5
<1> QED BY <1>1, <1>4, <1>5, <1>6 DEF IsTranscript, NoneTwice

\* Materializing the pending prompt adds it, or finds it there.
LEMMA MaterializeSettles ==
    ASSUME NEW s \in Session, NEW n \in Turns, s.pending = n, IsTranscript(s.rows),
           UpTo(s.rows, n)
    PROVE  Settles(s.rows, MaterializePendingUserTurn(s), n, "user")
<1>1. s.rows \in Seq(Rows) /\ n # 0
    BY DEF Session, Turns
<1>2. Row("user", n) \in Rows /\ Row("user", n).turn = n /\ Row("user", n).kind = "user"
    BY DEF Rows, Row
<1>3. CASE Has(s.rows, Row("user", n))
    <2>1. PICK i \in 1..Len(s.rows) : s.rows[i] = Row("user", n)
        BY <1>3 DEF Has
    <2>2. InLastTurn(s.rows, i)
        BY <1>1, <1>2, <2>1, LastPromptIsLast
    <2>3. MaterializePendingUserTurn(s) = s.rows
        BY <2>1, <2>2 DEF MaterializePendingUserTurn
    <2> QED BY <1>1, <1>3, <2>3 DEF Settles
<1>4. CASE ~Has(s.rows, Row("user", n))
    <2>1. MaterializePendingUserTurn(s) = Append(s.rows, Row("user", n))
        BY <1>1, <1>4 DEF MaterializePendingUserTurn, Has
    <2>2. Append(s.rows, Row("user", n)) \in Seq(Rows)
        BY <1>1, <1>2
    <2>3. /\ IsTranscript(Append(s.rows, Row("user", n)))
          /\ UpTo(Append(s.rows, Row("user", n)), n)
        BY <1>1, <1>2, <1>4, TranscriptGrows
    <2>4. \A row : Has(Append(s.rows, Row("user", n)), row)
                      <=> Has(s.rows, row) \/ row = Row("user", n)
        BY <1>1, <1>2, HasAppended
    <2> QED BY <2>1, <2>2, <2>3, <2>4 DEF Settles
<1> QED BY <1>3, <1>4

\* After its prompt, a turn gets a row of another kind that it does not have yet.
LEMMA SettlesAppended ==
    ASSUME NEW old, NEW rows, NEW n \in Turns, NEW kind \in {"answer", "error", "cancel", "recovery"},
           Settles(old, rows, n, "user"), ~Has(old, Row(kind, n))
    PROVE  Settles(old, Append(rows, Row(kind, n)), n, kind)
<1>1. Row(kind, n) \in Rows /\ Row(kind, n).turn = n /\ Row("user", n) \in Rows
    BY DEF Rows, Row
<1>2. Row(kind, n) # Row("user", n)
    BY DEF Row
<1>3. /\ rows \in Seq(Rows) /\ IsTranscript(rows) /\ UpTo(rows, n)
      /\ Has(rows, Row("user", n)) /\ ~Has(rows, Row(kind, n))
    BY <1>1, <1>2 DEF Settles
<1>4. Append(rows, Row(kind, n)) \in Seq(Rows)
    BY <1>1, <1>3
<1>5. IsTranscript(Append(rows, Row(kind, n))) /\ UpTo(Append(rows, Row(kind, n)), n)
    BY <1>1, <1>3, TranscriptGrows
<1>6. \A row : Has(Append(rows, Row(kind, n)), row) <=> Has(rows, row) \/ row = Row(kind, n)
    BY <1>1, <1>3, HasAppended
<1> QED BY <1>4, <1>5, <1>6 DEF Settles

\* Failing a turn,
LEMMA FailedSettles ==
    ASSUME NEW s \in Session, NEW n \in Turns, s.pending = n, IsTranscript(s.rows),
           UpTo(s.rows, n), ~Has(s.rows, Row("error", n))
    PROVE  Settles(s.rows, FailedRows(s, n), n, "error")
BY MaterializeSettles, SettlesAppended DEF FailedRows

\* recovering it,
LEMMA RecoveredSettles ==
    ASSUME NEW s \in Session, NEW n \in Turns, s.pending = n, IsTranscript(s.rows),
           UpTo(s.rows, n), ~Has(s.rows, Row("recovery", n))
    PROVE  Settles(s.rows, RecoveredRows(s), n, "recovery")
BY MaterializeSettles, SettlesAppended DEF RecoveredRows

\* A cancel marker in the last turn is the marker of that turn.
LEMMA MarkerIsOwn ==
    ASSUME NEW rows \in Seq(Rows), NEW n \in Turns, IsTranscript(rows), UpTo(rows, n),
           Has(rows, Row("user", n))
    PROVE  SessionHasCancelMarker(rows) <=> Has(rows, Row("cancel", n))
<1>1. Len(rows) \in Nat /\ n \in Int
    BY DEF Turns
<1>2. ASSUME Has(rows, Row("cancel", n))
      PROVE  SessionHasCancelMarker(rows)
    <2>1. PICK i \in 1..Len(rows) : rows[i] = Row("cancel", n)
        BY <1>2 DEF Has
    <2>2. rows[i].kind = "cancel" /\ rows[i].turn = n
        BY <2>1 DEF Row
    <2>3. InLastTurn(rows, i)
        BY <2>2, LastPromptIsLast
    <2> QED BY <2>2, <2>3 DEF SessionHasCancelMarker
<1>3. ASSUME SessionHasCancelMarker(rows)
      PROVE  Has(rows, Row("cancel", n))
    <2>1. PICK i \in 1..Len(rows) : rows[i].kind = "cancel" /\ InLastTurn(rows, i)
        BY <1>3 DEF SessionHasCancelMarker
    <2>2. PICK p \in 1..Len(rows) : rows[p] = Row("user", n)
        BY DEF Has
    <2>3. rows[i] \in Rows /\ rows[p].kind = "user" /\ rows[p].turn = n
        BY <2>2 DEF Row
    <2>4. p < i
        <3>1. p \notin (i + 1)..Len(rows)
            BY <2>1, <2>3 DEF InLastTurn
        <3>2. p # i
            BY <2>1, <2>3
        <3> QED BY <1>1, <3>1, <3>2
    <2>5. rows[i].turn = n
        <3>1. n <= rows[i].turn
            BY <2>3, <2>4 DEF IsTranscript, InTurnOrder
        <3>2. rows[i].turn <= n /\ rows[i].turn \in Int
            BY <2>3 DEF UpTo, Rows, Turns
        <3> QED BY <1>1, <3>1, <3>2
    <2>6. rows[i] = Row("cancel", n)
        BY <2>1, <2>3, <2>5 DEF Row, Rows
    <2> QED BY <2>6 DEF Has
<1> QED BY <1>2, <1>3

\* cancelling it, whether its prompt is still pending or not,
LEMMA CancelledSettles ==
    ASSUME NEW s \in Session, NEW n \in Turns, IsTranscript(s.rows), UpTo(s.rows, n),
           s.pending = n \/ (s.pending = 0 /\ Has(s.rows, Row("user", n)))
    PROVE  Settles(s.rows, CancelledRows(s, n), n, "cancel")
<1> DEFINE rows == MaterializePendingUserTurn(s)
<1>1. s.rows \in Seq(Rows) /\ Row("user", n) \in Rows /\ Row("cancel", n) \in Rows
    BY DEF Session, Rows, Row
<1>2. Settles(s.rows, rows, n, "user")
    <2>1. CASE s.pending = n
        BY <2>1, MaterializeSettles
    <2>2. CASE s.pending = 0 /\ Has(s.rows, Row("user", n))
        BY <1>1, <2>2 DEF MaterializePendingUserTurn, Settles
    <2> QED BY <2>1, <2>2
<1>3. /\ rows \in Seq(Rows) /\ IsTranscript(rows) /\ UpTo(rows, n) /\ Has(rows, Row("user", n))
      /\ \A row \in Rows : Has(rows, row) <=> Has(s.rows, row) \/ row = Row("user", n)
    BY <1>1, <1>2 DEF Settles
<1>4. SessionHasCancelMarker(rows) <=> Has(rows, Row("cancel", n))
    BY <1>3, MarkerIsOwn
<1>5. Has(rows, Row("cancel", n)) <=> Has(s.rows, Row("cancel", n))
    BY <1>1, <1>3 DEF Row
<1>6. CASE Has(s.rows, Row("cancel", n))
    <2>1. CancelledRows(s, n) = rows
        BY <1>4, <1>5, <1>6 DEF CancelledRows
    <2> HIDE DEF rows
    <2> QED BY <1>3, <1>6, <2>1 DEF Settles
<1>7. CASE ~Has(s.rows, Row("cancel", n))
    <2>1. CancelledRows(s, n) = Append(rows, Row("cancel", n))
        BY <1>4, <1>5, <1>7 DEF CancelledRows
    <2> HIDE DEF rows
    <2> QED BY <1>2, <1>7, <2>1, SettlesAppended
<1> QED BY <1>6, <1>7

\* and answering it.
LEMMA MergedSettles ==
    ASSUME TypeOK, NEW n \in Turns, IsTranscript(seen[n]), UpTo(seen[n], n),
           ~Has(seen[n], Row("answer", n))
    PROVE  Settles(seen[n], MergedRows(n), n, "answer")
<1> DEFINE rows == IF Has(seen[n], Row("user", n)) THEN seen[n] ELSE Append(seen[n], Row("user", n))
<1>1. seen[n] \in Seq(Rows) /\ Row("answer", n) \in Rows /\ Row("user", n) \in Rows
    BY DEF TypeOK, Rows, Row
<1>2. Settles(seen[n], rows, n, "user")
    <2>1. CASE Has(seen[n], Row("user", n))
        BY <1>1, <2>1 DEF Settles
    <2>2. CASE ~Has(seen[n], Row("user", n))
        <3>1. Append(seen[n], Row("user", n)) \in Seq(Rows)
            BY <1>1
        <3>2. Row("user", n).kind = "user" /\ Row("user", n).turn = n
            BY DEF Row
        <3>3. /\ IsTranscript(Append(seen[n], Row("user", n)))
              /\ UpTo(Append(seen[n], Row("user", n)), n)
            BY <1>1, <2>2, <3>2, TranscriptGrows
        <3>4. \A row : Has(Append(seen[n], Row("user", n)), row)
                          <=> Has(seen[n], row) \/ row = Row("user", n)
            BY <1>1, HasAppended
        <3> QED BY <2>2, <3>1, <3>3, <3>4 DEF Settles
    <2> QED BY <2>1, <2>2
<1>3. rows \in Seq(Rows)
    BY <1>2 DEF Settles
<1>4. MergedRows(n) = rows \o <<Row("answer", n)>>
    BY DEF MergedRows, Has
<1> HIDE DEF rows
<1>5. rows \o <<Row("answer", n)>> = Append(rows, Row("answer", n))
    BY <1>1, <1>3
<1> QED BY <1>2, <1>4, <1>5, SettlesAppended
-----------------------------------------------------------------------------
(***************************************************************************)
(* The inductive invariant.                                                *)
(***************************************************************************)
\* Memory, disk and every worker's copy are transcripts, and a pending prompt is
\* of a later turn than every row.
Record(s) == /\ IsTranscript(s.rows) /\ UpTo(s.rows, latest)
             /\ s.pending # 0 => UpTo(s.rows, s.pending - 1)

TranscriptsAreKept ==
    /\ Record(session) /\ Record(disk)
    /\ \A n \in Turns : IsTranscript(seen[n]) /\ UpTo(seen[n], latest)

SavedIsInMemory == Kept(disk.rows, session.rows)

WithSeen == WithAgent \cup {"returned", "writing", "merging"}

\* What a worker will write back over the session has all of its earlier turns.
SeenIsCurrent ==
    \A n \in Turns :
        pc[n] \in WithSeen =>
            /\ \A row \in Rows :
                  Has(session.rows, row) /\ row.kind \in {"user", "answer"} /\ row.turn < n =>
                      Has(seen[n], row)
            /\ Kept(seen[n], session.rows)
            /\ session.active = n => seen[n] = session.rows

Ended == {"merged", "saved", "settling", "committed", "unwinding", "tearingDown", "finished", "dead"}

Nowhere(row) ==
    ~Has(session.rows, row) /\ ~Has(disk.rows, row) /\ \A n \in Turns : ~Has(seen[n], row)

OnlyTheEndedAnswer ==
    \A n \in Turns, kind \in {"answer", "error"} : pc[n] \notin Ended => Nowhere(Row(kind, n))

Gone == {"dead", "unlaunched"}

\* A restart takes every worker, and only then the repair puts its marker.
RepairMarksTheDead ==
    /\ \A m, n \in Turns : m < n /\ pc[n] = "dead" => pc[m] \in Gone
    /\ Timely => \A m, n \in Turns :
                    Has(session.rows, Row("recovery", n)) /\ m <= n => pc[m] \in Gone

\* A worker that merges in time still has the session.
MergingHasTheSession ==
    Timely => \A n \in Turns : pc[n] = "merging" => session.active = n

AnswersAreWritten ==
    \A n \in Turns :
        /\ pc[n] = "merged" => Has(session.rows, Row("answer", n))
        /\ pc[n] \in {"saved", "settling", "committed"} => Has(disk.rows, Row("answer", n))

TranscriptInv ==
    /\ TranscriptsAreKept
    /\ SavedIsInMemory
    /\ SeenIsCurrent
    /\ OnlyTheEndedAnswer
    /\ RepairMarksTheDead
    /\ AnswersAreWritten
    /\ PromptsAreKept
    /\ CompletedIsOnDisk
-----------------------------------------------------------------------------
(***************************************************************************)
(* What a step may do to the session, and where it may take a worker.      *)
(***************************************************************************)
Quiet == UNCHANGED <<session, latest>> /\ disk' \in {disk, session}

\* The prompt of a turn that could not be launched is dropped.
Abandons(n) ==
    /\ session.active = n /\ pc'[n] = "unlaunched" /\ latest' = latest
    /\ session' = Settled(session.rows) /\ disk' = session'

\* Somebody settles turn n, and nobody of a later turn has begun.
Writes(n) ==
    /\ session'.active = 0 /\ session'.pending = 0 /\ latest' = latest
    /\ disk' \in {disk, session'}
    /\ n <= latest
    /\ \A m \in Turns : m > n => pc[m] \notin WithSeen
    /\ session'.rows \in Seq(Rows) /\ IsTranscript(session'.rows) /\ UpTo(session'.rows, n)
    /\ Kept(session.rows, session'.rows)
    /\ session.pending # 0 => Has(session'.rows, Row("user", session.pending))
    /\ \A row \in Rows :
          Has(session'.rows, row) =>
              \/ Has(session.rows, row)
              \/ pc[n] = "merging" /\ Has(seen[n], row)
              \/ /\ row.turn = n
                 /\ row.kind \in {"answer", "error"} => pc'[n] \in Ended
                 /\ row.kind = "recovery" /\ Timely => pc[n] = "dead"
    /\ Timely => \A row \in Rows : Has(session.rows, row) => Has(session'.rows, row)

Kinds == Quiet \/ Start \/ Crash \/ \E n \in Turns : Abandons(n) \/ Writes(n)

WorkersMove ==
    \A n \in Turns :
        /\ pc[n] \in Ended => pc'[n] \in Ended
        /\ pc[n] \in Gone => pc'[n] = pc[n]
        /\ pc'[n] = "dead" => pc[n] = "dead" \/ Crash
        /\ pc'[n] = "unlaunched" => pc[n] \in {"unlaunched", "launchFailed"}

SeenMoves ==
    \A n \in Turns :
        /\ \/ seen'[n] = seen[n]
           \/ seen'[n] = session.rows /\ session' = session /\ pc[n] = "running"
           \/ seen'[n] = <<>>
        /\ pc'[n] \in WithSeen =>
              \/ pc[n] \in WithSeen /\ seen'[n] = seen[n]
              \/ pc[n] = "running" /\ session' = session /\ seen'[n] = session.rows

AnswersMove ==
    \A n \in Turns :
        /\ pc'[n] = "merged" => pc[n] = "merged" \/ session' = Settled(MergedRows(n))
        /\ pc'[n] \in {"saved", "settling", "committed"} =>
              \/ pc[n] \in {"saved", "settling", "committed"}
              \/ pc[n] = "merged" /\ session' = session /\ disk' = session
        /\ \/ turnLog'[n] = turnLog[n]
           \/ turnLog'[n] = Append(turnLog[n], "interrupted")
           \/ pc[n] = "saved" /\ turnLog'[n] = Append(turnLog[n], "completed")

\* Who has settled its turn does not take it up again.
LEMMA StepsMoveWorkers ==
    ASSUME TypeOK, TurnsBeginInOrder, [Next]_vars
    PROVE  WorkersMove
<1>0. pc \in [Turns -> PCs] /\ latest \in Turn0
    BY DEF TypeOK
<1> USE <1>0 DEF Goto, EndCancelled, registries, logs, history, bounds, WorkersMove, Ended,
        Gone, Turns, PCs, Working, WithAgent, HoldsSessionLock, Launching
<1>1. ASSUME Start PROVE WorkersMove
    BY <1>1 DEF Start, TurnsBeginInOrder, Turn0
<1>2. ASSUME NEW m \in Turns, OpenStream(m) PROVE WorkersMove
    BY <1>2 DEF OpenStream
<1>3. ASSUME NEW m \in Turns, StartThread(m) \/ InvocationReturns(m) \/ Raises(m)
      PROVE  WorkersMove
    BY <1>3 DEF StartThread, InvocationReturns, Raises
<1>4. ASSUME NEW m \in Turns, StartThreadFails(m) PROVE WorkersMove
    BY <1>4 DEF StartThreadFails
<1>5. ASSUME NEW m \in Turns, CleanupLaunchFailure(m) PROVE WorkersMove
    BY <1>5 DEF CleanupLaunchFailure
<1>6. ASSUME NEW m \in Turns, Admit(m) PROVE WorkersMove
    <2>1. CASE m \in streams
        BY <1>6, <2>1 DEF Admit
    <2>2. CASE ~(m \in streams)
        BY <1>6, <2>2 DEF Admit
    <2> QED BY <2>1, <2>2
<1>7. ASSUME NEW m \in Turns, MarkRunning(m) PROVE WorkersMove
    BY <1>7 DEF MarkRunning
<1>8. ASSUME NEW m \in Turns, RegisterAgentIfCurrent(m) PROVE WorkersMove
    <2>1. CASE m \in streams /\ m \notin cancelled
        BY <1>8, <2>1 DEF RegisterAgentIfCurrent
    <2>2. CASE ~(m \in streams /\ m \notin cancelled)
        BY <1>8, <2>2 DEF RegisterAgentIfCurrent
    <2> QED BY <2>1, <2>2
<1>9. ASSUME NEW m \in Turns, AgentCanInvoke(m) PROVE WorkersMove
    <2>1. CASE m \in streams /\ m \notin cancelled /\ m \in agents
        BY <1>9, <2>1 DEF AgentCanInvoke
    <2>2. CASE ~(m \in streams /\ m \notin cancelled /\ m \in agents)
        BY <1>9, <2>2 DEF AgentCanInvoke
    <2> QED BY <2>1, <2>2
<1>10. ASSUME NEW m \in Turns, PassesCancelCheck(m) PROVE WorkersMove
    <2>1. CASE pc[m] = "returned"
        BY <1>10, <2>1 DEF PassesCancelCheck
    <2>2. CASE ~(pc[m] = "returned")
        BY <1>10, <2>2 DEF PassesCancelCheck
    <2> QED BY <2>1, <2>2
<1>11. ASSUME NEW m \in Turns, FinalizeRejected(m) PROVE WorkersMove
    BY <1>11 DEF FinalizeRejected
<1>12. ASSUME NEW m \in Turns, CancelledOnReturn(m) PROVE WorkersMove
    BY <1>12 DEF CancelledOnReturn
<1>13. ASSUME NEW m \in Turns, CancelledInWriteback(m) PROVE WorkersMove
    BY <1>13 DEF CancelledInWriteback
<1>14. ASSUME NEW m \in Turns, WritebackBegins(m) PROVE WorkersMove
    <2>1. CASE StreamWritebackIsCurrent(m) \/ StreamWritebackCanSupersedeRecoveryMarker(m)
        BY <1>14, <2>1 DEF WritebackBegins
    <2>2. CASE ~(StreamWritebackIsCurrent(m) \/ StreamWritebackCanSupersedeRecoveryMarker(m))
        BY <1>14, <2>2 DEF WritebackBegins
    <2> QED BY <2>1, <2>2
<1>15. ASSUME NEW m \in Turns, MergeResult(m) PROVE WorkersMove
    BY <1>15 DEF MergeResult
<1>16. ASSUME NEW m \in Turns, ReturnsError(m) PROVE WorkersMove
    BY <1>16 DEF ReturnsError
<1>17. ASSUME NEW m \in Turns, SaveResult(m) PROVE WorkersMove
    BY <1>17 DEF SaveResult
<1>18. ASSUME NEW m \in Turns, CompleteTurn(m) PROVE WorkersMove
    BY <1>18 DEF CompleteTurn
<1>19. ASSUME NEW m \in Turns, CommitWriteback(m) PROVE WorkersMove
    BY <1>19 DEF CommitWriteback
<1>20. ASSUME NEW m \in Turns, PutDone(m) PROVE WorkersMove
    BY <1>20 DEF PutDone
<1>21. ASSUME NEW m \in Turns, FailTurn(m) PROVE WorkersMove
    BY <1>21 DEF FailTurn
<1>22. ASSUME NEW m \in Turns, Unwind(m) PROVE WorkersMove
    BY <1>22 DEF Unwind
<1>23. ASSUME NEW m \in Turns, TearDown(m) PROVE WorkersMove
    BY <1>23 DEF TearDown
<1>24. ASSUME NEW m \in Turns, RowAges(m) PROVE WorkersMove
    BY <1>24 DEF RowAges
<1>25. ASSUME NEW k \in Stops, NEW m \in Turns, StopClaims(k, m) PROVE WorkersMove
    BY <1>25 DEF StopClaims
<1>26. ASSUME NEW k \in Stops, StopSignals(k) PROVE WorkersMove
    BY <1>26 DEF StopSignals
<1>27. ASSUME NEW k \in Stops, StopSettles(k) PROVE WorkersMove
    BY <1>27 DEF StopSettles
<1>28. ASSUME NEW k \in Stops, StopEmits(k) PROVE WorkersMove
    BY <1>28 DEF StopEmits
<1>29. ASSUME PendingAges \/ ClearStaleChecks PROVE WorkersMove
    BY <1>29 DEF PendingAges, ClearStaleChecks
<1>30. ASSUME ClearStaleClears PROVE WorkersMove
    BY <1>30 DEF ClearStaleClears
<1>31. ASSUME DropStaleCancelledRuns PROVE WorkersMove
    BY <1>31 DEF DropStaleCancelledRuns
<1>32. ASSUME Crash PROVE WorkersMove
    BY <1>32 DEF Crash
<1>33. CASE UNCHANGED vars
    BY <1>33 DEF vars
<1> QED
    BY <1>1, <1>2, <1>3, <1>4, <1>5, <1>6, <1>7, <1>8, <1>9, <1>10, <1>11, <1>12, <1>13, <1>14,
       <1>15, <1>16, <1>17, <1>18, <1>19, <1>20, <1>21, <1>22, <1>23, <1>24, <1>25, <1>26,
       <1>27, <1>28, <1>29, <1>30, <1>31, <1>32, <1>33
       DEF Next, LaunchStep, WorkerStep, BeforeAgent, WritebackStep, StopStep

\* A worker looks at the session once.
LEMMA StepsMoveSeen ==
    ASSUME TypeOK, [Next]_vars
    PROVE  SeenMoves
<1>0. pc \in [Turns -> PCs] /\ latest \in Turn0 /\ seen \in [Turns -> Seq(Rows)]
    BY DEF TypeOK
<1> USE <1>0 DEF Goto, EndCancelled, registries, logs, history, bounds, SeenMoves, WithSeen,
        Turns, PCs, Working, WithAgent, HoldsSessionLock, Launching
<1>1. ASSUME Start PROVE SeenMoves
    BY <1>1 DEF Start
<1>2. ASSUME NEW m \in Turns, OpenStream(m) PROVE SeenMoves
    BY <1>2 DEF OpenStream
<1>3. ASSUME NEW m \in Turns, StartThread(m) \/ InvocationReturns(m) \/ Raises(m)
      PROVE  SeenMoves
    BY <1>3 DEF StartThread, InvocationReturns, Raises
<1>4. ASSUME NEW m \in Turns, StartThreadFails(m) PROVE SeenMoves
    BY <1>4 DEF StartThreadFails
<1>5. ASSUME NEW m \in Turns, CleanupLaunchFailure(m) PROVE SeenMoves
    BY <1>5 DEF CleanupLaunchFailure
<1>6. ASSUME NEW m \in Turns, Admit(m) PROVE SeenMoves
    <2>1. CASE m \in streams
        BY <1>6, <2>1 DEF Admit
    <2>2. CASE ~(m \in streams)
        BY <1>6, <2>2 DEF Admit
    <2> QED BY <2>1, <2>2
<1>7. ASSUME NEW m \in Turns, MarkRunning(m) PROVE SeenMoves
    BY <1>7 DEF MarkRunning
<1>8. ASSUME NEW m \in Turns, RegisterAgentIfCurrent(m) PROVE SeenMoves
    <2>1. CASE m \in streams /\ m \notin cancelled
        BY <1>8, <2>1 DEF RegisterAgentIfCurrent
    <2>2. CASE ~(m \in streams /\ m \notin cancelled)
        BY <1>8, <2>2 DEF RegisterAgentIfCurrent
    <2> QED BY <2>1, <2>2
<1>9. ASSUME NEW m \in Turns, AgentCanInvoke(m) PROVE SeenMoves
    <2>1. CASE m \in streams /\ m \notin cancelled /\ m \in agents
        BY <1>9, <2>1 DEF AgentCanInvoke
    <2>2. CASE ~(m \in streams /\ m \notin cancelled /\ m \in agents)
        BY <1>9, <2>2 DEF AgentCanInvoke
    <2> QED BY <2>1, <2>2
<1>10. ASSUME NEW m \in Turns, PassesCancelCheck(m) PROVE SeenMoves
    <2>1. CASE pc[m] = "returned"
        BY <1>10, <2>1 DEF PassesCancelCheck
    <2>2. CASE ~(pc[m] = "returned")
        BY <1>10, <2>2 DEF PassesCancelCheck
    <2> QED BY <2>1, <2>2
<1>11. ASSUME NEW m \in Turns, FinalizeRejected(m) PROVE SeenMoves
    BY <1>11 DEF FinalizeRejected
<1>12. ASSUME NEW m \in Turns, CancelledOnReturn(m) PROVE SeenMoves
    BY <1>12 DEF CancelledOnReturn
<1>13. ASSUME NEW m \in Turns, CancelledInWriteback(m) PROVE SeenMoves
    BY <1>13 DEF CancelledInWriteback
<1>14. ASSUME NEW m \in Turns, WritebackBegins(m) PROVE SeenMoves
    <2>1. CASE StreamWritebackIsCurrent(m) \/ StreamWritebackCanSupersedeRecoveryMarker(m)
        BY <1>14, <2>1 DEF WritebackBegins
    <2>2. CASE ~(StreamWritebackIsCurrent(m) \/ StreamWritebackCanSupersedeRecoveryMarker(m))
        BY <1>14, <2>2 DEF WritebackBegins
    <2> QED BY <2>1, <2>2
<1>15. ASSUME NEW m \in Turns, MergeResult(m) PROVE SeenMoves
    BY <1>15 DEF MergeResult
<1>16. ASSUME NEW m \in Turns, ReturnsError(m) PROVE SeenMoves
    BY <1>16 DEF ReturnsError
<1>17. ASSUME NEW m \in Turns, SaveResult(m) PROVE SeenMoves
    BY <1>17 DEF SaveResult
<1>18. ASSUME NEW m \in Turns, CompleteTurn(m) PROVE SeenMoves
    BY <1>18 DEF CompleteTurn
<1>19. ASSUME NEW m \in Turns, CommitWriteback(m) PROVE SeenMoves
    BY <1>19 DEF CommitWriteback
<1>20. ASSUME NEW m \in Turns, PutDone(m) PROVE SeenMoves
    BY <1>20 DEF PutDone
<1>21. ASSUME NEW m \in Turns, FailTurn(m) PROVE SeenMoves
    BY <1>21 DEF FailTurn
<1>22. ASSUME NEW m \in Turns, Unwind(m) PROVE SeenMoves
    BY <1>22 DEF Unwind
<1>23. ASSUME NEW m \in Turns, TearDown(m) PROVE SeenMoves
    BY <1>23 DEF TearDown
<1>24. ASSUME NEW m \in Turns, RowAges(m) PROVE SeenMoves
    BY <1>24 DEF RowAges
<1>25. ASSUME NEW k \in Stops, NEW m \in Turns, StopClaims(k, m) PROVE SeenMoves
    BY <1>25 DEF StopClaims
<1>26. ASSUME NEW k \in Stops, StopSignals(k) PROVE SeenMoves
    BY <1>26 DEF StopSignals
<1>27. ASSUME NEW k \in Stops, StopSettles(k) PROVE SeenMoves
    BY <1>27 DEF StopSettles
<1>28. ASSUME NEW k \in Stops, StopEmits(k) PROVE SeenMoves
    BY <1>28 DEF StopEmits
<1>29. ASSUME PendingAges \/ ClearStaleChecks PROVE SeenMoves
    BY <1>29 DEF PendingAges, ClearStaleChecks
<1>30. ASSUME ClearStaleClears PROVE SeenMoves
    BY <1>30 DEF ClearStaleClears
<1>31. ASSUME DropStaleCancelledRuns PROVE SeenMoves
    BY <1>31 DEF DropStaleCancelledRuns
<1>32. ASSUME Crash PROVE SeenMoves
    BY <1>32 DEF Crash
<1>33. CASE UNCHANGED vars
    BY <1>33 DEF vars
<1> QED
    BY <1>1, <1>2, <1>3, <1>4, <1>5, <1>6, <1>7, <1>8, <1>9, <1>10, <1>11, <1>12, <1>13, <1>14,
       <1>15, <1>16, <1>17, <1>18, <1>19, <1>20, <1>21, <1>22, <1>23, <1>24, <1>25, <1>26,
       <1>27, <1>28, <1>29, <1>30, <1>31, <1>32, <1>33
       DEF Next, LaunchStep, WorkerStep, BeforeAgent, WritebackStep, StopStep

\* An answer is merged, saved and completed in this order.
LEMMA StepsMoveAnswers ==
    ASSUME TypeOK, [Next]_vars
    PROVE  AnswersMove
<1>0. pc \in [Turns -> PCs] /\ turnLog \in [Turns -> Seq({"completed", "interrupted"})]
    BY DEF TypeOK
<1> USE <1>0 DEF Goto, EndCancelled, Log, registries, logs, history, bounds, AnswersMove, Turns,
        PCs, Working, WithAgent, HoldsSessionLock, Launching
<1>1. ASSUME Start PROVE AnswersMove
    BY <1>1 DEF Start
<1>2. ASSUME NEW m \in Turns, OpenStream(m) PROVE AnswersMove
    BY <1>2 DEF OpenStream
<1>3. ASSUME NEW m \in Turns, StartThread(m) \/ InvocationReturns(m) \/ Raises(m)
      PROVE  AnswersMove
    BY <1>3 DEF StartThread, InvocationReturns, Raises
<1>4. ASSUME NEW m \in Turns, StartThreadFails(m) PROVE AnswersMove
    BY <1>4 DEF StartThreadFails
<1>5. ASSUME NEW m \in Turns, CleanupLaunchFailure(m) PROVE AnswersMove
    BY <1>5 DEF CleanupLaunchFailure
<1>6. ASSUME NEW m \in Turns, Admit(m) PROVE AnswersMove
    <2>1. CASE m \in streams
        BY <1>6, <2>1 DEF Admit
    <2>2. CASE ~(m \in streams)
        BY <1>6, <2>2 DEF Admit
    <2> QED BY <2>1, <2>2
<1>7. ASSUME NEW m \in Turns, MarkRunning(m) PROVE AnswersMove
    BY <1>7 DEF MarkRunning
<1>8. ASSUME NEW m \in Turns, RegisterAgentIfCurrent(m) PROVE AnswersMove
    <2>1. CASE m \in streams /\ m \notin cancelled
        BY <1>8, <2>1 DEF RegisterAgentIfCurrent
    <2>2. CASE ~(m \in streams /\ m \notin cancelled)
        BY <1>8, <2>2 DEF RegisterAgentIfCurrent
    <2> QED BY <2>1, <2>2
<1>9. ASSUME NEW m \in Turns, AgentCanInvoke(m) PROVE AnswersMove
    <2>1. CASE m \in streams /\ m \notin cancelled /\ m \in agents
        BY <1>9, <2>1 DEF AgentCanInvoke
    <2>2. CASE ~(m \in streams /\ m \notin cancelled /\ m \in agents)
        BY <1>9, <2>2 DEF AgentCanInvoke
    <2> QED BY <2>1, <2>2
<1>10. ASSUME NEW m \in Turns, PassesCancelCheck(m) PROVE AnswersMove
    <2>1. CASE pc[m] = "returned"
        BY <1>10, <2>1 DEF PassesCancelCheck
    <2>2. CASE ~(pc[m] = "returned")
        BY <1>10, <2>2 DEF PassesCancelCheck
    <2> QED BY <2>1, <2>2
<1>11. ASSUME NEW m \in Turns, FinalizeRejected(m) PROVE AnswersMove
    BY <1>11 DEF FinalizeRejected
<1>12. ASSUME NEW m \in Turns, CancelledOnReturn(m) PROVE AnswersMove
    BY <1>12 DEF CancelledOnReturn
<1>13. ASSUME NEW m \in Turns, CancelledInWriteback(m) PROVE AnswersMove
    BY <1>13 DEF CancelledInWriteback
<1>14. ASSUME NEW m \in Turns, WritebackBegins(m) PROVE AnswersMove
    <2>1. CASE StreamWritebackIsCurrent(m) \/ StreamWritebackCanSupersedeRecoveryMarker(m)
        BY <1>14, <2>1 DEF WritebackBegins
    <2>2. CASE ~(StreamWritebackIsCurrent(m) \/ StreamWritebackCanSupersedeRecoveryMarker(m))
        BY <1>14, <2>2 DEF WritebackBegins
    <2> QED BY <2>1, <2>2
<1>15. ASSUME NEW m \in Turns, MergeResult(m) PROVE AnswersMove
    BY <1>15 DEF MergeResult
<1>16. ASSUME NEW m \in Turns, ReturnsError(m) PROVE AnswersMove
    BY <1>16 DEF ReturnsError
<1>17. ASSUME NEW m \in Turns, SaveResult(m) PROVE AnswersMove
    BY <1>17 DEF SaveResult
<1>18. ASSUME NEW m \in Turns, CompleteTurn(m) PROVE AnswersMove
    BY <1>18 DEF CompleteTurn
<1>19. ASSUME NEW m \in Turns, CommitWriteback(m) PROVE AnswersMove
    BY <1>19 DEF CommitWriteback
<1>20. ASSUME NEW m \in Turns, PutDone(m) PROVE AnswersMove
    BY <1>20 DEF PutDone
<1>21. ASSUME NEW m \in Turns, FailTurn(m) PROVE AnswersMove
    BY <1>21 DEF FailTurn
<1>22. ASSUME NEW m \in Turns, Unwind(m) PROVE AnswersMove
    BY <1>22 DEF Unwind
<1>23. ASSUME NEW m \in Turns, TearDown(m) PROVE AnswersMove
    BY <1>23 DEF TearDown
<1>24. ASSUME NEW m \in Turns, RowAges(m) PROVE AnswersMove
    BY <1>24 DEF RowAges
<1>25. ASSUME NEW k \in Stops, NEW m \in Turns, StopClaims(k, m) PROVE AnswersMove
    BY <1>25 DEF StopClaims
<1>26. ASSUME NEW k \in Stops, StopSignals(k) PROVE AnswersMove
    BY <1>26 DEF StopSignals
<1>27. ASSUME NEW k \in Stops, StopSettles(k) PROVE AnswersMove
    BY <1>27 DEF StopSettles
<1>28. ASSUME NEW k \in Stops, StopEmits(k) PROVE AnswersMove
    BY <1>28 DEF StopEmits
<1>29. ASSUME PendingAges \/ ClearStaleChecks PROVE AnswersMove
    BY <1>29 DEF PendingAges, ClearStaleChecks
<1>30. ASSUME ClearStaleClears PROVE AnswersMove
    BY <1>30 DEF ClearStaleClears
<1>31. ASSUME DropStaleCancelledRuns PROVE AnswersMove
    BY <1>31 DEF DropStaleCancelledRuns
<1>32. ASSUME Crash PROVE AnswersMove
    BY <1>32 DEF Crash
<1>33. CASE UNCHANGED vars
    BY <1>33 DEF vars
<1> QED
    BY <1>1, <1>2, <1>3, <1>4, <1>5, <1>6, <1>7, <1>8, <1>9, <1>10, <1>11, <1>12, <1>13, <1>14,
       <1>15, <1>16, <1>17, <1>18, <1>19, <1>20, <1>21, <1>22, <1>23, <1>24, <1>25, <1>26,
       <1>27, <1>28, <1>29, <1>30, <1>31, <1>32, <1>33
       DEF Next, LaunchStep, WorkerStep, BeforeAgent, WritebackStep, StopStep

-----------------------------------------------------------------------------
\* Every step is one of these kinds.  Whoever settles the latest turn writes it.
LEMMA SettlingWrites ==
    ASSUME TypeOK, TurnsBeginInOrder, NEW n \in Turns, n = latest, NEW rows,
           NEW kind \in {"user", "error", "cancel", "recovery"},
           Settles(session.rows, rows, n, kind), session.pending \in {0, n},
           session' = Settled(rows), disk' = session', latest' = latest,
           kind = "error" => pc'[n] \in Ended,
           kind = "recovery" /\ Timely => pc[n] = "dead"
    PROVE  Writes(n) /\ Saved(kind, n)'
<1>1. session'.active = 0 /\ session'.pending = 0 /\ session'.rows = rows
    BY DEF Settled
<1>2. /\ rows \in Seq(Rows) /\ IsTranscript(rows) /\ UpTo(rows, n)
      /\ \A row \in Rows :
            Has(rows, row) <=> Has(session.rows, row) \/ row \in {Row("user", n), Row(kind, n)}
    BY DEF Settles
<1>3. \A m \in Turns : m > n => pc[m] \notin WithSeen
    BY DEF TurnsBeginInOrder, WithSeen, WithAgent
<1>4. Row("user", n) \in Rows /\ Row(kind, n) \in Rows
    BY DEF Rows, Row
<1>5. Kept(session.rows, rows)
    BY <1>2 DEF Kept
<1>6. \A row \in {Row("user", n), Row(kind, n)} :
          /\ row.turn = n
          /\ row.kind \in {"answer", "error"} => pc'[n] \in Ended
          /\ row.kind = "recovery" /\ Timely => pc[n] = "dead"
    BY DEF Row
<1>7. n <= latest
    BY DEF Turns
<1>8. session.pending # 0 => Has(rows, Row("user", session.pending))
    BY <1>2, <1>4
<1>9. \A row \in Rows : Has(session.rows, row) => Has(rows, row)
    BY <1>2
<1>10. \A row \in Rows :
          Has(rows, row) =>
              \/ Has(session.rows, row)
              \/ /\ row.turn = n
                 /\ row.kind \in {"answer", "error"} => pc'[n] \in Ended
                 /\ row.kind = "recovery" /\ Timely => pc[n] = "dead"
    BY <1>2, <1>6
<1>11. Saved(kind, n)'
    BY <1>1, <1>2, <1>4 DEF Saved, Has
<1> QED BY <1>1, <1>2, <1>3, <1>5, <1>7, <1>8, <1>9, <1>10, <1>11 DEF Writes

\* The session's turn is the latest, and pending.
LEMMA ActiveIsLatest ==
    ASSUME TypeOK, SessionsHaveShape, TranscriptsAreKept, NEW n \in Turns, session.active = n
    PROVE  /\ n = latest /\ session.pending = n
           /\ IsTranscript(session.rows) /\ UpTo(session.rows, n) /\ UpTo(session.rows, n - 1)
<1>1. n # 0
    BY DEF Turns
<1> QED BY <1>1 DEF TypeOK, SessionsHaveShape, SessionShape, TranscriptsAreKept, Record

\* A worker that ends as cancelled writes its turn, or nothing.
LEMMA FinalizingWrites ==
    ASSUME TypeOK, TurnsBeginInOrder, SessionsHaveShape, OwnerIsLatest, TranscriptsAreKept,
           PromptsAreKept, NEW n \in Turns, pc[n] \in Working,
           FinalizeCancelledTurn(n), latest' = latest
    PROVE  \/ Quiet /\ ~(wbOwner = n /\ session.active \in {0, n})
           \/ Writes(n) /\ Saved("cancel", n)'
<1>1. CASE ~(wbOwner = n /\ session.active \in {0, n})
    BY <1>1 DEF FinalizeCancelledTurn, Quiet
<1>2. CASE wbOwner = n /\ session.active \in {0, n}
    <2>1. session' = Settled(CancelledRows(session, n)) /\ disk' = session'
        BY <1>2 DEF FinalizeCancelledTurn, Store
    <2>2. n = latest /\ n # 0
        BY <1>2 DEF OwnerIsLatest, Turns
    <2>3. IsTranscript(session.rows) /\ UpTo(session.rows, n)
        BY <2>2 DEF TranscriptsAreKept, Record
    <2>4. session.pending = session.active
        BY DEF SessionsHaveShape, SessionShape
    <2>5. Keeps(session, n)
        <3>1. pc[n] # "unlaunched"
            BY DEF Working, WithAgent, HoldsSessionLock
        <3>2. n \in 1..latest
            BY <2>2 DEF Turns
        <3> QED BY <3>1, <3>2 DEF PromptsAreKept
    <2>6. session.pending = n \/ (session.pending = 0 /\ Has(session.rows, Row("user", n)))
        BY <1>2, <2>2, <2>4, <2>5 DEF Keeps, Has
    <2>7. Settles(session.rows, CancelledRows(session, n), n, "cancel")
        BY <2>3, <2>6, CancelledSettles DEF TypeOK
    <2> QED BY <2>1, <2>2, <2>6, <2>7, SettlingWrites
<1> QED BY <1>1, <1>2

\* A failed turn is written with its error.
LEMMA FailingWrites ==
    ASSUME TypeOK, TurnsBeginInOrder, SessionsHaveShape, TranscriptsAreKept, NEW n \in Turns,
           FailTurn(n)
    PROVE  \/ Quiet /\ ~StreamWritebackIsCurrent(n)
           \/ Writes(n) /\ Saved("error", n)'
<1>1. CASE ~StreamWritebackIsCurrent(n)
    BY <1>1 DEF FailTurn, Quiet
<1>2. CASE StreamWritebackIsCurrent(n)
    <2>1. /\ n = latest /\ session.pending = n /\ IsTranscript(session.rows)
          /\ UpTo(session.rows, n) /\ UpTo(session.rows, n - 1)
        BY <1>2, ActiveIsLatest DEF StreamWritebackIsCurrent
    <2>2. ~Has(session.rows, Row("error", n))
        BY <2>1, NotYetThere DEF TypeOK, Session
    <2>3. Settles(session.rows, FailedRows(session, n), n, "error")
        BY <2>1, <2>2, FailedSettles DEF TypeOK
    <2>4. /\ session' = Settled(FailedRows(session, n)) /\ disk' = session'
          /\ latest' = latest /\ pc'[n] \in Ended
        BY <1>2 DEF FailTurn, Store, Goto, TypeOK, Ended
    <2> QED BY <2>1, <2>3, <2>4, SettlingWrites
<1> QED BY <1>1, <1>2

\* A Stop writes the turn it has stopped.
LEMMA StoppingWrites ==
    ASSUME TypeOK, TurnsBeginInOrder, SessionsHaveShape, TranscriptsAreKept, NEW k \in Stops,
           NEW n \in Turns, n = stops[k].turn, StopSettles(k)
    PROVE  \/ Quiet /\ ~(stops[k].known /\ StreamWritebackIsCurrent(n))
           \/ Writes(n) /\ Saved("cancel", n)'
<1>1. CASE ~(stops[k].known /\ StreamWritebackIsCurrent(n))
    BY <1>1 DEF StopSettles, Quiet
<1>2. CASE stops[k].known /\ StreamWritebackIsCurrent(n)
    <2>1. /\ n = latest /\ session.pending = n /\ IsTranscript(session.rows)
          /\ UpTo(session.rows, n)
        BY <1>2, ActiveIsLatest DEF StreamWritebackIsCurrent
    <2>2. Settles(session.rows, CancelledRows(session, n), n, "cancel")
        BY <2>1, CancelledSettles DEF TypeOK
    <2>3. /\ session' = Settled(CancelledRows(session, n)) /\ disk' = session'
          /\ latest' = latest
        BY <1>2 DEF StopSettles, Store
    <2> QED BY <2>1, <2>2, <2>3, SettlingWrites
<1> QED BY <1>1, <1>2

\* The repair writes the turn it has looked at.
LEMMA ClearingWrites ==
    ASSUME TypeOK, TurnsBeginInOrder, SessionsHaveShape, RepairIsOfTheDead, TranscriptsAreKept,
           ClearStaleClears
    PROVE  Quiet \/ \E n \in Turns : Writes(n)
<1> DEFINE n == reader
           rows == IF session.pending # 0 /\ ~(n \in streams \/ runs[n] # "none")
                   THEN RecoveredRows(session) ELSE MaterializePendingUserTurn(session)
<1>1. CASE session.active # n
    BY <1>1 DEF ClearStaleClears, Quiet
<1>2. CASE session.active = n
    <2>1. n \in Turns
        BY BoundAssumption DEF ClearStaleClears, TypeOK, Turns, Turn0
    <2>2. /\ n = latest /\ session.pending = n /\ IsTranscript(session.rows)
          /\ UpTo(session.rows, n) /\ UpTo(session.rows, n - 1)
        BY <1>2, <2>1, ActiveIsLatest
    <2>3. session' = Settled(rows) /\ disk' = session' /\ latest' = latest
        BY <1>2 DEF ClearStaleClears, Store
    <2>4. Timely => pc[n] = "dead"
        BY <1>2, <2>1 DEF RepairIsOfTheDead, ClearStaleClears, LockFree, HoldsSessionLock
    <2>5. Settles(session.rows, RecoveredRows(session), n, "recovery")
        BY <2>1, <2>2, NotYetThere, RecoveredSettles DEF TypeOK, Session
    <2>6. Settles(session.rows, MaterializePendingUserTurn(session), n, "user")
        BY <2>1, <2>2, MaterializeSettles DEF TypeOK
    <2>7. CASE rows = RecoveredRows(session)
        BY <2>1, <2>2, <2>3, <2>4, <2>5, <2>7, SettlingWrites
    <2>8. CASE rows = MaterializePendingUserTurn(session)
        BY <2>1, <2>2, <2>3, <2>6, <2>8, SettlingWrites
    <2> QED BY <2>1, <2>7, <2>8
<1> QED BY <1>1, <1>2

-----------------------------------------------------------------------------
\* In a transcript that ends with a repair, the last prompt is the repaired one.
LEMMA RepairedPromptIsLast ==
    ASSUME NEW rows \in Seq(Rows), IsTranscript(rows), Len(rows) >= 2
    PROVE  UpTo(rows, rows[Len(rows)].turn) /\ rows[LastUserRow(rows)].turn = rows[Len(rows)].turn
<1> DEFINE r == rows[Len(rows)].turn
           u == LastUserRow(rows)
<1>1. Len(rows) \in 1..Len(rows) /\ Len(rows) \in Nat
    OBVIOUS
<1>2. r \in Turns /\ r \in Int
    <2>1. rows[Len(rows)] \in Rows
        BY <1>1
    <2> QED BY <2>1 DEF Rows, Turns
<1>3. UpTo(rows, r)
    <2> SUFFICES ASSUME NEW i \in 1..Len(rows) PROVE rows[i].turn <= r
        BY DEF UpTo
    <2>1. CASE i = Len(rows)
        BY <1>2, <2>1
    <2>2. CASE i < Len(rows)
        BY <1>1, <2>2 DEF IsTranscript, InTurnOrder
    <2> QED BY <1>1, <2>1, <2>2
<1>4. PICK p \in 1..Len(rows) : rows[p] = Row("user", r)
    BY <1>1 DEF IsTranscript, PromptsFirst
<1>5. rows[p].kind = "user" /\ rows[p].turn = r
    BY <1>4 DEF Row
<1>6. InLastTurn(rows, p)
    BY <1>2, <1>3, <1>5, LastPromptIsLast
<1>7. u \in 1..Len(rows) /\ rows[u].kind = "user" /\ InLastTurn(rows, u)
    BY <1>5, <1>6 DEF LastUserRow
<1> HIDE DEF u
<1>8. rows[u] \in Rows
    BY <1>7
<1>9. ~(u < p)
    BY <1>1, <1>5, <1>7 DEF InLastTurn
<1>10. r <= rows[u].turn
    <2>1. CASE u = p
        BY <1>2, <1>5, <2>1
    <2>2. CASE p < u
        BY <1>5, <1>7, <2>2 DEF IsTranscript, InTurnOrder
    <2> QED BY <1>1, <1>7, <1>9, <2>1, <2>2
<1>11. rows[u].turn <= r /\ rows[u].turn \in Int
    BY <1>3, <1>7, <1>8 DEF UpTo, Rows, Turns
<1> QED BY <1>2, <1>3, <1>10, <1>11 DEF u

\* What is kept of a transcript has no later turn than the transcript that keeps it.
LEMMA KeptIsUpTo ==
    ASSUME NEW old \in Seq(Rows), NEW new \in Seq(Rows), NEW n \in Int, IsTranscript(old),
           Kept(old, new), UpTo(new, n)
    PROVE  UpTo(old, n)
<1> SUFFICES ASSUME NEW i \in 1..Len(old)
             PROVE  old[i].turn <= n
    BY DEF UpTo
<1>1. PICK p \in 1..i : old[p] = Row("user", old[i].turn)
    BY DEF IsTranscript, PromptsFirst
<1>2. p \in 1..Len(old) /\ old[p] \in Rows /\ old[p].kind = "user" /\ old[p].turn = old[i].turn
    BY <1>1 DEF Row
<1>3. Has(new, old[p])
    BY <1>2 DEF Kept, Has
<1> QED BY <1>2, <1>3 DEF UpTo, Has

(***************************************************************************)
(* The worker that is writing back is the last one that the transcript     *)
(* knows: it still has the session, or the repair marker it replaces is    *)
(* its own.  This is where a late worker with the text of a newer prompt   *)
(* would go wrong.                                                         *)
(***************************************************************************)
LEMMA MergersAreLast ==
    ASSUME RepairsAreRecognised, TypeOK, TurnsBeginInOrder, SessionsHaveShape,
           TranscriptsAreKept, RepairMarksTheDead, PromptsAreKept,
           NEW n \in Turns, pc[n] \in Working,
           StreamWritebackIsCurrent(n) \/ StreamWritebackCanSupersedeRecoveryMarker(n)
    PROVE  /\ session.pending \in {0, n} /\ UpTo(session.rows, n)
           /\ Timely => session.active = n
           /\ \A m \in Turns : m > n => pc[m] \in {"none", "unlaunched"}
<1>1. n \in Int /\ n # 0 /\ pc[n] \notin {"none", "unlaunched", "dead"}
    BY DEF Turns, Working, WithAgent, HoldsSessionLock
<1>2. n \in 1..latest /\ latest \in Int
    BY <1>1 DEF TurnsBeginInOrder, TypeOK, Turns, Turn0
<1>3. CASE StreamWritebackIsCurrent(n)
    <2>1. n = latest /\ session.pending = n /\ UpTo(session.rows, n)
        BY <1>3, ActiveIsLatest DEF StreamWritebackIsCurrent
    <2>2. \A m \in Turns : m > n => pc[m] = "none"
        BY <2>1 DEF TurnsBeginInOrder
    <2> QED BY <1>3, <2>1, <2>2 DEF StreamWritebackIsCurrent
<1>4. CASE StreamWritebackCanSupersedeRecoveryMarker(n)
    <2> DEFINE rows == session.rows
               r == rows[Len(rows)].turn
    <2>1. /\ session.pending = 0 /\ Len(rows) >= 2 /\ rows[Len(rows)].kind = "recovery"
          /\ Text[rows[LastUserRow(rows)].turn] = Text[n]
        BY <1>4 DEF StreamWritebackCanSupersedeRecoveryMarker
    <2>2. rows \in Seq(Rows) /\ IsTranscript(rows)
        BY DEF TypeOK, Session, TranscriptsAreKept, Record
    <2>3. UpTo(rows, r) /\ rows[LastUserRow(rows)].turn = r
        BY <2>1, <2>2, RepairedPromptIsLast
    <2>4. rows[Len(rows)] \in Rows /\ Len(rows) \in 1..Len(rows)
        BY <2>1, <2>2
    <2>5. r \in Turns /\ r \in Int /\ rows[Len(rows)] = Row("recovery", r)
        BY <2>1, <2>4 DEF Rows, Row, Turns
    <2>6. Has(rows, Row("recovery", r))
        BY <2>4, <2>5 DEF Has
    <2> HIDE DEF r
    <2>7. \A m \in 1..latest : pc[m] # "unlaunched" => m <= r
        <3> SUFFICES ASSUME NEW m \in 1..latest, pc[m] # "unlaunched" PROVE m <= r
            OBVIOUS
        <3>1. m # 0
            BY <1>2
        <3>2. PICK i \in 1..Len(rows) : rows[i] = Row("user", m)
            BY <2>1, <3>1 DEF PromptsAreKept, Keeps
        <3>3. rows[i].turn = m
            BY <3>2 DEF Row
        <3> QED BY <2>3, <3>3 DEF UpTo
    <2>8. n <= r
        BY <1>1, <1>2, <2>7
    <2>9. ~Timely
        BY <1>1, <2>5, <2>6, <2>8 DEF RepairMarksTheDead, Gone
    <2>10. r = n
        BY <2>1, <2>3, <2>5, <2>9 DEF RepairsAreRecognised
    <2>11. ASSUME NEW m \in Turns, m > n PROVE pc[m] \in {"none", "unlaunched"}
        <3>1. CASE m > latest
            BY <3>1 DEF TurnsBeginInOrder
        <3>2. CASE m \in 1..latest
            BY <1>1, <2>7, <2>10, <2>11, <3>2 DEF Turns
        <3> QED BY <1>2, <3>1, <3>2 DEF Turns
    <2> QED BY <2>1, <2>3, <2>9, <2>10, <2>11
<1> QED BY <1>3, <1>4

\* What it writes keeps what it has not seen, and adds its own.
LEMMA MergingWrites ==
    ASSUME RepairsAreRecognised, TypeOK, TurnsBeginInOrder, SessionsHaveShape,
           TranscriptsAreKept, SeenIsCurrent, OnlyTheEndedAnswer, RepairMarksTheDead,
           PromptsAreKept, WritebackIsCurrent, NEW n \in Turns, pc[n] = "merging",
           NEW rows, NEW kind \in {"answer", "error"},
           IsTranscript(seen[n]) /\ UpTo(seen[n], n) /\ ~Has(seen[n], Row(kind, n)) =>
               Settles(seen[n], rows, n, kind),
           session' = Settled(rows), disk' \in {disk, session'}, latest' = latest,
           pc'[n] \in Ended
    PROVE  Writes(n) /\ Has(session'.rows, Row(kind, n))
<1>1. /\ session.pending \in {0, n} /\ UpTo(session.rows, n)
      /\ Timely => session.active = n
      /\ \A m \in Turns : m > n => pc[m] \in {"none", "unlaunched"}
    BY MergersAreLast DEF WritebackIsCurrent, Working, HoldsSessionLock
<1>2. pc[n] \in WithSeen /\ pc[n] \notin Ended /\ n \in Int
    BY DEF WithSeen, Ended, Turns
<1>3. session.rows \in Seq(Rows) /\ seen[n] \in Seq(Rows) /\ IsTranscript(seen[n])
    BY DEF TypeOK, Session, TranscriptsAreKept
<1>4. UpTo(seen[n], n)
    BY <1>1, <1>2, <1>3, KeptIsUpTo DEF SeenIsCurrent
<1>5. Settles(seen[n], rows, n, kind)
    BY <1>2, <1>3, <1>4 DEF OnlyTheEndedAnswer, Nowhere
<1>6. /\ rows \in Seq(Rows) /\ IsTranscript(rows) /\ UpTo(rows, n)
      /\ \A row \in Rows :
            Has(rows, row) <=> Has(seen[n], row) \/ row \in {Row("user", n), Row(kind, n)}
    BY <1>5 DEF Settles
<1>7. session'.active = 0 /\ session'.pending = 0 /\ session'.rows = rows
    BY DEF Settled
<1>8. n <= latest
    BY DEF TurnsBeginInOrder, TypeOK, Turns, Turn0
<1>9. \A m \in Turns : m > n => pc[m] \notin WithSeen
    BY <1>1 DEF WithSeen, WithAgent
<1>10. Kept(session.rows, rows)
    <2> SUFFICES ASSUME NEW row \in Rows, row.kind \in {"user", "answer"}, Has(session.rows, row)
                 PROVE  Has(rows, row)
        BY DEF Kept
    <2>1. CASE row.turn < n
        BY <1>2, <1>6, <2>1 DEF SeenIsCurrent
    <2>2. CASE row.turn = n /\ row.kind = "user"
        BY <1>6, <2>2 DEF Row, Rows
    <2>3. CASE row.turn = n /\ row.kind = "answer"
        <3>1. row = Row("answer", n)
            BY <2>3 DEF Row, Rows
        <3> QED BY <1>2, <3>1 DEF OnlyTheEndedAnswer, Nowhere
    <2>4. row.turn <= n /\ row.turn \in Int
        BY <1>1 DEF UpTo, Has, Rows, Turns
    <2> QED BY <1>2, <2>1, <2>2, <2>3, <2>4
<1>11. Row("user", n) \in Rows /\ Row(kind, n) \in Rows
    BY DEF Row, Rows
<1>12. session.pending # 0 => Has(rows, Row("user", session.pending))
    BY <1>1, <1>6, <1>11
<1>13. \A row \in {Row("user", n), Row(kind, n)} : row.turn = n /\ row.kind # "recovery"
    BY DEF Row
<1>14. \A row \in Rows :
          Has(rows, row) =>
              \/ pc[n] = "merging" /\ Has(seen[n], row)
              \/ row.turn = n /\ row.kind # "recovery"
    BY <1>6, <1>13
<1>15. Timely => \A row \in Rows : Has(session.rows, row) => Has(rows, row)
    BY <1>1, <1>2, <1>6 DEF SeenIsCurrent
<1>16. Has(session'.rows, Row(kind, n))
    BY <1>6, <1>7, <1>11
<1> QED BY <1>6, <1>7, <1>8, <1>9, <1>10, <1>12, <1>14, <1>15, <1>16 DEF Writes

\* The answer is written,
LEMMA AnsweringWrites ==
    ASSUME RepairsAreRecognised, TypeOK, TurnsBeginInOrder, SessionsHaveShape,
           TranscriptsAreKept, SeenIsCurrent, OnlyTheEndedAnswer, RepairMarksTheDead,
           PromptsAreKept, WritebackIsCurrent, NEW n \in Turns, MergeResult(n)
    PROVE  Writes(n)
<1>1. /\ pc[n] = "merging" /\ session' = Settled(MergedRows(n)) /\ disk' = disk
      /\ latest' = latest
    BY DEF MergeResult
<1>2. pc'[n] \in Ended
    BY DEF MergeResult, Goto, TypeOK, Ended
<1>3. IsTranscript(seen[n]) /\ UpTo(seen[n], n) /\ ~Has(seen[n], Row("answer", n)) =>
          Settles(seen[n], MergedRows(n), n, "answer")
    BY MergedSettles
<1> QED BY <1>1, <1>2, <1>3, MergingWrites

\* or the error.
LEMMA ErringWrites ==
    ASSUME RepairsAreRecognised, TypeOK, TurnsBeginInOrder, SessionsHaveShape,
           TranscriptsAreKept, SeenIsCurrent, OnlyTheEndedAnswer, RepairMarksTheDead,
           PromptsAreKept, WritebackIsCurrent, NEW n \in Turns, ReturnsError(n)
    PROVE  Writes(n) /\ Saved("error", n)'
<1> DEFINE s == [session EXCEPT !.rows = seen[n], !.pending = n]
           rows == FailedRows(s, n)
<1>1. /\ pc[n] = "merging" /\ session' = Settled(rows) /\ disk' = session' /\ latest' = latest
    BY DEF ReturnsError, Store
<1>2. pc'[n] \in Ended
    BY DEF ReturnsError, Goto, TypeOK, Ended
<1>3. s \in Session /\ s.rows = seen[n] /\ s.pending = n
    <2>1. session \in Session /\ seen[n] \in Seq(Rows) /\ n \in Turn0
        BY DEF TypeOK, Turns, Turn0
    <2> QED BY <2>1 DEF Session
<1> HIDE DEF s
<1>4. IsTranscript(seen[n]) /\ UpTo(seen[n], n) /\ ~Has(seen[n], Row("error", n)) =>
          Settles(seen[n], rows, n, "error")
    BY <1>3, FailedSettles
<1> HIDE DEF rows
<1> QED BY <1>1, <1>2, <1>4, MergingWrites DEF Saved, Has

\* Every step writes a turn, begins one, drops one, restarts, or leaves the transcript alone.
LEMMA StepsAreOfAKind ==
    ASSUME RepairsAreRecognised, TypeOK, TurnsBeginInOrder, SessionsHaveShape,
          ActiveIsUnsettled, OwnerIsLatest, WritebackIsCurrent, RepairIsOfTheDead,
          TranscriptsAreKept, SeenIsCurrent, OnlyTheEndedAnswer, RepairMarksTheDead,
          PromptsAreKept, [Next]_vars
    PROVE  Kinds
<1>1. ASSUME Start PROVE Kinds
    BY <1>1 DEF Kinds
<1>2. ASSUME NEW m \in Turns, OpenStream(m) PROVE Kinds
    BY <1>2 DEF OpenStream, Quiet, Kinds
<1>3. ASSUME NEW m \in Turns, StartThread(m) PROVE Kinds
    BY <1>3 DEF StartThread, Quiet, Kinds
<1>4. ASSUME NEW m \in Turns, InvocationReturns(m) PROVE Kinds
    BY <1>4 DEF InvocationReturns, Quiet, Kinds
<1>5. ASSUME NEW m \in Turns, Raises(m) PROVE Kinds
    BY <1>5 DEF Raises, Quiet, Kinds
<1>6. ASSUME NEW m \in Turns, StartThreadFails(m) PROVE Kinds
    BY <1>6 DEF StartThreadFails, Quiet, Kinds
<1>7. ASSUME NEW m \in Turns, CleanupLaunchFailure(m) PROVE Kinds
    <2>1. CASE session.active = m
        BY <1>7, <2>1 DEF CleanupLaunchFailure, Store, Goto, TypeOK, Abandons, Kinds
    <2>2. CASE session.active # m
        BY <1>7, <2>2 DEF CleanupLaunchFailure, Quiet, Kinds
    <2> QED BY <2>1, <2>2
<1>8. ASSUME NEW m \in Turns, Admit(m) PROVE Kinds
    BY <1>8 DEF Admit, Quiet, Kinds
<1>9. ASSUME NEW m \in Turns, MarkRunning(m) PROVE Kinds
    BY <1>9 DEF MarkRunning, Quiet, Kinds
<1>10. ASSUME NEW m \in Turns, RegisterAgentIfCurrent(m) PROVE Kinds
    BY <1>10 DEF RegisterAgentIfCurrent, Quiet, Kinds
<1>11. ASSUME NEW m \in Turns, AgentCanInvoke(m) PROVE Kinds
    BY <1>11 DEF AgentCanInvoke, Quiet, Kinds
<1>12. ASSUME NEW m \in Turns, PassesCancelCheck(m) PROVE Kinds
    BY <1>12 DEF PassesCancelCheck, Quiet, Kinds
<1>13. ASSUME NEW m \in Turns, FinalizeRejected(m) PROVE Kinds
    <2>1. FinalizeCancelledTurn(m) /\ latest' = latest
        BY <1>13 DEF FinalizeRejected, EndCancelled
    <2>2. pc[m] \in Working
        BY <1>13 DEF FinalizeRejected, Working, HoldsSessionLock
    <2> QED BY <2>1, <2>2, FinalizingWrites DEF Kinds
<1>14. ASSUME NEW m \in Turns, CancelledOnReturn(m) PROVE Kinds
    <2>1. FinalizeCancelledTurn(m) /\ latest' = latest
        BY <1>14 DEF CancelledOnReturn, EndCancelled
    <2>2. pc[m] \in Working
        BY <1>14 DEF CancelledOnReturn, Working, HoldsSessionLock
    <2> QED BY <2>1, <2>2, FinalizingWrites DEF Kinds
<1>15. ASSUME NEW m \in Turns, CancelledInWriteback(m) PROVE Kinds
    <2>1. FinalizeCancelledTurn(m) /\ latest' = latest
        BY <1>15 DEF CancelledInWriteback, EndCancelled
    <2>2. pc[m] \in Working
        BY <1>15 DEF CancelledInWriteback, Working, HoldsSessionLock
    <2> QED BY <2>1, <2>2, FinalizingWrites DEF Kinds
<1>16. ASSUME NEW m \in Turns, WritebackBegins(m) PROVE Kinds
    BY <1>16 DEF WritebackBegins, Quiet, Kinds
<1>17. ASSUME NEW m \in Turns, MergeResult(m) PROVE Kinds
    BY <1>17, AnsweringWrites DEF Kinds
<1>18. ASSUME NEW m \in Turns, ReturnsError(m) PROVE Kinds
    BY <1>18, ErringWrites DEF Kinds
<1>19. ASSUME NEW m \in Turns, SaveResult(m) PROVE Kinds
    BY <1>19 DEF SaveResult, Quiet, Kinds
<1>20. ASSUME NEW m \in Turns, CompleteTurn(m) PROVE Kinds
    BY <1>20 DEF CompleteTurn, Quiet, Kinds
<1>21. ASSUME NEW m \in Turns, CommitWriteback(m) PROVE Kinds
    BY <1>21 DEF CommitWriteback, Quiet, Kinds
<1>22. ASSUME NEW m \in Turns, PutDone(m) PROVE Kinds
    BY <1>22 DEF PutDone, Quiet, Kinds
<1>23. ASSUME NEW m \in Turns, FailTurn(m) PROVE Kinds
    BY <1>23, FailingWrites DEF Kinds
<1>24. ASSUME NEW m \in Turns, Unwind(m) PROVE Kinds
    <2>1. session.active # m
        BY <1>24 DEF Unwind, ActiveIsUnsettled, Unsettled, WithAgent
    <2> QED BY <1>24, <2>1 DEF Unwind, Quiet, Kinds
<1>25. ASSUME NEW m \in Turns, TearDown(m) PROVE Kinds
    BY <1>25 DEF TearDown, Quiet, Kinds
<1>26. ASSUME NEW m \in Turns, RowAges(m) PROVE Kinds
    BY <1>26 DEF RowAges, Quiet, Kinds
<1>27. ASSUME NEW k \in Stops, NEW m \in Turns, StopClaims(k, m) PROVE Kinds
    BY <1>27 DEF StopClaims, Quiet, Kinds
<1>28. ASSUME NEW k \in Stops, StopSignals(k) PROVE Kinds
    BY <1>28 DEF StopSignals, Quiet, Kinds
<1>29. ASSUME NEW k \in Stops, StopSettles(k) PROVE Kinds
    <2>1. stops[k].turn \in Turns
        BY <1>29 DEF StopSettles, TypeOK
    <2> QED BY <1>29, <2>1, StoppingWrites DEF Kinds
<1>30. ASSUME NEW k \in Stops, StopEmits(k) PROVE Kinds
    BY <1>30 DEF StopEmits, Quiet, Kinds
<1>31. ASSUME PendingAges PROVE Kinds
    BY <1>31 DEF PendingAges, Quiet, Kinds
<1>32. ASSUME ClearStaleChecks PROVE Kinds
    BY <1>32 DEF ClearStaleChecks, Quiet, Kinds
<1>33. ASSUME ClearStaleClears PROVE Kinds
    BY <1>33, ClearingWrites DEF Kinds
<1>34. ASSUME DropStaleCancelledRuns PROVE Kinds
    BY <1>34 DEF DropStaleCancelledRuns, Quiet, Kinds
<1>35. ASSUME Crash PROVE Kinds
    BY <1>35 DEF Kinds
<1>36. CASE UNCHANGED vars
    BY <1>36 DEF vars, Quiet, Kinds
<1> QED
    BY <1>1, <1>2, <1>3, <1>4, <1>5, <1>6, <1>7, <1>8, <1>9, <1>10, <1>11, <1>12, <1>13, <1>14,
       <1>15, <1>16, <1>17, <1>18, <1>19, <1>20, <1>21, <1>22, <1>23, <1>24, <1>25, <1>26,
       <1>27, <1>28, <1>29, <1>30, <1>31, <1>32, <1>33, <1>34, <1>35, <1>36
       DEF Next, LaunchStep, WorkerStep, BeforeAgent, WritebackStep, StopStep

-----------------------------------------------------------------------------
(***************************************************************************)
(* Every kind of step keeps the invariant.                                 *)
(***************************************************************************)
LEMMA UpToIsMonotone ==
    ASSUME NEW rows \in Seq(Rows), NEW m \in Int, NEW n \in Int, UpTo(rows, m), m <= n
    PROVE  UpTo(rows, n)
<1> SUFFICES ASSUME NEW i \in 1..Len(rows) PROVE rows[i].turn <= n
    BY DEF UpTo
<1>1. rows[i] \in Rows /\ rows[i].turn <= m
    BY DEF UpTo
<1> QED BY <1>1 DEF Rows, Turns

\* No turn is ever taken back.
LEMMA LatestGrows ==
    ASSUME TypeOK, Kinds
    PROVE  latest' \in Int /\ latest \in Int /\ latest <= latest'
BY DEF TypeOK, Turn0, Kinds, Quiet, Start, Crash, Abandons, Writes

\* Memory and disk remain transcripts, and so does what a worker has seen.
LEMMA NextTranscriptsAreKept ==
    ASSUME TypeOK, TypeOK', TranscriptsAreKept, Kinds, SeenMoves
    PROVE  TranscriptsAreKept'
<1>1. /\ session.rows \in Seq(Rows) /\ disk.rows \in Seq(Rows)
      /\ session'.rows \in Seq(Rows) /\ disk'.rows \in Seq(Rows)
      /\ \A n \in Turns : seen[n] \in Seq(Rows) /\ seen'[n] \in Seq(Rows)
    BY DEF TypeOK, Session
<1>2. latest' \in Int /\ latest \in Int /\ latest <= latest'
    BY LatestGrows
<1>3. /\ Record(session) /\ Record(disk)
      /\ \A n \in Turns : IsTranscript(seen[n]) /\ UpTo(seen[n], latest)
    BY DEF TranscriptsAreKept
<1>4. IsTranscript(<<>>) /\ UpTo(<<>>, latest')
    BY DEF IsTranscript, InTurnOrder, NoneTwice, PromptsFirst, UpTo
<1>5. \A n \in Turns : IsTranscript(seen'[n]) /\ UpTo(seen'[n], latest')
    <2> TAKE n \in Turns
    <2>1. CASE seen'[n] = seen[n]
        BY <1>1, <1>2, <1>3, <2>1, UpToIsMonotone
    <2>2. CASE seen'[n] = session.rows
        BY <1>1, <1>2, <1>3, <2>2, UpToIsMonotone DEF Record
    <2>3. CASE seen'[n] = <<>>
        BY <1>4, <2>3
    <2> QED BY <2>1, <2>2, <2>3 DEF SeenMoves
<1>6. Record(session)' /\ Record(disk)'
    <2>1. CASE Quiet
        BY <1>3, <2>1 DEF Quiet, Record
    <2>2. CASE Start
        <3>1. /\ session'.rows = session.rows /\ session'.pending = latest + 1
              /\ latest' = latest + 1 /\ disk' = session'
            BY <2>2 DEF Start, Store, TypeOK, Session
        <3>2. UpTo(session.rows, latest) /\ UpTo(session.rows, latest') /\ latest' - 1 = latest
            BY <1>1, <1>2, <1>3, <3>1, UpToIsMonotone DEF Record
        <3> QED BY <1>3, <3>1, <3>2 DEF Record
    <2>3. CASE Crash
        BY <1>3, <2>3 DEF Crash, Record
    <2>4. ASSUME NEW n \in Turns, Abandons(n)
          PROVE  Record(session)' /\ Record(disk)'
        BY <1>3, <2>4 DEF Abandons, Record, Settled
    <2>5. ASSUME NEW n \in Turns, Writes(n)
          PROVE  Record(session)' /\ Record(disk)'
        <3>1. /\ session'.pending = 0 /\ IsTranscript(session'.rows) /\ UpTo(session'.rows, n)
              /\ n <= latest /\ latest' = latest /\ disk' \in {disk, session'}
            BY <2>5 DEF Writes
        <3>2. n \in Int
            BY DEF Turns
        <3>3. UpTo(session'.rows, latest')
            BY <1>1, <1>2, <3>1, <3>2, UpToIsMonotone
        <3>4. Record(session)'
            BY <3>1, <3>3 DEF Record
        <3>5. CASE disk' = disk
            BY <1>3, <3>1, <3>4, <3>5 DEF Record
        <3>6. CASE disk' = session'
            BY <3>4, <3>6 DEF Record
        <3> QED BY <3>1, <3>4, <3>5, <3>6
    <2> QED BY <2>1, <2>2, <2>3, <2>4, <2>5 DEF Kinds
<1> QED BY <1>5, <1>6 DEF TranscriptsAreKept

\* What was typed and answered stays in memory, but for a restart, and on disk.
LEMMA StepsKeep ==
    ASSUME TypeOK, Kinds, SavedIsInMemory
    PROVE  /\ Crash \/ Kept(session.rows, session'.rows)
           /\ Kept(disk.rows, disk'.rows) /\ Kept(disk'.rows, session'.rows)
<1>1. Kept(disk.rows, session.rows)
    BY DEF SavedIsInMemory
<1>2. CASE Quiet
    BY <1>1, <1>2, KeptIsReflexive DEF Quiet
<1>3. CASE Start
    <2>1. session'.rows = session.rows /\ disk' = session'
        BY <1>3 DEF Start, Store, TypeOK, Session
    <2> QED BY <1>1, <2>1, KeptIsReflexive
<1>4. CASE Crash
    BY <1>4, KeptIsReflexive DEF Crash
<1>5. ASSUME NEW n \in Turns, Abandons(n)
      PROVE  /\ Kept(session.rows, session'.rows)
             /\ Kept(disk.rows, disk'.rows) /\ Kept(disk'.rows, session'.rows)
    BY <1>1, <1>5, KeptIsReflexive DEF Abandons, Settled
<1>6. ASSUME NEW n \in Turns, Writes(n)
      PROVE  /\ Kept(session.rows, session'.rows)
             /\ Kept(disk.rows, disk'.rows) /\ Kept(disk'.rows, session'.rows)
    <2>1. Kept(session.rows, session'.rows) /\ disk' \in {disk, session'}
        BY <1>6 DEF Writes
    <2> QED BY <1>1, <2>1, KeptIsReflexive, KeptIsTransitive
<1> QED BY <1>2, <1>3, <1>4, <1>5, <1>6 DEF Kinds

\* Nobody writes an earlier turn that a worker with a copy has not seen.
LEMMA NextSeenIsCurrent ==
    ASSUME TypeOK, SavedIsInMemory, SeenIsCurrent, TurnsBeginInOrder, Kinds, SeenMoves,
           WorkersMove, SessionsHaveShape, TypeOK'
    PROVE  SeenIsCurrent'
<1> SUFFICES ASSUME NEW n \in Turns, pc'[n] \in WithSeen
             PROVE  /\ \A row \in Rows :
                          Has(session'.rows, row) /\ row.kind \in {"user", "answer"}
                              /\ row.turn < n => Has(seen'[n], row)
                    /\ Kept(seen'[n], session'.rows)
                    /\ session'.active = n => seen'[n] = session'.rows
    BY DEF SeenIsCurrent
<1>1. ~Crash
    <2> SUFFICES ASSUME Crash PROVE FALSE
        OBVIOUS
    <2>1. pc'[n] \in {"none", "unlaunched", "dead"}
        BY DEF Crash
    <2> QED BY <2>1 DEF WithSeen, WithAgent
<1>2. CASE session' = session /\ seen'[n] = session.rows
    BY <1>2, KeptIsReflexive DEF Kept
<1>3. CASE pc[n] \in WithSeen /\ seen'[n] = seen[n]
    <2>1. /\ \A row \in Rows :
                Has(session.rows, row) /\ row.kind \in {"user", "answer"} /\ row.turn < n =>
                    Has(seen[n], row)
          /\ Kept(seen[n], session.rows)
          /\ session.active = n => seen[n] = session.rows
        BY <1>3 DEF SeenIsCurrent
    <2>2. Kept(seen'[n], session'.rows)
        BY <1>1, <1>3, <2>1, StepsKeep, KeptIsTransitive
    <2>3. CASE session' = session
        BY <1>3, <2>1, <2>2, <2>3
    <2>4. CASE Start
        <3>1. session'.rows = session.rows /\ session'.active = latest + 1 /\ latest + 1 \in Turns
            BY <2>4 DEF Start, Store, TypeOK, Session
        <3>2. n # latest + 1
            <4>1. pc[n] # "none"
                BY <1>3 DEF WithSeen, WithAgent
            <4> QED BY <3>1, <4>1 DEF TurnsBeginInOrder, TypeOK, Turn0
        <3> QED BY <1>3, <2>1, <2>2, <3>1, <3>2
    <2>5. ASSUME NEW m \in Turns, Abandons(m)
          PROVE  /\ session'.rows = session.rows /\ session'.active = 0
        BY <2>5 DEF Abandons, Settled
    <2>6. ASSUME NEW m \in Turns, Writes(m), NEW row \in Rows, Has(session'.rows, row),
                 row.kind \in {"user", "answer"}, row.turn < n
          PROVE  Has(seen[n], row)
        <3>1. m >= n
            BY <1>3, <2>6 DEF Writes, Turns
        <3>2. CASE Has(session.rows, row)
            BY <2>1, <2>6, <3>2
        <3>3. CASE pc[m] = "merging" /\ Has(seen[m], row)
            <4>1. Has(session.rows, row)
                BY <2>6, <3>3 DEF SeenIsCurrent, WithSeen, Kept
            <4> QED BY <2>1, <2>6, <4>1
        <3>4. CASE row.turn = m
            BY <2>6, <3>1, <3>4 DEF Turns
        <3> QED BY <2>6, <3>2, <3>3, <3>4 DEF Writes
    <2>7. \A m \in Turns : Writes(m) => session'.active = 0
        BY DEF Writes
    <2>8. n # 0
        BY DEF Turns
    <2> QED BY <1>1, <1>3, <2>1, <2>2, <2>3, <2>4, <2>5, <2>6, <2>7, <2>8 DEF Kinds, Quiet
<1> QED BY <1>2, <1>3 DEF SeenMoves

\* Only the worker of a turn answers it, and it has ended then.
LEMMA NextOnlyTheEndedAnswer ==
    ASSUME TypeOK, OnlyTheEndedAnswer, Kinds, SeenMoves, WorkersMove
    PROVE  OnlyTheEndedAnswer'
<1> SUFFICES ASSUME NEW n \in Turns, NEW kind \in {"answer", "error"}, pc'[n] \notin Ended
             PROVE  Nowhere(Row(kind, n))'
    BY DEF OnlyTheEndedAnswer
<1> DEFINE row == Row(kind, n)
<1>1. row \in Rows /\ row.turn = n /\ row.kind = kind
    BY DEF Row, Rows
<1> HIDE DEF row
<1>2. /\ ~Has(session.rows, row) /\ ~Has(disk.rows, row)
      /\ \A m \in Turns : ~Has(seen[m], row)
    BY DEF OnlyTheEndedAnswer, WorkersMove, Nowhere, row
<1>3. \A m \in Turns : ~Has(seen'[m], row)
    <2>1. ~Has(<<>>, row)
        BY DEF Has
    <2> QED BY <1>2, <2>1 DEF SeenMoves
<1>4. ~Has(session'.rows, row) /\ ~Has(disk'.rows, row)
    <2>1. CASE Quiet
        BY <1>2, <2>1 DEF Quiet
    <2>2. CASE Start
        BY <1>2, <2>2 DEF Start, Store, TypeOK, Session
    <2>3. CASE Crash
        BY <1>2, <2>3 DEF Crash
    <2>4. ASSUME NEW m \in Turns, Abandons(m)
          PROVE  ~Has(session'.rows, row) /\ ~Has(disk'.rows, row)
        BY <1>2, <2>4 DEF Abandons, Settled
    <2>5. ASSUME NEW m \in Turns, Writes(m)
          PROVE  ~Has(session'.rows, row) /\ ~Has(disk'.rows, row)
        <3>1. ~Has(session'.rows, row)
            BY <1>1, <1>2, <2>5 DEF Writes
        <3> QED BY <1>2, <2>5, <3>1 DEF Writes
    <2> QED BY <2>1, <2>2, <2>3, <2>4, <2>5 DEF Kinds
<1> QED BY <1>3, <1>4 DEF Nowhere, row

\* The repair comes after the restart that took the worker.
LEMMA NextRepairMarksTheDead ==
    ASSUME TypeOK, TypeOK', TurnsBeginInOrder, TurnsBeginInOrder', TranscriptsAreKept,
           TranscriptsAreKept', RepairMarksTheDead, SeenIsCurrent, MergingHasTheSession,
           Kinds, WorkersMove
    PROVE  RepairMarksTheDead'
<1>1. ASSUME NEW m \in Turns, NEW n \in Turns, m < n, pc'[n] = "dead"
      PROVE  pc'[m] \in Gone
    <2>1. CASE pc[n] = "dead"
        BY <1>1, <2>1 DEF RepairMarksTheDead, WorkersMove
    <2>2. CASE Crash
        <3>1. pc'[m] \in {"none"} \cup Gone
            BY <2>2 DEF Crash, Gone
        <3>2. pc'[m] # "none"
            BY <1>1 DEF TurnsBeginInOrder, TypeOK, Turns, Turn0
        <3> QED BY <3>1, <3>2
    <2> QED BY <1>1, <2>1, <2>2 DEF WorkersMove
<1>2. ASSUME Timely, NEW m \in Turns, NEW n \in Turns, m <= n,
             Has(session'.rows, Row("recovery", n))
      PROVE  pc'[m] \in Gone
    <2>1. Row("recovery", n) \in Rows /\ Row("recovery", n).turn = n
          /\ Row("recovery", n).kind = "recovery"
        BY DEF Row, Rows
    <2>2. CASE Has(session.rows, Row("recovery", n))
        BY <1>2, <2>2 DEF RepairMarksTheDead, WorkersMove
    <2>3. CASE Crash
        <3>1. pc'[m] \in {"none"} \cup Gone
            BY <2>3 DEF Crash, Gone
        <3>2. n <= latest'
            BY <1>2, <2>1 DEF TranscriptsAreKept, Record, UpTo, Has
        <3>3. pc'[m] # "none"
            BY <1>2, <3>2 DEF TurnsBeginInOrder, TypeOK, Turns, Turn0
        <3> QED BY <3>1, <3>3
    <2>4. ASSUME NEW k \in Turns, Writes(k), ~Has(session.rows, Row("recovery", n))
          PROVE  pc'[m] \in Gone
        <3>1. CASE pc[k] = "merging" /\ Has(seen[k], Row("recovery", n))
            <4>1. seen[k] = session.rows
                BY <1>2, <3>1 DEF MergingHasTheSession, SeenIsCurrent, WithSeen
            <4> QED BY <2>4, <3>1, <4>1
        <3>2. CASE k = n /\ pc[k] = "dead"
            <4>1. m = n \/ m < n
                BY <1>2 DEF Turns
            <4> QED BY <3>2, <4>1 DEF RepairMarksTheDead, WorkersMove, Gone
        <3> QED BY <1>2, <2>1, <2>4, <3>1, <3>2 DEF Writes
    <2>5. CASE session'.rows = session.rows
        BY <1>2, <2>2, <2>5
    <2>6. CASE Quiet
        BY <2>5, <2>6 DEF Quiet
    <2>7. CASE Start
        BY <2>5, <2>7 DEF Start, Store, TypeOK, Session
    <2>8. ASSUME NEW k \in Turns, Abandons(k)
          PROVE  session'.rows = session.rows
        BY <2>8 DEF Abandons, Settled
    <2> QED BY <2>2, <2>3, <2>4, <2>5, <2>6, <2>7, <2>8 DEF Kinds
<1> QED BY <1>1, <1>2 DEF RepairMarksTheDead

\* An answer that is merged is not taken away before it is saved.
LEMMA NextAnswersAreWritten ==
    ASSUME TypeOK, AnswersAreWritten, SavedIsInMemory, Kinds, AnswersMove, WorkersMove
    PROVE  AnswersAreWritten'
<1> SUFFICES ASSUME NEW n \in Turns
             PROVE  /\ pc'[n] = "merged" => Has(session'.rows, Row("answer", n))
                    /\ pc'[n] \in {"saved", "settling", "committed"} =>
                          Has(disk'.rows, Row("answer", n))
    BY DEF AnswersAreWritten
<1>1. Row("answer", n) \in Rows /\ Row("answer", n).kind = "answer"
    BY DEF Row, Rows
<1>2. ASSUME pc'[n] = "merged"
      PROVE  Has(session'.rows, Row("answer", n))
    <2>1. CASE session' = Settled(MergedRows(n))
        <3>1. seen[n] \in Seq(Rows) /\ Row("user", n) \in Rows
            BY DEF TypeOK, Row, Rows
        <3> DEFINE rows == IF \E i \in 1..Len(seen[n]) : seen[n][i] = Row("user", n)
                           THEN seen[n] ELSE Append(seen[n], Row("user", n))
        <3>2. rows \in Seq(Rows) /\ MergedRows(n) = rows \o <<Row("answer", n)>>
            BY <3>1 DEF MergedRows
        <3> HIDE DEF rows
        <3>3. MergedRows(n) = Append(rows, Row("answer", n))
            BY <1>1, <3>2
        <3>4. session'.rows = Append(rows, Row("answer", n))
            BY <2>1, <3>3 DEF Settled
        <3> QED BY <1>1, <3>2, <3>4, HasAppended
    <2>2. CASE pc[n] = "merged"
        <3>1. ~Crash
            BY <1>2 DEF Crash
        <3> QED BY <1>1, <2>2, <3>1, StepsKeep DEF AnswersAreWritten, Kept
    <2> QED BY <1>2, <2>1, <2>2 DEF AnswersMove
<1>3. ASSUME pc'[n] \in {"saved", "settling", "committed"}
      PROVE  Has(disk'.rows, Row("answer", n))
    <2>1. CASE pc[n] = "merged" /\ disk' = session
        BY <2>1 DEF AnswersAreWritten
    <2>2. CASE pc[n] \in {"saved", "settling", "committed"}
        BY <1>1, <2>2, StepsKeep DEF AnswersAreWritten, Kept
    <2> QED BY <1>3, <2>1, <2>2 DEF AnswersMove
<1> QED BY <1>2, <1>3

\* What was typed stays, and the pending prompt becomes a row when it is settled.
LEMMA NextPromptsAreKept ==
    ASSUME TypeOK, TypeOK', TurnsBeginInOrder, SessionsHaveShape, PromptsAreKept, Kinds,
           WorkersMove
    PROVE  PromptsAreKept'
<1> SUFFICES ASSUME NEW n \in 1..latest', pc'[n] # "unlaunched"
             PROVE  Keeps(session', n) /\ Keeps(disk', n)
    BY DEF PromptsAreKept, Keeps
<1>1. latest' \in Int /\ latest \in Int /\ latest <= latest' /\ n \in Int
    BY LatestGrows
<1>2. n \in Turns /\ Row("user", n) \in Rows /\ Row("user", n).kind = "user"
    <2>1. n \in Turns
        BY BoundAssumption DEF TypeOK, Turns, Turn0
    <2> QED BY <2>1 DEF Row, Rows
<1>3. CASE Start
    <2>1. /\ session' = [session EXCEPT !.active = latest + 1, !.pending = latest + 1]
          /\ disk' = session' /\ latest' = latest + 1
        BY <1>3 DEF Start, Store
    <2>2. session'.rows = session.rows /\ session'.pending = latest + 1
        BY <2>1 DEF TypeOK, Session
    <2>3. CASE n = latest + 1
        BY <2>1, <2>2, <2>3 DEF Keeps
    <2>4. CASE n \in 1..latest
        <3>1. pc[n] # "unlaunched"
            BY <1>2 DEF WorkersMove, Gone
        <3>2. session.pending # n
            BY <1>2, <1>3 DEF Start, SessionsHaveShape, SessionShape, Turns
        <3> QED BY <2>1, <2>2, <2>4, <3>1, <3>2 DEF PromptsAreKept, Keeps
    <2> QED BY <1>1, <2>1, <2>3, <2>4
<1>4. CASE ~Start
    <2>1. latest' = latest
        BY <1>4 DEF Kinds, Quiet, Crash, Abandons, Writes
    <2>2. pc[n] # "unlaunched"
        BY <1>2 DEF WorkersMove, Gone
    <2>3. Keeps(session, n) /\ Keeps(disk, n)
        BY <2>1, <2>2 DEF PromptsAreKept
    <2>4. CASE Quiet
        BY <2>3, <2>4 DEF Quiet
    <2>5. CASE Crash
        BY <2>3, <2>5 DEF Crash
    <2>6. ASSUME NEW m \in Turns, Abandons(m)
          PROVE  Keeps(session', n) /\ Keeps(disk', n)
        <3>1. n # m /\ session.pending = m
            BY <2>6 DEF Abandons, SessionsHaveShape, SessionShape
        <3> QED BY <2>3, <2>6, <3>1 DEF Abandons, Keeps, Settled
    <2>7. ASSUME NEW m \in Turns, Writes(m)
          PROVE  Keeps(session', n) /\ Keeps(disk', n)
        <3>1. Keeps(session', n)
            <4>1. session.pending = n \/ Has(session.rows, Row("user", n))
                BY <2>3 DEF Keeps, Has
            <4>2. n # 0
                BY <1>2 DEF Turns
            <4>3. Has(session'.rows, Row("user", n))
                BY <1>2, <2>7, <4>1, <4>2 DEF Writes, Kept
            <4> QED BY <4>3 DEF Keeps, Has
        <3> QED BY <2>3, <2>7, <3>1 DEF Writes
    <2> QED BY <1>4, <2>4, <2>5, <2>6, <2>7 DEF Kinds
<1> QED BY <1>3, <1>4

\* What is completed has been saved.
LEMMA NextCompletedIsOnDisk ==
    ASSUME TypeOK, AnswersAreWritten, SavedIsInMemory, CompletedIsOnDisk, Kinds, AnswersMove
    PROVE  CompletedIsOnDisk'
<1> SUFFICES ASSUME NEW n \in Turns, "completed" \in Events(n)'
             PROVE  Saved("answer", n)'
    BY DEF CompletedIsOnDisk
<1>1. Row("answer", n) \in Rows /\ Row("answer", n).kind = "answer"
    BY DEF Row, Rows
<1>2. turnLog[n] \in Seq({"completed", "interrupted"})
    BY DEF TypeOK
<1>3. Has(disk.rows, Row("answer", n))
    <2>1. CASE "completed" \in Events(n)
        BY <2>1 DEF CompletedIsOnDisk, Saved, Has
    <2>2. CASE pc[n] = "saved"
        BY <2>2 DEF AnswersAreWritten
    <2>3. CASE turnLog'[n] = turnLog[n]
        BY <2>1, <2>3 DEF Events
    <2>4. CASE turnLog'[n] = Append(turnLog[n], "interrupted")
        <3>1. PICK i \in 1..Len(turnLog'[n]) : turnLog'[n][i] = "completed"
            BY DEF Events
        <3>2. i \in 1..Len(turnLog[n]) /\ turnLog[n][i] = "completed"
            BY <1>2, <2>4, <3>1
        <3> QED BY <2>1, <3>2 DEF Events
    <2> QED BY <2>2, <2>3, <2>4 DEF AnswersMove
<1> QED BY <1>1, <1>3, StepsKeep DEF Saved, Has, Kept
-----------------------------------------------------------------------------
\* The transcript is empty to begin with.
LEMMA InitTranscriptInv == Init => TranscriptInv
<1> SUFFICES ASSUME Init PROVE TranscriptInv
    OBVIOUS
<1>1. /\ session.rows = <<>> /\ disk.rows = <<>> /\ session.pending = 0 /\ disk.pending = 0
      /\ latest = 0 /\ \A n \in Turns : seen[n] = <<>> /\ pc[n] = "none" /\ turnLog[n] = <<>>
    BY DEF Init, EmptySession
<1>2. IsTranscript(<<>>) /\ UpTo(<<>>, 0) /\ \A row : ~Has(<<>>, row)
    BY DEF IsTranscript, InTurnOrder, NoneTwice, PromptsFirst, UpTo, Has
<1>3. TranscriptsAreKept /\ SavedIsInMemory
    BY <1>1, <1>2 DEF TranscriptsAreKept, Record, SavedIsInMemory, Kept
<1>4. SeenIsCurrent /\ OnlyTheEndedAnswer
    BY <1>1, <1>2 DEF SeenIsCurrent, OnlyTheEndedAnswer, Nowhere, WithSeen, WithAgent
<1>5. RepairMarksTheDead /\ AnswersAreWritten
    BY <1>1, <1>2 DEF RepairMarksTheDead, AnswersAreWritten
<1>6. PromptsAreKept
    BY <1>1 DEF PromptsAreKept
<1>7. CompletedIsOnDisk
    BY <1>1 DEF CompletedIsOnDisk, Events
<1> QED BY <1>3, <1>4, <1>5, <1>6, <1>7 DEF TranscriptInv

\* What the steps of the transcript rest on.
LEMMA StepsOfTranscripts ==
    ASSUME RepairsAreRecognised, RegistryInv, TimingInv, TranscriptInv, [Next]_vars
    PROVE  Kinds /\ WorkersMove /\ SeenMoves /\ AnswersMove
<1>1. /\ TypeOK /\ TurnsBeginInOrder /\ SessionsHaveShape /\ ActiveIsUnsettled /\ OwnerIsLatest
      /\ WritebackIsCurrent /\ RepairIsOfTheDead
    BY DEF RegistryInv, TimingInv
<1>2. /\ TranscriptsAreKept /\ SeenIsCurrent /\ OnlyTheEndedAnswer /\ RepairMarksTheDead
      /\ PromptsAreKept
    BY DEF TranscriptInv
<1>3. Kinds
    BY <1>1, <1>2, StepsAreOfAKind
<1>4. WorkersMove /\ SeenMoves /\ AnswersMove
    BY <1>1, StepsMoveWorkers, StepsMoveSeen, StepsMoveAnswers
<1> QED BY <1>3, <1>4

\* Every step keeps the transcript.
LEMMA NextTranscriptInv ==
    RepairsAreRecognised /\ RegistryInv /\ RegistryInv' /\ TimingInv /\ TranscriptInv
        /\ [Next]_vars => TranscriptInv'
<1> SUFFICES ASSUME RepairsAreRecognised, RegistryInv, RegistryInv', TimingInv, TranscriptInv,
                    [Next]_vars
             PROVE  TranscriptInv'
    OBVIOUS
<1>1. /\ TypeOK /\ TypeOK' /\ TurnsBeginInOrder /\ TurnsBeginInOrder' /\ SessionsHaveShape
      /\ WritebackIsCurrent
    BY DEF RegistryInv
<1>2. /\ TranscriptsAreKept /\ SavedIsInMemory /\ SeenIsCurrent /\ OnlyTheEndedAnswer
      /\ RepairMarksTheDead /\ AnswersAreWritten /\ PromptsAreKept /\ CompletedIsOnDisk
    BY DEF TranscriptInv
<1>3. Kinds /\ WorkersMove /\ SeenMoves /\ AnswersMove
    BY StepsOfTranscripts
<1>4. MergingHasTheSession
    BY <1>1, <1>2, MergersAreLast
       DEF MergingHasTheSession, WritebackIsCurrent, Working, HoldsSessionLock
<1>5. TranscriptsAreKept'
    BY <1>1, <1>2, <1>3, NextTranscriptsAreKept
<1>6. SavedIsInMemory'
    BY <1>1, <1>2, <1>3, StepsKeep DEF SavedIsInMemory
<1>7. SeenIsCurrent' /\ OnlyTheEndedAnswer'
    BY <1>1, <1>2, <1>3, NextSeenIsCurrent, NextOnlyTheEndedAnswer
<1>8. RepairMarksTheDead'
    BY <1>1, <1>2, <1>3, <1>4, <1>5, NextRepairMarksTheDead
<1>9. AnswersAreWritten' /\ CompletedIsOnDisk'
    BY <1>1, <1>2, <1>3, NextAnswersAreWritten, NextCompletedIsOnDisk
<1>10. PromptsAreKept'
    BY <1>1, <1>2, <1>3, NextPromptsAreKept
<1> QED BY <1>5, <1>6, <1>7, <1>8, <1>9, <1>10 DEF TranscriptInv

\* The transcript's invariant holds in every state that is reached.
THEOREM TranscriptsHold == RepairsAreRecognised => (Spec => []TranscriptInv)
<1> SUFFICES ASSUME RepairsAreRecognised PROVE Spec => []TranscriptInv
    OBVIOUS
<1>1. RegistryInv /\ RegistryInv' /\ TimingInv /\ TranscriptInv /\ [Next]_vars => TranscriptInv'
    BY NextTranscriptInv
<1> QED BY <1>1, InitTranscriptInv, RepairsComeAfterWorkers, PTL DEF Spec

(***************************************************************************)
(* RowsInTurnOrder, for every instance.                                    *)
(***************************************************************************)
THEOREM TranscriptsAreInOrder == RepairsAreRecognised => (Spec => []RowsInTurnOrder)
<1> SUFFICES ASSUME RepairsAreRecognised PROVE Spec => []RowsInTurnOrder
    OBVIOUS
<1>1. TranscriptInv => RowsInTurnOrder
    BY DEF TranscriptInv, TranscriptsAreKept, Record, IsTranscript, RowsInTurnOrder
<1> QED BY <1>1, TranscriptsHold, PTL

(***************************************************************************)
(* PromptsAreKept, for every instance: the invariant that needs all the    *)
(* rest, because a worker writes its own copy of the transcript back.      *)
(***************************************************************************)
THEOREM NoPromptIsLost == RepairsAreRecognised => (Spec => []PromptsAreKept)
<1> SUFFICES ASSUME RepairsAreRecognised PROVE Spec => []PromptsAreKept
    OBVIOUS
<1>1. TranscriptInv => PromptsAreKept
    BY DEF TranscriptInv
<1> QED BY <1>1, TranscriptsHold, PTL

(***************************************************************************)
(* NothingTwice, for every instance: the writers recognise what another of *)
(* them has written already.                                               *)
(***************************************************************************)
THEOREM NothingIsShownTwice == RepairsAreRecognised => (Spec => []NothingTwice)
<1> SUFFICES ASSUME RepairsAreRecognised PROVE Spec => []NothingTwice
    OBVIOUS
<1>1. TranscriptInv => NothingTwice
    BY DEF TranscriptInv, TranscriptsAreKept, Record, IsTranscript, NoneTwice, NothingTwice
<1> QED BY <1>1, TranscriptsHold, PTL

(***************************************************************************)
(* CompletedIsOnDisk, for every instance: the turn journal says completed  *)
(* only of an answer that is on disk and stays there.                      *)
(***************************************************************************)
THEOREM CompletedTurnsAreSaved == RepairsAreRecognised => (Spec => []CompletedIsOnDisk)
<1> SUFFICES ASSUME RepairsAreRecognised PROVE Spec => []CompletedIsOnDisk
    OBVIOUS
<1>1. TranscriptInv => CompletedIsOnDisk
    BY DEF TranscriptInv
<1> QED BY <1>1, TranscriptsHold, PTL

(***************************************************************************)
(* SavedRowsStay, for every instance: no step, and no restart, takes a     *)
(* prompt or an answer away from the disk.                                 *)
(***************************************************************************)
THEOREM NoSavedRowIsTakenAway == RepairsAreRecognised => (Spec => SavedRowsStay)
<1> SUFFICES ASSUME RepairsAreRecognised PROVE Spec => SavedRowsStay
    OBVIOUS
<1>1. ASSUME RegistryInv, TimingInv, TranscriptInv, [Next]_vars,
             NEW n \in Turns, NEW kind \in {"user", "answer"}, Saved(kind, n)
      PROVE  Saved(kind, n)'
    <2>1. Row(kind, n) \in Rows /\ Row(kind, n).kind \in {"user", "answer"}
        BY DEF Row, Rows
    <2>2. Kept(disk.rows, disk'.rows)
        BY <1>1, StepsOfTranscripts, StepsKeep DEF RegistryInv, TranscriptInv
    <2>3. Has(disk.rows, Row(kind, n))
        BY <1>1 DEF Saved, Has
    <2> QED BY <2>1, <2>2, <2>3 DEF Saved, Has, Kept
<1>2. RegistryInv /\ TimingInv /\ TranscriptInv /\ [Next]_vars =>
          [\A n \in Turns, kind \in {"user", "answer"} : Saved(kind, n) => Saved(kind, n)']_vars
    BY <1>1
<1> QED BY <1>2, TranscriptsHold, RepairsComeAfterWorkers, PTL DEF Spec, SavedRowsStay
=============================================================================
