---------------------------- MODULE RemindersProofs ----------------------------
(***************************************************************************)
(* Theorems about Reminders for any tasks, schedules, poller runs and      *)
(* requests, and any number of failures.                                   *)
(***************************************************************************)
EXTENDS Reminders, SequenceTheorems, TLAPS

(***************************************************************************)
(* The inductive invariant.  What a run holds is there, pending and its    *)
(* own; what it has inserted are the successors of what it has dispatched, *)
(* one of each that recurs.                                                *)
(***************************************************************************)

\* An origin is the row of a payload, of one task and one interval.
OriginsAreRows ==
    \A i \in Rows :
        /\ rem[i].origin \in Rows
        /\ rem[rem[i].origin].every = rem[i].every

RunSound(p) ==
    /\ poll[p].todo \cap poll[p].done = {}
    /\ \A i \in Held(p) : i \in Rows /\ rem[i].state = "PENDING" /\ lock[rem[i].task] = p
    /\ \A k \in 1 .. Len(poll[p].spawned) :
        /\ poll[p].spawned[k].spawned
        /\ poll[p].spawned[k].state = "PENDING"
        /\ \E i \in poll[p].done :
            /\ poll[p].spawned[k].task = rem[i].task
            /\ poll[p].spawned[k].origin = rem[i].origin
            /\ poll[p].spawned[k].every = rem[i].every
    /\ \A k, l \in 1 .. Len(poll[p].spawned) :
        poll[p].spawned[k].origin = poll[p].spawned[l].origin => k = l
    /\ \A i \in poll[p].done : rem[i].every > 0 =>
        \E k \in 1 .. Len(poll[p].spawned) : poll[p].spawned[k].origin = rem[i].origin

IInv ==
    /\ TypeOK
    /\ OriginsAreRows
    /\ \A p \in Pollers : RunSound(p)
    /\ OneNextOccurrence
    /\ RecursForever
    /\ NotSentTwice

(***************************************************************************)
(* Writing rows.                                                           *)
(***************************************************************************)

\* The row i after ids have been given a state.
After(i, ids, state) == IF i \in ids THEN [rem[i] EXCEPT !.state = state] ELSE rem[i]

\* The rows are those there were, some in a new state, and those appended.
RowsAfter(ids, state, Q) ==
    /\ rem' \in Seq(Row) /\ Len(rem') = Len(rem) + Len(Q)
    /\ \A i \in Rows : i \in Rows' /\ rem'[i] = After(i, ids, state)
    /\ \A k \in 1 .. Len(Q) : Len(rem) + k \in Rows' /\ rem'[Len(rem) + k] = Q[k]
    /\ \A i \in Rows' : i \in Rows \/ \E k \in 1 .. Len(Q) : i = Len(rem) + k

\* Appending to the rows with their new states leaves them so.
LEMMA Appended ==
    ASSUME TypeOK, NEW ids, NEW state \in States, NEW Q \in Seq(Row),
           rem' = WithState(ids, state) \o Q
    PROVE  RowsAfter(ids, state, Q)
<1>1. /\ rem \in Seq(Row) /\ Len(rem) \in Nat
      /\ \A i \in Rows : rem[i] \in Row /\ After(i, ids, state) \in Row
  <2>1. rem \in Seq(Row) /\ Len(rem) \in Nat /\ \A i \in Rows : rem[i] \in Row
    BY DEF TypeOK, Rows
  <2>2. ASSUME NEW i \in Rows PROVE After(i, ids, state) \in Row
    BY <2>1 DEF Row, After
  <2>3. QED
    BY <2>1, <2>2
<1>2. WithState(ids, state) = [i \in 1 .. Len(rem) |-> After(i, ids, state)]
  BY DEF WithState, Rows, After
<1>3. WithState(ids, state) \in Seq(Row) /\ Len(WithState(ids, state)) = Len(rem)
  BY <1>1, <1>2 DEF Rows
<1>4. \A i \in Rows : WithState(ids, state)[i] = After(i, ids, state)
  BY <1>2 DEF Rows
<1>5. /\ rem' \in Seq(Row) /\ Len(rem') = Len(rem) + Len(Q)
      /\ \A i \in 1 .. Len(rem) + Len(Q) :
            rem'[i] = IF i <= Len(rem) THEN WithState(ids, state)[i] ELSE Q[i - Len(rem)]
  <2> DEFINE W == WithState(ids, state)
  <2>1. W \in Seq(Row) /\ Len(W) = Len(rem) /\ rem' = W \o Q
    BY <1>3
  <2> HIDE DEF W
  <2>2. /\ W \o Q \in Seq(Row) /\ Len(W \o Q) = Len(W) + Len(Q)
        /\ \A i \in 1 .. Len(W) + Len(Q) :
              (W \o Q)[i] = IF i <= Len(W) THEN W[i] ELSE Q[i - Len(W)]
    BY <2>1, ConcatProperties
  <2>3. /\ rem' \in Seq(Row) /\ Len(rem') = Len(rem) + Len(Q)
        /\ \A i \in 1 .. Len(rem) + Len(Q) :
              rem'[i] = IF i <= Len(rem) THEN W[i] ELSE Q[i - Len(rem)]
    BY <2>1, <2>2
  <2>4. QED
    BY <2>3 DEF W
<1>6. \A i \in Rows : i \in Rows' /\ rem'[i] = After(i, ids, state)
  BY <1>1, <1>3, <1>4, <1>5 DEF Rows
<1>7. \A k \in 1 .. Len(Q) : Len(rem) + k \in Rows' /\ rem'[Len(rem) + k] = Q[k]
  BY <1>1, <1>3, <1>5 DEF Rows
<1>8. ASSUME NEW i \in Rows', i \notin Rows PROVE \E k \in 1 .. Len(Q) : i = Len(rem) + k
  <2>1. i - Len(rem) \in 1 .. Len(Q) /\ i = Len(rem) + (i - Len(rem))
    BY <1>1, <1>5, <1>8 DEF Rows
  <2>2. QED
    BY <2>1
<1>9. QED
  BY <1>5, <1>6, <1>7, <1>8 DEF RowsAfter

\* The counts of the messages keep pace with the rows.
LEMMA CountsAppended ==
    ASSUME TypeOK, NEW n \in Nat, queued' = queued \o NotQueued(n), Len(rem') = Len(rem) + n
    PROVE  /\ queued' \in Seq(Nat) /\ Len(queued') = Len(rem')
           /\ \A i \in Rows : queued'[i] = queued[i]
           /\ \A k \in 1 .. n : queued'[Len(rem) + k] = 0
<1>1. queued \in Seq(Nat) /\ Len(queued) = Len(rem) /\ Len(rem) \in Nat
  BY DEF TypeOK
<1>2. NotQueued(n) \in Seq(Nat) /\ Len(NotQueued(n)) = n /\ \A k \in 1 .. n : NotQueued(n)[k] = 0
  BY DEF NotQueued
<1>3. /\ queued' \in Seq(Nat) /\ Len(queued') = Len(rem')
      /\ \A i \in 1 .. Len(rem) + n :
            queued'[i] = IF i <= Len(rem) THEN queued[i] ELSE NotQueued(n)[i - Len(rem)]
  <2> DEFINE Z == NotQueued(n)
  <2>1. Z \in Seq(Nat) /\ Len(Z) = n /\ queued' = queued \o Z
    BY <1>2
  <2> HIDE DEF Z
  <2>2. /\ queued \o Z \in Seq(Nat) /\ Len(queued \o Z) = Len(queued) + Len(Z)
        /\ \A i \in 1 .. Len(queued) + Len(Z) :
              (queued \o Z)[i] = IF i <= Len(queued) THEN queued[i] ELSE Z[i - Len(queued)]
    BY <1>1, <2>1, ConcatProperties
  <2>3. /\ queued' \in Seq(Nat) /\ Len(queued') = Len(rem')
        /\ \A i \in 1 .. Len(rem) + n :
              queued'[i] = IF i <= Len(rem) THEN queued[i] ELSE Z[i - Len(rem)]
    BY <1>1, <2>1, <2>2
  <2>4. QED
    BY <2>3 DEF Z
<1>4. \A i \in Rows : queued'[i] = queued[i]
  BY <1>1, <1>3 DEF Rows
<1>5. \A k \in 1 .. n : queued'[Len(rem) + k] = 0
  BY <1>1, <1>2, <1>3
<1>6. QED
  BY <1>3, <1>4, <1>5

\* Rows of a payload.
PayloadRows(Q) ==
    \A k \in 1 .. Len(Q) : Q[k].origin = Len(rem) + k /\ ~Q[k].spawned /\ Q[k].state = "PENDING"

\* What CreateReminder makes of a payload.
LEMMA Created ==
    ASSUME TypeOK, NEW t \in Tasks, NEW payload \in Seq(Schedule),
           NEW rows \in Seq(Row), Len(rows) = Len(rem)
    PROVE  \E Q \in Seq(Row) : /\ Len(Q) = Len(payload) /\ PayloadRows(Q)
                               /\ CreateReminders(rows, t, payload) = rows \o Q
                               /\ \A k \in 1 .. Len(Q) : Q[k].task = t
<1> DEFINE Q == [k \in 1 .. Len(payload) |->
                    [task |-> t, due |-> payload[k].due, every |-> payload[k].every,
                     spawned |-> FALSE, state |-> "PENDING", origin |-> Len(rows) + k]]
<1>1. ASSUME NEW k \in 1 .. Len(payload) PROVE Q[k] \in Row
  <2>1. payload[k] \in Schedule
    OBVIOUS
  <2>2. payload[k].due \in Nat /\ payload[k].every \in Nat
    BY <2>1, RemindersAssumption DEF Schedule
  <2>3. Len(rows) + k \in Nat \ {0}
    OBVIOUS
  <2>4. QED
    BY <2>2, <2>3 DEF Row, States
<1>2. Q \in Seq(Row) /\ Len(Q) = Len(payload)
  BY <1>1
<1>3. \A k \in 1 .. Len(Q) : /\ Q[k].origin = Len(rem) + k /\ ~Q[k].spawned /\ Q[k].state = "PENDING"
                             /\ Q[k].task = t
  BY <1>2
<1>4. CreateReminders(rows, t, payload) = rows \o Q
  BY DEF CreateReminders
<1> HIDE DEF Q
<1>5. QED
  BY <1>2, <1>3, <1>4 DEF PayloadRows

(***************************************************************************)
(* What no step does to the rows there are: the body of QuietStaysQuiet.   *)
(***************************************************************************)

Quiet ==
    /\ \A i \in Rows : rem[i].state # "PENDING" => rem'[i].state # "PENDING"
    /\ \A t \in Tasks : (task[t].live /\ Pending(t) = {} /\ Pending(t)' # {})
        => \A i \in Pending(t)' : ~rem'[i].spawned

Sound ==
    /\ OriginsAreRows
    /\ \A p \in Pollers : RunSound(p)
    /\ OneNextOccurrence
    /\ RecursForever
    /\ NotSentTwice

\* Rows take a new state, and rows that nobody has sent are added to them.
Writes(ids, state, Q) ==
    /\ rem' = WithState(ids, state) \o Q
    /\ queued' = queued \o NotQueued(Len(Q))

Counted == rem \in Seq(Row) /\ queued \in Seq(Nat) /\ Len(queued) = Len(rem)

(***************************************************************************)
(* A handler takes off rows no run holds and adds the rows of a payload.   *)
(***************************************************************************)

\* Cancelling or deleting what is not held, and adding rows of a payload.
LEMMA Written ==
    ASSUME IInv, NEW ids, NEW state \in {"CANCELLED", "DELETED"},
           NEW Q \in Seq(Row), PayloadRows(Q),
           \A p \in Pollers : Held(p) \cap ids = {},
           Writes(ids, state, Q), UNCHANGED <<lock, poll, faults>>
    PROVE  Counted' /\ Sound' /\ Quiet
<1>1. TypeOK /\ state \in States /\ Len(Q) \in Nat /\ Len(rem) \in Nat
  BY DEF IInv, States, TypeOK
<1>2. /\ rem' \in Seq(Row) /\ Len(rem') = Len(rem) + Len(Q)
      /\ \A i \in Rows : i \in Rows' /\ rem'[i] = After(i, ids, state)
      /\ \A k \in 1 .. Len(Q) : Len(rem) + k \in Rows' /\ rem'[Len(rem) + k] = Q[k]
      /\ \A i \in Rows' : i \in Rows \/ \E k \in 1 .. Len(Q) : i = Len(rem) + k
  <2>1. rem' = WithState(ids, state) \o Q
    BY DEF Writes
  <2>2. QED
    <3>1. RowsAfter(ids, state, Q)
      BY <1>1, <2>1, Appended
    <3>2. QED
      BY <3>1 DEF RowsAfter
<1>3. /\ queued' \in Seq(Nat) /\ Len(queued') = Len(rem')
      /\ \A i \in Rows : queued'[i] = queued[i]
      /\ \A k \in 1 .. Len(Q) : queued'[Len(rem) + k] = 0
  <2>1. queued' = queued \o NotQueued(Len(Q))
    BY DEF Writes
  <2>2. QED
    BY <1>1, <1>2, <2>1, CountsAppended
<1>4. \A i \in Rows :
        /\ rem[i] \in Row /\ rem'[i].task = rem[i].task /\ rem'[i].every = rem[i].every
        /\ rem'[i].origin = rem[i].origin /\ rem'[i].spawned = rem[i].spawned
        /\ rem'[i].state = IF i \in ids THEN state ELSE rem[i].state
        /\ i \notin ids => rem'[i] = rem[i]
  <2>1. ASSUME NEW i \in Rows
        PROVE  /\ rem[i] \in Row
               /\ rem'[i] = IF i \in ids THEN [rem[i] EXCEPT !.state = state] ELSE rem[i]
    <3>1. rem[i] \in Row
      BY <1>1 DEF TypeOK, Rows
    <3>2. rem'[i] = After(i, ids, state)
      BY <1>2
    <3>3. QED
      BY <3>1, <3>2 DEF After
  <2>2. QED
    BY <2>1 DEF Row
<1>5. \A k \in 1 .. Len(Q) :
        /\ rem'[Len(rem) + k].origin = Len(rem) + k
        /\ ~rem'[Len(rem) + k].spawned
        /\ rem'[Len(rem) + k].state = "PENDING"
  BY <1>2 DEF PayloadRows
<1>6. \A i \in Rows : /\ rem[i].origin \in Rows /\ rem[rem[i].origin].every = rem[i].every
  BY DEF IInv, OriginsAreRows
<1>7. OriginsAreRows'
  <2>1. ASSUME NEW i \in Rows'
        PROVE  rem'[i].origin \in Rows' /\ rem'[rem'[i].origin].every = rem'[i].every
    <3>1. CASE i \in Rows
      BY <1>2, <1>4, <1>6, <3>1
    <3>2. CASE \E k \in 1 .. Len(Q) : i = Len(rem) + k
      BY <1>2, <1>5, <3>2
    <3>3. QED
      BY <1>2, <2>1, <3>1, <3>2
  <2>2. QED
    BY <2>1 DEF OriginsAreRows
<1>8. ASSUME NEW p \in Pollers PROVE RunSound(p)'
  <2>1. RunSound(p) /\ Held(p) \cap ids = {}
    BY DEF IInv
  <2>2. \A i \in Held(p) : i \in Rows /\ i \in Rows' /\ rem'[i] = rem[i]
    BY <1>2, <1>4, <2>1 DEF RunSound
  <2>3. poll[p].done \subseteq Held(p)
    BY DEF Held
  <2>4. QED
    BY <2>1, <2>2, <2>3 DEF RunSound, Held
<1>9. OneNextOccurrence'
  <2>1. ASSUME NEW i \in Rows', NEW j \in Rows', rem'[i].origin = rem'[j].origin,
               rem'[i].state = "PENDING", rem'[j].state = "PENDING"
        PROVE  i = j
    <3>1. CASE i \in Rows /\ j \in Rows
      <4>1. rem[i].state = "PENDING" /\ rem[j].state = "PENDING" /\ rem[i].origin = rem[j].origin
        BY <1>4, <2>1, <3>1
      <4>2. QED
        BY <4>1, <3>1 DEF IInv, OneNextOccurrence
    <3>2. CASE i \notin Rows
      <4>1. PICK k \in 1 .. Len(Q) : i = Len(rem) + k
        BY <1>2, <3>2
      <4>2. rem'[j].origin = i /\ i > Len(rem)
        BY <1>1, <1>5, <2>1, <4>1
      <4>3. j \notin Rows
        <5>1. j \in Rows => rem'[j].origin = rem[j].origin /\ rem[j].origin \in Rows
          BY <1>4, <1>6
        <5>2. i \notin Rows
          BY <3>2
        <5>3. QED
          BY <4>2, <5>1, <5>2
      <4>4. PICK l \in 1 .. Len(Q) : j = Len(rem) + l
        BY <1>2, <4>3
      <4>5. QED
        BY <1>5, <4>2, <4>4
    <3>3. CASE j \notin Rows
      <4>1. PICK k \in 1 .. Len(Q) : j = Len(rem) + k
        BY <1>2, <3>3
      <4>2. rem'[i].origin = j /\ j > Len(rem)
        BY <1>1, <1>5, <2>1, <4>1
      <4>3. i \notin Rows
        <5>1. i \in Rows => rem'[i].origin = rem[i].origin /\ rem[i].origin \in Rows
          BY <1>4, <1>6
        <5>2. j \notin Rows
          BY <3>3
        <5>3. QED
          BY <4>2, <5>1, <5>2
      <4>4. PICK l \in 1 .. Len(Q) : i = Len(rem) + l
        BY <1>2, <4>3
      <4>5. QED
        BY <1>5, <4>2, <4>4
    <3>4. QED
      BY <3>1, <3>2, <3>3
  <2>2. QED
    BY <2>1 DEF OneNextOccurrence
<1>10. RecursForever'
  <2>1. ASSUME NEW c \in Rows', rem'[rem'[c].origin].every > 0,
               \A i \in Rows' : rem'[i].origin = rem'[c].origin => rem'[i].state \in {"PENDING", "SENT"}
        PROVE  \E i \in Rows' : rem'[i].origin = rem'[c].origin /\ rem'[i].state = "PENDING"
    <3>1. CASE c \in Rows
      <4>1. rem[c].origin = rem'[c].origin /\ rem[c].origin \in Rows /\ rem[rem[c].origin].every > 0
        BY <1>4, <1>6, <2>1, <3>1
      <4>2. \A i \in Rows : rem[i].origin = rem[c].origin =>
                rem[i].state \in {"PENDING", "SENT"} /\ i \notin ids
        BY <1>2, <1>4, <2>1, <4>1
      <4>3. PICK i \in Rows : rem[i].origin = rem[c].origin /\ rem[i].state = "PENDING"
        BY <3>1, <4>1, <4>2 DEF IInv, RecursForever
      <4>4. i \in Rows' /\ rem'[i] = rem[i]
        BY <1>2, <1>4, <4>2, <4>3
      <4>5. QED
        BY <4>1, <4>3, <4>4
    <3>2. CASE \E k \in 1 .. Len(Q) : c = Len(rem) + k
      BY <1>5, <2>1, <3>2
    <3>3. QED
      BY <1>2, <2>1, <3>1, <3>2
  <2>2. QED
    BY <2>1 DEF RecursForever
<1>11. NotSentTwice'
  <2>1. ASSUME NEW i \in Rows'
        PROVE  queued'[i] <= faults' +
                 (IF rem'[i].state = "PENDING" /\ \A p \in Pollers : i \notin poll'[p].done
                  THEN 0 ELSE 1)
    <3>1. faults \in Nat /\ faults' = faults /\ poll' = poll
      BY <1>1 DEF TypeOK
    <3>2. CASE i \in Rows
      <4>1. queued[i] <= faults +
                 (IF rem[i].state = "PENDING" /\ \A p \in Pollers : i \notin poll[p].done
                  THEN 0 ELSE 1)
        BY <3>2 DEF IInv, NotSentTwice
      <4>2. queued'[i] = queued[i] /\ queued[i] \in Nat
        BY <1>1, <1>3, <3>2 DEF TypeOK, Rows
      <4>3. rem'[i].state = "PENDING" => rem[i].state = "PENDING"
        BY <1>4, <3>2
      <4>4. QED
        BY <3>1, <4>1, <4>2, <4>3
    <3>3. CASE \E k \in 1 .. Len(Q) : i = Len(rem) + k
      BY <1>3, <3>1, <3>3
    <3>4. QED
      BY <1>2, <2>1, <3>2, <3>3
  <2>2. QED
    BY <2>1 DEF NotSentTwice
<1>12. Quiet
  <2>1. ASSUME NEW t \in Tasks, Pending(t) = {}, NEW i \in Pending(t)' PROVE ~rem'[i].spawned
    <3>1. i \in Rows' /\ rem'[i].task = t /\ rem'[i].state = "PENDING"
      BY <2>1 DEF Pending, RowsOf
    <3>2. i \notin Rows
      BY <1>4, <2>1, <3>1 DEF Pending, RowsOf
    <3>3. QED
      BY <1>2, <1>5, <3>1, <3>2
  <2>2. \A i \in Rows : rem[i].state # "PENDING" => rem'[i].state # "PENDING"
    BY <1>4
  <2>3. QED
    BY <2>1, <2>2 DEF Quiet
<1>13. QED
  BY <1>2, <1>3, <1>7, <1>8, <1>9, <1>10, <1>11, <1>12 DEF Sound, Counted

(***************************************************************************)
(* A run commits.                                                          *)
(***************************************************************************)

\* Held rows of other runs are not completed by this one.
LEMMA Committed ==
    ASSUME IInv, NEW p \in Pollers, CommitRun(p)
    PROVE  Counted' /\ Sound' /\ Quiet
<1> DEFINE Q == poll[p].spawned
           ids == poll[p].done
<1>1. /\ TypeOK /\ Q \in Seq(Row) /\ Len(Q) \in Nat /\ Len(rem) \in Nat
      /\ "SENT" \in States
      /\ Writes(ids, "SENT", Q)
      /\ RunSound(p)
      /\ \A q \in Pollers \ {p} : poll'[q] = poll[q]
      /\ poll'[p] = Resting
      /\ \A t \in Tasks : lock'[t] = IF lock[t] = p THEN Free ELSE lock[t]
      /\ faults' = faults /\ faults \in Nat
  BY DEF IInv, States, TypeOK, CommitRun, Writes, Release
<1>2. /\ \A i \in ids : i \in Rows /\ rem[i].state = "PENDING" /\ lock[rem[i].task] = p
      /\ \A k \in 1 .. Len(Q) :
            /\ Q[k].spawned /\ Q[k].state = "PENDING"
            /\ \E i \in ids : /\ Q[k].task = rem[i].task /\ Q[k].origin = rem[i].origin
                              /\ Q[k].every = rem[i].every
      /\ \A k, l \in 1 .. Len(Q) : Q[k].origin = Q[l].origin => k = l
      /\ \A i \in ids : rem[i].every > 0 => \E k \in 1 .. Len(Q) : Q[k].origin = rem[i].origin
  BY <1>1 DEF RunSound, Held
<1> HIDE DEF Q, ids
<1>3. /\ rem' \in Seq(Row) /\ Len(rem') = Len(rem) + Len(Q)
      /\ \A i \in Rows : i \in Rows' /\ rem'[i] = After(i, ids, "SENT")
      /\ \A k \in 1 .. Len(Q) : Len(rem) + k \in Rows' /\ rem'[Len(rem) + k] = Q[k]
      /\ \A i \in Rows' : i \in Rows \/ \E k \in 1 .. Len(Q) : i = Len(rem) + k
  <2>1. rem' = WithState(ids, "SENT") \o Q
    BY <1>1 DEF Writes
  <2>2. QED
    <3>1. RowsAfter(ids, "SENT", Q)
      BY <1>1, <2>1, Appended
    <3>2. QED
      BY <3>1 DEF RowsAfter
<1>4. /\ queued' \in Seq(Nat) /\ Len(queued') = Len(rem')
      /\ \A i \in Rows : queued'[i] = queued[i]
      /\ \A k \in 1 .. Len(Q) : queued'[Len(rem) + k] = 0
  <2>1. queued' = queued \o NotQueued(Len(Q))
    BY <1>1 DEF Writes
  <2>2. QED
    BY <1>1, <1>3, <2>1, CountsAppended
<1>5. \A i \in Rows :
        /\ rem[i] \in Row /\ rem'[i].task = rem[i].task /\ rem'[i].every = rem[i].every
        /\ rem'[i].origin = rem[i].origin
        /\ rem'[i].state = IF i \in ids THEN "SENT" ELSE rem[i].state
        /\ i \notin ids => rem'[i] = rem[i]
  <2>1. ASSUME NEW i \in Rows
        PROVE  /\ rem[i] \in Row
               /\ rem'[i] = IF i \in ids THEN [rem[i] EXCEPT !.state = "SENT"] ELSE rem[i]
    <3>1. rem[i] \in Row
      BY <1>1 DEF TypeOK, Rows
    <3>2. rem'[i] = After(i, ids, "SENT")
      BY <1>3
    <3>3. QED
      BY <3>1, <3>2 DEF After
  <2>2. QED
    BY <2>1 DEF Row
<1>6. \A i \in Rows : rem[i].origin \in Rows /\ rem[rem[i].origin].every = rem[i].every
  BY DEF IInv, OriginsAreRows
<1>7. \A i, j \in Rows : rem[i].origin = rem[j].origin /\ rem[i].state = "PENDING"
                            /\ rem[j].state = "PENDING" => i = j
  BY DEF IInv, OneNextOccurrence
<1>8. OriginsAreRows'
  <2>1. ASSUME NEW i \in Rows'
        PROVE  rem'[i].origin \in Rows' /\ rem'[rem'[i].origin].every = rem'[i].every
    <3>1. CASE i \in Rows
      BY <1>3, <1>5, <1>6, <3>1
    <3>2. CASE i \notin Rows
      <4>1. PICK k \in 1 .. Len(Q) : rem'[i] = Q[k]
        BY <1>3, <3>2
      <4>2. PICK j \in ids : Q[k].origin = rem[j].origin /\ Q[k].every = rem[j].every
        BY <1>2
      <4>3. j \in Rows /\ rem[j].origin \in Rows /\ rem[rem[j].origin].every = rem[j].every
        BY <1>2, <1>6
      <4>4. QED
        BY <1>3, <1>5, <4>1, <4>2, <4>3
    <3>3. QED
      BY <3>1, <3>2
  <2>2. QED
    BY <2>1 DEF OriginsAreRows
<1>9. ASSUME NEW q \in Pollers PROVE RunSound(q)'
  <2>1. CASE q = p
    <3>1. poll'[q].todo = {} /\ poll'[q].done = {} /\ poll'[q].spawned = <<>>
      BY <1>1, <2>1 DEF Resting
    <3>2. QED
      BY <3>1 DEF RunSound, Held
  <2>2. CASE q # p
    <3>1. RunSound(q) /\ poll'[q] = poll[q]
      BY <1>1, <2>2 DEF IInv
    <3>2. \A i \in Held(q) : /\ i \in Rows /\ i \in Rows' /\ rem'[i] = rem[i]
                             /\ lock'[rem[i].task] = lock[rem[i].task]
      <4>1. ASSUME NEW i \in Held(q)
            PROVE  i \in Rows /\ rem[i].task \in Tasks /\ lock[rem[i].task] = q /\ i \notin ids
        <5>1. i \in Rows /\ lock[rem[i].task] = q
          BY <3>1 DEF RunSound
        <5>2. rem[i] \in Row
          BY <1>5, <5>1
        <5>3. i \notin ids
          BY <1>2, <2>2, <5>1
        <5>4. QED
          BY <5>1, <5>2, <5>3 DEF Row
      <4>2. QED
        BY <1>1, <1>3, <1>5, <2>2, <4>1
    <3>3. poll[q].done \subseteq Held(q)
      BY DEF Held
    <3>4. QED
      BY <3>1, <3>2, <3>3 DEF RunSound, Held
  <2>3. QED
    BY <2>1, <2>2
<1>10. ASSUME NEW i \in Rows', NEW j \in Rows', rem'[i].origin = rem'[j].origin,
              rem'[i].state = "PENDING", rem'[j].state = "PENDING",
              i \notin Rows
       PROVE  i = j
  <2>1. PICK k \in 1 .. Len(Q) : i = Len(rem) + k /\ rem'[i] = Q[k]
    BY <1>3, <1>10
  <2>2. PICK s \in ids : Q[k].origin = rem[s].origin
    BY <1>2
  <2>3. j \notin Rows
    <3>1. ASSUME j \in Rows PROVE FALSE
      <4>1. j \notin ids /\ rem[j].state = "PENDING" /\ rem[j].origin = rem[s].origin
        BY <1>5, <1>10, <2>1, <2>2, <3>1
      <4>2. s \in Rows /\ rem[s].state = "PENDING"
        BY <1>2
      <4>3. j = s
        BY <1>7, <3>1, <4>1, <4>2
      <4>4. QED
        BY <4>1, <4>3
    <3>2. QED
      BY <3>1
  <2>4. PICK l \in 1 .. Len(Q) : j = Len(rem) + l /\ rem'[j] = Q[l]
    BY <1>3, <2>3
  <2>5. QED
    BY <1>2, <1>10, <2>1, <2>4
<1>11. OneNextOccurrence'
  <2>1. ASSUME NEW i \in Rows', NEW j \in Rows', rem'[i].origin = rem'[j].origin,
               rem'[i].state = "PENDING", rem'[j].state = "PENDING"
        PROVE  i = j
    <3>1. CASE i \notin Rows
      BY <1>10, <2>1, <3>1
    <3>2. CASE j \notin Rows
      BY <1>10, <2>1, <3>2
    <3>3. CASE i \in Rows /\ j \in Rows
      <4>1. rem[i].state = "PENDING" /\ rem[j].state = "PENDING" /\ rem[i].origin = rem[j].origin
        BY <1>5, <2>1, <3>3
      <4>2. QED
        BY <1>7, <3>3, <4>1
    <3>4. QED
      BY <3>1, <3>2, <3>3
  <2>2. QED
    BY <2>1 DEF OneNextOccurrence
<1>12. RecursForever'
  <2>1. ASSUME NEW c \in Rows', rem'[rem'[c].origin].every > 0,
               \A i \in Rows' : rem'[i].origin = rem'[c].origin => rem'[i].state \in {"PENDING", "SENT"}
        PROVE  \E i \in Rows' : rem'[i].origin = rem'[c].origin /\ rem'[i].state = "PENDING"
    <3>1. PICK b \in Rows : rem[b].origin = rem'[c].origin
      <4>1. CASE c \in Rows
        BY <1>5, <4>1
      <4>2. CASE c \notin Rows
        <5>1. PICK k \in 1 .. Len(Q) : rem'[c] = Q[k]
          BY <1>3, <4>2
        <5>2. QED
          BY <1>2, <5>1
      <4>3. QED
        BY <4>1, <4>2
    <3>2. rem[rem[b].origin].every > 0
      BY <1>5, <1>6, <2>1, <3>1
    <3>3. \A i \in Rows : rem[i].origin = rem[b].origin => rem[i].state \in {"PENDING", "SENT"}
      <4>1. ASSUME NEW i \in Rows, rem[i].origin = rem[b].origin
            PROVE  rem[i].state \in {"PENDING", "SENT"}
        <5>1. i \in Rows' /\ rem'[i].origin = rem'[c].origin
          BY <1>3, <1>5, <3>1, <4>1
        <5>2. rem'[i].state \in {"PENDING", "SENT"}
          BY <2>1, <5>1
        <5>3. QED
          BY <1>2, <1>5, <5>2
      <4>2. QED
        BY <4>1
    <3>4. PICK i \in Rows : rem[i].origin = rem[b].origin /\ rem[i].state = "PENDING"
      BY <3>1, <3>2, <3>3 DEF IInv, RecursForever
    <3>5. CASE i \notin ids
      BY <1>3, <1>5, <3>1, <3>4, <3>5
    <3>6. CASE i \in ids
      <4>1. rem[i].every > 0
        BY <1>6, <3>2, <3>4
      <4>2. PICK k \in 1 .. Len(Q) : Q[k].origin = rem[i].origin
        BY <1>2, <3>6, <4>1
      <4>3. Len(rem) + k \in Rows' /\ rem'[Len(rem) + k].origin = rem'[c].origin
            /\ rem'[Len(rem) + k].state = "PENDING"
        BY <1>2, <1>3, <3>1, <3>4, <4>2
      <4>4. QED
        BY <4>3
    <3>7. QED
      BY <3>5, <3>6
  <2>2. QED
    BY <2>1 DEF RecursForever
<1>13. NotSentTwice'
  <2>1. ASSUME NEW i \in Rows'
        PROVE  queued'[i] <= faults' +
                 (IF rem'[i].state = "PENDING" /\ \A q \in Pollers : i \notin poll'[q].done
                  THEN 0 ELSE 1)
    <3>1. CASE i \in Rows
      <4>1. queued[i] <= faults +
                 (IF rem[i].state = "PENDING" /\ \A q \in Pollers : i \notin poll[q].done
                  THEN 0 ELSE 1)
        BY <3>1 DEF IInv, NotSentTwice
      <4>2. queued'[i] = queued[i] /\ queued[i] \in Nat
        BY <1>1, <1>4, <3>1 DEF TypeOK, Rows
      <4>3. (rem'[i].state = "PENDING" /\ \A q \in Pollers : i \notin poll'[q].done) =>
            (rem[i].state = "PENDING" /\ \A q \in Pollers : i \notin poll[q].done)
        <5>1. rem'[i].state = "PENDING" => i \notin ids /\ rem[i].state = "PENDING"
          BY <1>5, <3>1
        <5>2. QED
          BY <1>1, <5>1 DEF ids
      <4>4. QED
        BY <1>1, <4>1, <4>2, <4>3
    <3>2. CASE \E k \in 1 .. Len(Q) : i = Len(rem) + k
      BY <1>1, <1>4, <3>2
    <3>3. QED
      BY <1>3, <2>1, <3>1, <3>2
  <2>2. QED
    BY <2>1 DEF NotSentTwice
<1>14. Quiet
  <2>1. ASSUME NEW t \in Tasks, Pending(t) = {} PROVE Pending(t)' = {}
    <3>1. ASSUME NEW i \in Pending(t)' PROVE FALSE
      <4>1. i \in Rows' /\ rem'[i].task = t /\ rem'[i].state = "PENDING"
        BY <3>1 DEF Pending, RowsOf
      <4>2. i \notin Rows
        BY <1>5, <2>1, <4>1 DEF Pending, RowsOf
      <4>3. PICK k \in 1 .. Len(Q) : rem'[i] = Q[k]
        BY <1>3, <4>1, <4>2
      <4>4. PICK s \in ids : Q[k].task = rem[s].task
        BY <1>2
      <4>5. s \in Rows /\ rem[s].task = t /\ rem[s].state = "PENDING"
        BY <1>2, <4>1, <4>3, <4>4
      <4>6. QED
        BY <2>1, <4>5 DEF Pending, RowsOf
    <3>2. QED
      BY <3>1
  <2>2. \A i \in Rows : rem[i].state # "PENDING" => rem'[i].state # "PENDING"
    BY <1>5
  <2>3. QED
    BY <2>1, <2>2 DEF Quiet
<1>15. QED
  BY <1>3, <1>4, <1>8, <1>9, <1>11, <1>12, <1>13, <1>14 DEF Sound, Counted

(***************************************************************************)
(* Steps that write no row.                                                *)
(***************************************************************************)

\* What the fields of a row are.
LEMMA RowFields ==
    ASSUME TypeOK
    PROVE  \A i \in Rows : /\ rem[i] \in Row /\ rem[i].task \in Tasks /\ rem[i].due \in Nat
                           /\ rem[i].every \in Nat /\ rem[i].state \in States
                           /\ rem[i].origin \in Nat \ {0} /\ queued[i] \in Nat
<1>1. ASSUME NEW i \in Rows PROVE rem[i] \in Row /\ queued[i] \in Nat
  BY DEF TypeOK, Rows
<1>2. QED
  BY <1>1 DEF Row

\* The rows are as they were, so what is said of them alone still holds.
LEMMA RowsKept ==
    ASSUME IInv, rem' = rem
    PROVE  /\ OriginsAreRows' /\ OneNextOccurrence' /\ RecursForever' /\ Quiet
           /\ \A t \in Tasks : Pending(t)' = Pending(t)
<1>1. Rows' = Rows /\ \A t \in Tasks : Pending(t)' = Pending(t)
  BY DEF Rows, Pending, RowsOf
<1>2. OriginsAreRows' /\ OneNextOccurrence' /\ RecursForever'
  BY <1>1 DEF IInv, OriginsAreRows, OneNextOccurrence, RecursForever
<1>3. Quiet
  BY <1>1 DEF Quiet
<1>4. QED
  BY <1>1, <1>2, <1>3

\* A request that writes no reminder, or fails to.
LEMMA Elsewhere ==
    ASSUME IInv, UNCHANGED <<rem, queued, lock, poll>>, faults' \in Nat, faults' >= faults
    PROVE  Counted' /\ Sound' /\ Quiet
<1>1. OriginsAreRows' /\ OneNextOccurrence' /\ RecursForever' /\ Quiet
  BY RowsKept
<1>2. Counted'
  BY DEF Counted, IInv, TypeOK
<1>3. ASSUME NEW p \in Pollers PROVE RunSound(p)'
  BY DEF IInv, RunSound, Held, Rows
<1>4. NotSentTwice'
  <2>1. ASSUME NEW i \in Rows
        PROVE  queued[i] <= faults' +
                 (IF rem[i].state = "PENDING" /\ \A q \in Pollers : i \notin poll[q].done
                  THEN 0 ELSE 1)
    <3>1. queued[i] <= faults +
                 (IF rem[i].state = "PENDING" /\ \A q \in Pollers : i \notin poll[q].done
                  THEN 0 ELSE 1)
      BY DEF IInv, NotSentTwice
    <3>2. queued[i] \in Nat /\ faults \in Nat
      BY DEF IInv, TypeOK, Rows
    <3>3. QED
      BY <3>1, <3>2
  <2>2. QED
    BY <2>1 DEF NotSentTwice, Rows
<1>5. QED
  BY <1>1, <1>2, <1>3, <1>4 DEF Sound

\* A run reads rows of tasks nobody has locked.
LEMMA Polled ==
    ASSUME IInv, NEW p \in Pollers, NEW skipped \in SUBSET Tasks, PollDueReminders(p, skipped)
    PROVE  Counted' /\ Sound' /\ Quiet
<1> DEFINE D == Due(skipped)
<1>1. /\ TypeOK /\ rem' = rem /\ queued' = queued /\ faults' = faults
      /\ poll[p] = Resting
      /\ poll' = [poll EXCEPT ![p].todo = D]
      /\ lock' = [t \in Tasks |-> IF \E i \in D : rem[i].task = t THEN p ELSE lock[t]]
  BY DEF IInv, PollDueReminders
<1>2. D \subseteq Rows /\ \A i \in D : rem[i].state = "PENDING" /\ lock[rem[i].task] = Free
  BY DEF Due
<1> HIDE DEF D
<1>3. /\ poll'[p].todo = D /\ poll'[p].done = {} /\ poll'[p].spawned = <<>>
      /\ \A q \in Pollers \ {p} : poll'[q] = poll[q]
  BY <1>1 DEF TypeOK, Resting
<1>4. \A i \in Rows : rem[i].task \in Tasks
  BY <1>1, RowFields
<1>5. OriginsAreRows' /\ OneNextOccurrence' /\ RecursForever' /\ Quiet
  BY <1>1, RowsKept
<1>6. Counted'
  BY <1>1 DEF Counted, TypeOK
<1>7. ASSUME NEW q \in Pollers PROVE RunSound(q)'
  <2>1. CASE q = p
    <3>1. \A i \in D : lock'[rem[i].task] = p
      BY <1>1, <1>2, <1>4
    <3>2. QED
      BY <1>1, <1>2, <1>3, <2>1, <3>1 DEF RunSound, Held, Rows
  <2>2. CASE q # p
    <3>1. RunSound(q) /\ poll'[q] = poll[q]
      BY <1>3, <2>2 DEF IInv
    <3>2. \A i \in Held(q) : i \in Rows /\ lock'[rem[i].task] = lock[rem[i].task]
      <4>1. ASSUME NEW i \in Held(q) PROVE i \in Rows /\ lock'[rem[i].task] = lock[rem[i].task]
        <5>1. i \in Rows /\ lock[rem[i].task] = q /\ rem[i].task \in Tasks
          BY <1>4, <3>1 DEF RunSound
        <5>2. ~ \E j \in D : rem[j].task = rem[i].task
          BY <1>2, <5>1, RemindersAssumption
        <5>3. QED
          BY <1>1, <5>1, <5>2
      <4>2. QED
        BY <4>1
    <3>3. rem' = rem /\ Rows' = Rows /\ Held(q)' = Held(q)
      BY <1>1, <3>1 DEF Rows, Held
    <3>4. \A i \in Held(q) : lock'[rem[i].task] = q
      BY <3>1, <3>2 DEF RunSound
    <3>5. QED
      BY <3>1, <3>3, <3>4 DEF RunSound
  <2>3. QED
    BY <2>1, <2>2
<1>8. NotSentTwice'
  <2>2. \A i \in Rows : queued[i] \in Nat /\ faults \in Nat
    BY <1>1 DEF TypeOK, Rows
  <2>3. ASSUME NEW i \in Rows
        PROVE  queued[i] <= faults +
                 (IF rem[i].state = "PENDING" /\ \A q \in Pollers : i \notin poll'[q].done
                  THEN 0 ELSE 1)
    <3>1. queued[i] <= faults +
                 (IF rem[i].state = "PENDING" /\ \A q \in Pollers : i \notin poll[q].done
                  THEN 0 ELSE 1)
      BY DEF IInv, NotSentTwice
    <3>2. queued[i] \in Nat /\ faults \in Nat
      BY <2>2
    <3>3. CASE rem[i].state = "PENDING" /\ \A q \in Pollers : i \notin poll'[q].done
      <4>2. \A q \in Pollers : i \notin poll[q].done
        BY <1>1, <1>3, <3>3 DEF Resting
      <4>3. QED
        BY <3>1, <3>2, <3>3, <4>2
    <3>4. CASE ~(rem[i].state = "PENDING" /\ \A q \in Pollers : i \notin poll'[q].done)
      <4>1. queued[i] <= faults + 1
        BY <3>1, <3>2
      <4>2. QED
        BY <3>4, <4>1
    <3>5. QED
      BY <3>3, <3>4
  <2>4. QED
    BY <1>1, <2>3 DEF NotSentTwice, Rows
<1>9. QED
  BY <1>5, <1>6, <1>7, <1>8 DEF Sound

\* A run ends without a trace but its messages.
LEMMA RolledBack ==
    ASSUME IInv, NEW p \in Pollers, RollbackRun(p)
    PROVE  Counted' /\ Sound' /\ Quiet
<1>1. /\ TypeOK /\ rem' = rem /\ queued' = queued /\ faults' = faults + 1
      /\ poll' = [poll EXCEPT ![p] = Resting]
      /\ lock' = [t \in Tasks |-> IF lock[t] = p THEN Free ELSE lock[t]]
  BY DEF IInv, RollbackRun, Release
<1>2. /\ poll'[p].todo = {} /\ poll'[p].done = {} /\ poll'[p].spawned = <<>>
      /\ \A q \in Pollers \ {p} : poll'[q] = poll[q]
  BY <1>1 DEF TypeOK, Resting
<1>3. \A i \in Rows : rem[i].task \in Tasks
  BY <1>1, RowFields
<1>4. OriginsAreRows' /\ OneNextOccurrence' /\ RecursForever' /\ Quiet
  BY <1>1, RowsKept
<1>5. Counted'
  BY <1>1 DEF Counted, TypeOK
<1>6. ASSUME NEW q \in Pollers PROVE RunSound(q)'
  <2>1. CASE q = p
    BY <1>2, <2>1 DEF RunSound, Held
  <2>2. CASE q # p
    <3>1. RunSound(q) /\ poll'[q] = poll[q]
      BY <1>2, <2>2 DEF IInv
    <3>2. \A i \in Held(q) : i \in Rows /\ lock'[rem[i].task] = lock[rem[i].task]
      BY <1>1, <1>3, <2>2, <3>1 DEF RunSound
    <3>3. rem' = rem /\ Rows' = Rows /\ Held(q)' = Held(q)
      BY <1>1, <3>1 DEF Rows, Held
    <3>4. \A i \in Held(q) : lock'[rem[i].task] = q
      BY <3>1, <3>2 DEF RunSound
    <3>5. QED
      BY <3>1, <3>3, <3>4 DEF RunSound
  <2>3. QED
    BY <2>1, <2>2
<1>7. NotSentTwice'
  <2>1. ASSUME NEW i \in Rows PROVE queued[i] <= faults + 1
    <3>1. queued[i] <= faults +
                 (IF rem[i].state = "PENDING" /\ \A q \in Pollers : i \notin poll[q].done
                  THEN 0 ELSE 1)
      BY DEF IInv, NotSentTwice
    <3>2. queued[i] \in Nat /\ faults \in Nat
      BY <1>1 DEF TypeOK, Rows
    <3>3. QED
      BY <3>1, <3>2
  <2>2. \A i \in Rows : queued[i] \in Nat /\ faults \in Nat
    BY <1>1 DEF TypeOK, Rows
  <2>3. \A i \in Rows : queued[i] <= faults' +
                 (IF rem[i].state = "PENDING" /\ \A q \in Pollers : i \notin poll'[q].done
                  THEN 0 ELSE 1)
    BY <1>1, <2>1, <2>2
  <2>4. QED
    BY <1>1, <2>3 DEF NotSentTwice, Rows
<1>8. QED
  BY <1>4, <1>5, <1>6, <1>7 DEF Sound

\* A run sends one reminder, which it alone holds and has not sent.
LEMMA Dispatched ==
    ASSUME IInv, NEW p \in Pollers, Dispatch(p)
    PROVE  Counted' /\ Sound' /\ Quiet /\ poll' \in
               [Pollers -> [todo : SUBSET Nat, done : SUBSET Nat, spawned : Seq(Row)]]
<1>1. PICK i \in poll[p].todo, n \in {0, 1} :
        /\ queued' = [queued EXCEPT ![i] = queued[i] + n]
        /\ poll' = [poll EXCEPT ![p] = [todo |-> poll[p].todo \ {i}, done |-> poll[p].done \cup {i},
                                        spawned |-> poll[p].spawned \o Spawned(i)]]
  BY DEF Dispatch
<1>2. TypeOK /\ rem' = rem /\ lock' = lock /\ faults' = faults /\ faults \in Nat /\ now \in Nat
  BY DEF IInv, TypeOK, Dispatch
<1>3. /\ RunSound(p) /\ i \in Rows /\ i \in Held(p) /\ rem[i].state = "PENDING"
      /\ lock[rem[i].task] = p /\ i \notin poll[p].done
      /\ i \in Nat /\ poll[p].spawned \in Seq(Row)
      /\ poll[p].todo \in SUBSET Nat /\ poll[p].done \in SUBSET Nat
  BY <1>2 DEF IInv, RunSound, Held, TypeOK
<1> DEFINE W == poll[p].spawned
           X == Spawned(i)
           V == W \o X
\* What the row's successor is.
<1>4. /\ X \in Seq(Row) /\ (rem[i].every > 0 => Len(X) = 1) /\ (rem[i].every = 0 => Len(X) = 0)
      /\ \A k \in 1 .. Len(X) : /\ X[k].spawned /\ X[k].state = "PENDING" /\ k = 1
                                /\ X[k].task = rem[i].task /\ X[k].origin = rem[i].origin
                                /\ X[k].every = rem[i].every
  <2> DEFINE R == [rem[i] EXCEPT !.due = now + rem[i].every, !.spawned = TRUE]
  <2>1. rem[i] \in Row /\ rem[i].every \in Nat
    BY <1>2, <1>3, RowFields
  <2>2. /\ R \in Row /\ R.spawned /\ R.state = "PENDING" /\ R.task = rem[i].task
        /\ R.origin = rem[i].origin /\ R.every = rem[i].every
    <3> DEFINE d == now + rem[i].every
    <3>1. d \in Nat /\ rem[i].state = "PENDING"
      BY <1>2, <1>3, <2>1
    <3>2. R = [rem[i] EXCEPT !.due = d, !.spawned = TRUE]
      OBVIOUS
    <3> HIDE DEF d, R
    <3>3. QED
      BY <2>1, <3>1, <3>2 DEF Row
  <2>3. CASE rem[i].every = 0
    <3>1. X = <<>>
      BY <2>3 DEF Spawned
    <3>2. QED
      BY <2>3, <3>1
  <2>4. CASE rem[i].every # 0
    <3>1. X = <<R>>
      BY <2>4 DEF Spawned
    <3> HIDE DEF R, X
    <3>2. QED
      BY <2>1, <2>2, <2>4, <3>1
  <2>5. QED
    BY <2>3, <2>4
<1> HIDE DEF W, X
<1>5. /\ V \in Seq(Row) /\ Len(V) = Len(W) + Len(X)
      /\ \A k \in 1 .. Len(W) : k \in 1 .. Len(V) /\ V[k] = W[k]
      /\ \A k \in 1 .. Len(X) : Len(W) + k \in 1 .. Len(V) /\ V[Len(W) + k] = X[k]
      /\ \A k \in 1 .. Len(V) : k \in 1 .. Len(W) \/ \E l \in 1 .. Len(X) : k = Len(W) + l
  <2>1. W \in Seq(Row) /\ X \in Seq(Row) /\ Len(W) \in Nat /\ Len(X) \in Nat
    BY <1>3, <1>4 DEF W
  <2>2. /\ W \o X \in Seq(Row) /\ Len(W \o X) = Len(W) + Len(X)
        /\ \A k \in 1 .. Len(W) + Len(X) :
              (W \o X)[k] = IF k <= Len(W) THEN W[k] ELSE X[k - Len(W)]
    BY <2>1, ConcatProperties
  <2> HIDE DEF V
  <2>3. /\ V \in Seq(Row) /\ Len(V) = Len(W) + Len(X)
        /\ \A k \in 1 .. Len(W) + Len(X) : V[k] = IF k <= Len(W) THEN W[k] ELSE X[k - Len(W)]
    BY <2>2 DEF V
  <2>4. \A k \in 1 .. Len(V) : k \in 1 .. Len(W) \/ \E l \in 1 .. Len(X) : k = Len(W) + l
    <3>1. ASSUME NEW k \in 1 .. Len(V), k \notin 1 .. Len(W)
          PROVE  \E l \in 1 .. Len(X) : k = Len(W) + l
      <4>1. k - Len(W) \in 1 .. Len(X) /\ k = Len(W) + (k - Len(W))
        BY <2>1, <2>3, <3>1
      <4>2. QED
        BY <4>1
    <3>2. QED
      BY <3>1
  <2>5. \A k \in 1 .. Len(W) : k \in 1 .. Len(V) /\ V[k] = W[k]
    BY <2>1, <2>3
  <2>6. ASSUME NEW k \in 1 .. Len(X) PROVE Len(W) + k \in 1 .. Len(V) /\ V[Len(W) + k] = X[k]
    <3>1. Len(W) + k \in 1 .. Len(W) + Len(X) /\ ~(Len(W) + k <= Len(W)) /\ (Len(W) + k) - Len(W) = k
      BY <2>1
    <3>2. QED
      BY <2>3, <3>1
  <2>7. QED
    BY <2>3, <2>4, <2>5, <2>6
<1>6. /\ poll' = [poll EXCEPT ![p] = [todo |-> poll[p].todo \ {i}, done |-> poll[p].done \cup {i},
                                      spawned |-> V]]
      /\ poll'[p].todo = poll[p].todo \ {i} /\ poll'[p].done = poll[p].done \cup {i}
      /\ poll'[p].spawned = V
      /\ \A q \in Pollers \ {p} : poll'[q] = poll[q]
  BY <1>1, <1>2 DEF TypeOK, W, X
<1> HIDE DEF V
<1>7. poll' \in [Pollers -> [todo : SUBSET Nat, done : SUBSET Nat, spawned : Seq(Row)]]
  BY <1>2, <1>3, <1>5, <1>6 DEF TypeOK
<1>8. OriginsAreRows' /\ OneNextOccurrence' /\ RecursForever' /\ Quiet
  BY <1>2, RowsKept
<1>9. Counted' /\ queued'[i] = queued[i] + n /\ \A j \in Rows : j # i => queued'[j] = queued[j]
  BY <1>1, <1>2, <1>3 DEF Counted, TypeOK, Rows
<1>10. RunSound(p)'
  <2>1. \A k \in 1 .. Len(W) :
            /\ W[k].spawned /\ W[k].state = "PENDING"
            /\ \E j \in poll[p].done : /\ W[k].task = rem[j].task /\ W[k].origin = rem[j].origin
                                       /\ W[k].every = rem[j].every
    BY <1>3 DEF RunSound, W
  <2>2. \A k \in 1 .. Len(W) : W[k].origin # rem[i].origin
    <3>1. ASSUME NEW j \in poll[p].done PROVE rem[j].origin # rem[i].origin
      <4>1. j \in Rows /\ rem[j].state = "PENDING" /\ j # i
        BY <1>3 DEF RunSound, Held
      <4>2. QED
        BY <1>3, <4>1 DEF IInv, OneNextOccurrence
    <3>2. QED
      BY <2>1, <3>1
  <2>3. ASSUME NEW k \in 1 .. Len(V)
        PROVE  /\ V[k].spawned /\ V[k].state = "PENDING"
               /\ \E j \in poll[p].done \cup {i} :
                    /\ V[k].task = rem[j].task /\ V[k].origin = rem[j].origin
                    /\ V[k].every = rem[j].every
    <3>1. CASE k \in 1 .. Len(W)
      <4>1. V[k] = W[k]
        BY <1>5, <3>1
      <4>2. QED
        BY <2>1, <3>1, <4>1
    <3>2. CASE \E l \in 1 .. Len(X) : k = Len(W) + l
      <4>1. PICK l \in 1 .. Len(X) : V[k] = X[l]
        BY <1>5, <3>2
      <4>2. QED
        BY <1>4, <4>1
    <3>3. QED
      BY <1>5, <2>3, <3>1, <3>2
  <2>4. ASSUME NEW k \in 1 .. Len(V), NEW l \in 1 .. Len(V), V[k].origin = V[l].origin
        PROVE  k = l
    <3>1. CASE k \in 1 .. Len(W) /\ l \in 1 .. Len(W)
      <4>1. W[k].origin = W[l].origin
        BY <1>5, <2>4, <3>1
      <4>2. QED
        BY <1>3, <3>1, <4>1 DEF RunSound, W
    <3>2. CASE k \in 1 .. Len(W) /\ \E h \in 1 .. Len(X) : l = Len(W) + h
      <4>1. V[k].origin # rem[i].origin
        BY <1>5, <2>2, <3>2
      <4>2. V[l].origin = rem[i].origin
        BY <1>4, <1>5, <3>2
      <4>3. QED
        BY <2>4, <4>1, <4>2
    <3>3. CASE l \in 1 .. Len(W) /\ \E h \in 1 .. Len(X) : k = Len(W) + h
      <4>1. V[l].origin # rem[i].origin
        BY <1>5, <2>2, <3>3
      <4>2. V[k].origin = rem[i].origin
        BY <1>4, <1>5, <3>3
      <4>3. QED
        BY <2>4, <4>1, <4>2
    <3>4. CASE (\E h \in 1 .. Len(X) : k = Len(W) + h) /\ (\E h \in 1 .. Len(X) : l = Len(W) + h)
      BY <1>4, <3>4
    <3>5. QED
      BY <1>5, <3>1, <3>2, <3>3, <3>4
  <2>5. ASSUME NEW j \in poll[p].done \cup {i}, rem[j].every > 0
        PROVE  \E k \in 1 .. Len(V) : V[k].origin = rem[j].origin
    <3>1. CASE j = i
      <4>1. 1 \in 1 .. Len(X) /\ X[1].origin = rem[i].origin
        BY <1>4, <2>5, <3>1
      <4>2. QED
        BY <1>5, <3>1, <4>1
    <3>2. CASE j \in poll[p].done
      <4>1. PICK k \in 1 .. Len(W) : W[k].origin = rem[j].origin
        BY <1>3, <2>5, <3>2 DEF RunSound, W
      <4>2. k \in 1 .. Len(V) /\ V[k] = W[k]
        BY <1>5
      <4>3. QED
        BY <4>1, <4>2
    <3>3. QED
      BY <3>1, <3>2
  <2>6. Held(p)' = Held(p) /\ Rows' = Rows
    BY <1>1, <1>2, <1>6 DEF Held, Rows
  <2>7. (poll[p].todo \ {i}) \cap (poll[p].done \cup {i}) = {}
    BY <1>3 DEF RunSound
  <2>8. \A j \in Held(p) : j \in Rows /\ rem[j].state = "PENDING" /\ lock[rem[j].task] = p
    BY <1>3 DEF RunSound
  <2>9. QED
    BY <1>2, <1>6, <2>3, <2>4, <2>5, <2>6, <2>7, <2>8 DEF RunSound
<1>11. ASSUME NEW q \in Pollers, q # p PROVE RunSound(q)'
  <2>1. RunSound(q) /\ poll'[q] = poll[q] /\ Held(q)' = Held(q) /\ Rows' = Rows
    BY <1>2, <1>6, <1>11 DEF IInv, Held, Rows
  <2>2. QED
    BY <1>2, <2>1 DEF RunSound
<1>12. NotSentTwice'
  <2>1. ASSUME NEW j \in Rows
        PROVE  queued'[j] <= faults +
                 (IF rem[j].state = "PENDING" /\ \A q \in Pollers : j \notin poll'[q].done
                  THEN 0 ELSE 1)
    <3>1. queued[j] <= faults +
                 (IF rem[j].state = "PENDING" /\ \A q \in Pollers : j \notin poll[q].done
                  THEN 0 ELSE 1)
      BY DEF IInv, NotSentTwice
    <3>2. queued[j] \in Nat
      BY <1>2, RowFields
    <3>3. CASE j = i
      <4>1. \A q \in Pollers : i \notin poll[q].done
        <5>1. ASSUME NEW q \in Pollers, i \in poll[q].done PROVE FALSE
          <6>1. RunSound(q) /\ i \in Held(q)
            BY <5>1 DEF IInv, Held
          <6>2. lock[rem[i].task] = q
            BY <6>1 DEF RunSound
          <6>3. QED
            BY <1>3, <5>1, <6>2
        <5>2. QED
          BY <5>1
      <4>2. queued[i] <= faults
        BY <1>2, <1>3, <3>1, <3>2, <3>3, <4>1
      <4>3. ~ \A q \in Pollers : i \notin poll'[q].done
        BY <1>6
      <4>4. QED
        BY <1>2, <1>9, <3>2, <3>3, <4>2, <4>3
    <3>4. CASE j # i
      <4>1. \A q \in Pollers : j \in poll'[q].done <=> j \in poll[q].done
        BY <1>6, <3>4
      <4>2. QED
        BY <1>9, <3>1, <3>4, <4>1
    <3>5. QED
      BY <3>3, <3>4
  <2>2. QED
    BY <1>2, <2>1 DEF NotSentTwice, Rows
<1>13. QED
  BY <1>7, <1>8, <1>9, <1>10, <1>11, <1>12 DEF Sound

(***************************************************************************)
(* Handlers.                                                               *)
(***************************************************************************)

\* No run holds a row of a task that nobody has locked.
LEMMA Unheld ==
    ASSUME IInv, NEW t \in Tasks, lock[t] = Free
    PROVE  \A p \in Pollers : Held(p) \cap RowsOf(t) = {}
<1>1. ASSUME NEW p \in Pollers, NEW i \in Held(p), i \in RowsOf(t) PROVE FALSE
  <2>1. lock[rem[i].task] = p /\ rem[i].task = t
    BY <1>1 DEF IInv, RunSound, RowsOf
  <2>2. QED
    BY <1>1, <2>1, RemindersAssumption
<1>2. QED
  BY <1>1

\* Rows in a new state are rows.
LEMMA Restated ==
    ASSUME TypeOK, NEW ids, NEW state \in States
    PROVE  /\ WithState(ids, state) \in Seq(Row) /\ Len(WithState(ids, state)) = Len(rem)
           /\ WithState({}, state) = rem
<1>1. rem \in Seq(Row) /\ Len(rem) \in Nat /\ \A i \in Rows : rem[i] \in Row
  BY RowFields DEF TypeOK
<1>2. ASSUME NEW i \in Rows PROVE After(i, ids, state) \in Row
  BY <1>1 DEF Row, After
<1>3. WithState(ids, state) = [i \in 1 .. Len(rem) |-> After(i, ids, state)]
  BY DEF WithState, Rows, After
<1>4. WithState(ids, state) \in Seq(Row) /\ Len(WithState(ids, state)) = Len(rem)
  BY <1>1, <1>2, <1>3 DEF Rows
<1>5. rem = [i \in 1 .. Len(rem) |-> rem[i]]
  BY <1>1
<1>6. WithState({}, state) = [i \in 1 .. Len(rem) |-> rem[i]]
  BY DEF WithState, Rows
<1>7. QED
  BY <1>4, <1>5, <1>6

\* A handler with a payload.
LEMMA Given ==
    ASSUME IInv, NEW t \in Tasks, NEW payload \in Payloads, NEW ids,
           \A p \in Pollers : Held(p) \cap ids = {},
           rem' = CreateReminders(WithState(ids, "DELETED"), t, payload),
           queued' = queued \o NotQueued(Len(payload)),
           UNCHANGED <<lock, poll, faults>>
    PROVE  Counted' /\ Sound' /\ Quiet
<1>1. TypeOK /\ "DELETED" \in States
  BY DEF IInv, States
<1>2. payload \in Seq(Schedule)
  BY RemindersAssumption DEF Payloads, BoundedSeq, SeqOf
<1> DEFINE rows == WithState(ids, "DELETED")
<1>3. rows \in Seq(Row) /\ Len(rows) = Len(rem) /\ rem' = CreateReminders(rows, t, payload)
  BY <1>1, Restated
<1> HIDE DEF rows
<1>4. PICK Q \in Seq(Row) : /\ Len(Q) = Len(payload) /\ PayloadRows(Q)
                            /\ CreateReminders(rows, t, payload) = rows \o Q
  BY <1>1, <1>2, <1>3, Created
<1>5. Writes(ids, "DELETED", Q)
  BY <1>3, <1>4 DEF Writes, rows
<1>6. QED
  BY <1>4, <1>5, Written

\* A handler without one.
LEMMA TakenOff ==
    ASSUME IInv, NEW ids, NEW state \in {"CANCELLED", "DELETED"},
           \A p \in Pollers : Held(p) \cap ids = {},
           rem' = WithState(ids, state), UNCHANGED <<queued, lock, poll, faults>>
    PROVE  Counted' /\ Sound' /\ Quiet
<1>1. TypeOK /\ state \in States /\ queued \in Seq(Nat)
  BY DEF IInv, States, TypeOK
<1>2. WithState(ids, state) \in Seq(Row)
  BY <1>1, Restated
<1>3. NotQueued(Len(<<>>)) = <<>>
  BY DEF NotQueued
<1>4. Writes(ids, state, <<>>)
  <2>1. WithState(ids, state) \o <<>> = WithState(ids, state) /\ queued \o <<>> = queued
    BY <1>1, <1>2, ConcatEmptySeq
  <2>2. QED
    BY <1>3, <2>1 DEF Writes
<1>5. PayloadRows(<<>>) /\ <<>> \in Seq(Row)
  BY DEF PayloadRows
<1>6. QED
  BY <1>4, <1>5, Written

(***************************************************************************)
(* Every step.                                                             *)
(***************************************************************************)

PollRow == [todo : SUBSET Nat, done : SUBSET Nat, spawned : Seq(Row)]

ReqRow == {Idle} \cup [pc : {"closed"}, task : Tasks]
                 \cup [pc : {"deleting"}, task : Tasks, seen : SUBSET Nat]

Others ==
    /\ now \in Nat /\ faults \in Nat
    /\ task \in [Tasks -> TaskRow]
    /\ lock \in [Tasks -> Pollers \cup {Free}]
    /\ poll \in [Pollers -> PollRow]
    /\ req \in [Requests -> ReqRow]

\* A type invariant in two halves.
LEMMA TypeHalves == TypeOK <=> Counted /\ Others
BY DEF TypeOK, Counted, Others, PollRow, ReqRow

\* What a request in the middle of closing a task is at.
LEMMA Closed ==
    ASSUME Others, NEW r \in Requests, req[r].pc = "closed"
    PROVE  req[r].task \in Tasks
<1>1. req[r] \in ReqRow
  BY DEF Others
<1>2. req[r] # Idle /\ req[r] \notin [pc : {"deleting"}, task : Tasks, seen : SUBSET Nat]
  BY DEF Idle
<1>3. QED
  BY <1>1, <1>2 DEF ReqRow

\* The handlers of a task.
LEMMA HandlerKeeps ==
    ASSUME IInv, NEW t \in Tasks, Handler(t)
    PROVE  Others' /\ Counted' /\ Sound' /\ Quiet
<1>1. TypeOK /\ Others /\ task[t] \in TaskRow
  BY TypeHalves DEF IInv, Others
<1>2. CASE CreateTask(t)
  <2>1. PICK payload \in Payloads :
          /\ rem' = CreateReminders(rem, t, payload)
          /\ queued' = queued \o NotQueued(Len(payload))
    BY <1>2 DEF CreateTask
  <2>2. rem = WithState({}, "DELETED")
    BY <1>1, Restated DEF States
  <2>3. Counted' /\ Sound' /\ Quiet
    <3>1. UNCHANGED <<lock, poll, faults>>
      BY <1>2 DEF CreateTask
    <3>2. rem' = CreateReminders(WithState({}, "DELETED"), t, payload)
      BY <2>1, <2>2
    <3>3. QED
      BY <2>1, <3>1, <3>2, Given
  <2>4. task' \in [Tasks -> TaskRow]
    BY <1>1, <1>2 DEF CreateTask, TaskRow, Others
  <2>5. QED
    BY <1>1, <1>2, <2>3, <2>4 DEF CreateTask, Others
<1>3. CASE SubmitTaskForReview(t)
  <2>1. Counted' /\ Sound' /\ Quiet
    <3>1. Pending(t) \subseteq RowsOf(t) /\ lock[t] = Free
      BY <1>3 DEF Pending, SubmitTaskForReview, Writable
    <3>2. \A p \in Pollers : Held(p) \cap Pending(t) = {}
      BY <3>1, Unheld
    <3>3. rem' = WithState(Pending(t), "CANCELLED") /\ UNCHANGED <<queued, lock, poll, faults>>
      BY <1>3 DEF SubmitTaskForReview
    <3>4. QED
      BY <3>2, <3>3, TakenOff
  <2>2. task' \in [Tasks -> TaskRow]
    BY <1>1, <1>3 DEF SubmitTaskForReview, TaskRow, Others
  <2>3. QED
    BY <1>1, <1>3, <2>1, <2>2 DEF SubmitTaskForReview, Others
<1>4. CASE ApproveTask(t)
  <2>1. Counted' /\ Sound' /\ Quiet
    <3>1. \A p \in Pollers : Held(p) \cap RowsOf(t) = {}
      BY <1>4, Unheld DEF ApproveTask, Writable
    <3>2. rem' = WithState(RowsOf(t), "DELETED") /\ UNCHANGED <<queued, lock, poll, faults>>
      BY <1>4 DEF ApproveTask
    <3>3. QED
      BY <3>1, <3>2, TakenOff
  <2>2. task' \in [Tasks -> TaskRow]
    BY <1>1, <1>4 DEF ApproveTask, TaskRow, Others
  <2>3. QED
    BY <1>1, <1>4, <2>1, <2>2 DEF ApproveTask, Others
<1>5. CASE ReopenStatus(t)
  <2>1. UNCHANGED <<rem, queued, lock, poll, faults>> /\ faults' \in Nat /\ faults' >= faults
    BY <1>1, <1>5 DEF ReopenStatus, Others
  <2>2. Counted' /\ Sound' /\ Quiet
    BY <2>1, Elsewhere
  <2>3. task' \in [Tasks -> TaskRow]
    BY <1>1, <1>5 DEF ReopenStatus, TaskRow, Others
  <2>4. QED
    BY <1>1, <1>5, <2>2, <2>3 DEF ReopenStatus, Others
<1>6. ASSUME NEW payload \in Payloads, UpdateTaskDetails(t, payload)
      PROVE  Others' /\ Counted' /\ Sound' /\ Quiet
  <2>1. \A p \in Pollers : Held(p) \cap RowsOf(t) = {}
    BY <1>6, Unheld DEF UpdateTaskDetails, Writable
  <2>2. /\ rem' = CreateReminders(WithState(RowsOf(t), "DELETED"), t, payload)
        /\ queued' = queued \o NotQueued(Len(payload))
        /\ UNCHANGED <<lock, poll, faults>>
    BY <1>6 DEF UpdateTaskDetails, Replace
  <2>3. Counted' /\ Sound' /\ Quiet
    BY <2>1, <2>2, Given
  <2>4. QED
    BY <1>1, <1>6, <2>3 DEF UpdateTaskDetails, Others
<1>7. ASSUME NEW payload \in Payloads, NEW review \in {"REJECTED", "UNSUBMITTED"},
             ActionTask(t, review, payload)
      PROVE  Others' /\ Counted' /\ Sound' /\ Quiet
  <2>1. \A p \in Pollers : Held(p) \cap RowsOf(t) = {}
    BY <1>7, Unheld DEF ActionTask, Writable
  <2>2. /\ rem' = CreateReminders(WithState(RowsOf(t), "DELETED"), t, payload)
        /\ queued' = queued \o NotQueued(Len(payload))
        /\ UNCHANGED <<lock, poll, faults>>
    BY <1>7 DEF ActionTask, Replace
  <2>3. Counted' /\ Sound' /\ Quiet
    BY <2>1, <2>2, Given
  <2>4. task' \in [Tasks -> TaskRow]
    BY <1>1, <1>7 DEF ActionTask, TaskRow, Others
  <2>5. QED
    BY <1>1, <1>7, <2>3, <2>4 DEF ActionTask, Others
<1>8. QED
  BY <1>2, <1>3, <1>4, <1>5, <1>6, <1>7 DEF Handler

\* A manual close, between its statements and at its end.
LEMMA CloseKeeps ==
    ASSUME IInv, NEW r \in Requests,
           Closing(r) \/ FailDelete(r) \/ \E t \in Tasks : CloseStatus(r, t)
    PROVE  Others' /\ Counted' /\ Sound' /\ Quiet
<1>1. TypeOK /\ Others
  BY TypeHalves DEF IInv
<1>2. CASE FindReminders(r)
  <2>1. req[r].task \in Tasks
    BY <1>1, <1>2, Closed DEF FindReminders
  <2>2. Present(req[r].task) \in SUBSET Nat
    BY DEF Present, RowsOf, Rows
  <2>3. req' \in [Requests -> ReqRow]
    BY <1>1, <1>2, <2>1, <2>2 DEF FindReminders, Others, ReqRow
  <2>4. UNCHANGED <<rem, queued, lock, poll, faults>> /\ faults' \in Nat /\ faults' >= faults
    BY <1>1, <1>2 DEF FindReminders, Others
  <2>5. Counted' /\ Sound' /\ Quiet
    BY <2>4, Elsewhere
  <2>6. QED
    BY <1>1, <1>2, <2>3, <2>5 DEF FindReminders, Others
<1>3. CASE DeleteReminders(r)
  <2>1. \A p \in Pollers : Held(p) \cap req[r].seen = {}
    BY <1>3 DEF DeleteReminders, Locked, Held
  <2>2. rem' = WithState(req[r].seen, "DELETED") /\ UNCHANGED <<queued, lock, poll, faults>>
    BY <1>3 DEF DeleteReminders
  <2>3. Counted' /\ Sound' /\ Quiet
    BY <2>1, <2>2, TakenOff
  <2>4. req' \in [Requests -> ReqRow]
    BY <1>1, <1>3 DEF DeleteReminders, Others, ReqRow
  <2>5. QED
    BY <1>1, <1>3, <2>3, <2>4 DEF DeleteReminders, Others
<1>4. CASE FailDelete(r)
  <2>1. UNCHANGED <<rem, queued, lock, poll>> /\ faults' \in Nat /\ faults' >= faults
    BY <1>1, <1>4 DEF FailDelete, Others
  <2>2. Counted' /\ Sound' /\ Quiet
    BY <2>1, Elsewhere
  <2>3. req' \in [Requests -> ReqRow]
    BY <1>1, <1>4 DEF FailDelete, Others, ReqRow
  <2>4. QED
    BY <1>1, <1>4, <2>1, <2>2, <2>3 DEF FailDelete, Others
<1>5. ASSUME NEW t \in Tasks, CloseStatus(r, t) PROVE Others' /\ Counted' /\ Sound' /\ Quiet
  <2>1. UNCHANGED <<rem, queued, lock, poll, faults>> /\ faults' \in Nat /\ faults' >= faults
    BY <1>1, <1>5 DEF CloseStatus, Others
  <2>2. Counted' /\ Sound' /\ Quiet
    BY <2>1, Elsewhere
  <2>3. task' \in [Tasks -> TaskRow]
    BY <1>1, <1>5 DEF CloseStatus, TaskRow, Others
  <2>4. req' \in [Requests -> ReqRow]
    BY <1>1, <1>5 DEF CloseStatus, Others, ReqRow
  <2>5. QED
    BY <1>1, <1>5, <2>2, <2>3, <2>4 DEF CloseStatus, Others
<1>6. QED
  BY <1>2, <1>3, <1>4, <1>5 DEF Closing

\* A poller run.
LEMMA RunKeeps ==
    ASSUME IInv, NEW p \in Pollers, Run(p) \/ RollbackRun(p)
    PROVE  Others' /\ Counted' /\ Sound' /\ Quiet
<1>1. TypeOK /\ Others /\ poll[p] \in PollRow /\ Resting \in PollRow
  BY TypeHalves DEF IInv, Others, PollRow, Resting
<1>2. ASSUME NEW skipped \in SUBSET Tasks, PollDueReminders(p, skipped)
      PROVE  Others' /\ Counted' /\ Sound' /\ Quiet
  <2>1. Counted' /\ Sound' /\ Quiet
    BY <1>2, Polled
  <2>2. Due(skipped) \in SUBSET Nat
    BY DEF Due, Rows
  <2>3. poll' \in [Pollers -> PollRow]
    BY <1>1, <1>2, <2>2 DEF PollDueReminders, Others, PollRow
  <2>4. lock' \in [Tasks -> Pollers \cup {Free}]
    BY <1>1, <1>2 DEF PollDueReminders, Others
  <2>5. QED
    BY <1>1, <1>2, <2>1, <2>3, <2>4 DEF PollDueReminders, Others
<1>3. CASE Dispatch(p)
  <2>1. Counted' /\ Sound' /\ Quiet /\ poll' \in [Pollers -> PollRow]
    BY <1>3, Dispatched DEF PollRow
  <2>2. QED
    BY <1>1, <1>3, <2>1 DEF Dispatch, Others
<1>4. CASE CommitRun(p)
  <2>1. Counted' /\ Sound' /\ Quiet
    BY <1>4, Committed
  <2>2. poll' \in [Pollers -> PollRow] /\ lock' \in [Tasks -> Pollers \cup {Free}]
    BY <1>1, <1>4 DEF CommitRun, Release, Others
  <2>3. QED
    BY <1>1, <1>4, <2>1, <2>2 DEF CommitRun, Others
<1>5. CASE RollbackRun(p)
  <2>1. Counted' /\ Sound' /\ Quiet
    BY <1>5, RolledBack
  <2>2. poll' \in [Pollers -> PollRow] /\ lock' \in [Tasks -> Pollers \cup {Free}] /\ faults' \in Nat
    BY <1>1, <1>5 DEF RollbackRun, Release, Others
  <2>3. QED
    BY <1>1, <1>5, <2>1, <2>2 DEF RollbackRun, Others
<1>6. QED
  BY <1>2, <1>3, <1>4, <1>5 DEF Run

\* No step breaks the invariant, or brings a reminder back.
LEMMA Inductive == IInv /\ [Next]_vars => IInv' /\ (UNCHANGED vars \/ Quiet)
<1> SUFFICES ASSUME IInv, [Next]_vars PROVE IInv' /\ (UNCHANGED vars \/ Quiet)
  OBVIOUS
<1>1. ASSUME Others', Counted', Sound' PROVE IInv'
  <2>1. TypeOK'
    BY <1>1, TypeHalves, PTL
  <2>2. QED
    BY <1>1, <2>1 DEF IInv, Sound
<1>2. Others /\ Counted
  BY TypeHalves DEF IInv
<1>3. CASE Tick
  <2>1. UNCHANGED <<rem, queued, lock, poll, faults>> /\ faults' \in Nat /\ faults' >= faults
    BY <1>2, <1>3 DEF Tick, Others
  <2>2. Counted' /\ Sound' /\ Quiet
    BY <2>1, Elsewhere
  <2>3. Others'
    BY <1>2, <1>3 DEF Tick, Others
  <2>4. QED
    BY <1>1, <2>2, <2>3
<1>4. ASSUME NEW t \in Tasks, Handler(t) PROVE IInv' /\ Quiet
  BY <1>1, <1>4, HandlerKeeps
<1>5. ASSUME NEW r \in Requests,
             Closing(r) \/ FailDelete(r) \/ \E t \in Tasks : CloseStatus(r, t)
      PROVE  IInv' /\ Quiet
  BY <1>1, <1>5, CloseKeeps
<1>6. ASSUME NEW p \in Pollers, Run(p) \/ RollbackRun(p) PROVE IInv' /\ Quiet
  BY <1>1, <1>6, RunKeeps
<1>7. CASE UNCHANGED vars
  <2>1. UNCHANGED <<rem, queued, lock, poll, faults>> /\ faults' \in Nat /\ faults' >= faults
    BY <1>2, <1>7 DEF vars, Others
  <2>2. Counted' /\ Sound'
    BY <2>1, Elsewhere
  <2>3. Others'
    BY <1>2, <1>7 DEF vars, Others
  <2>4. QED
    BY <1>1, <1>7, <2>2, <2>3
<1>8. QED
  BY <1>3, <1>4, <1>5, <1>6, <1>7 DEF Next

\* The invariant holds before anything happens.
LEMMA InitInv == Init => IInv
<1> SUFFICES ASSUME Init PROVE IInv
  OBVIOUS
<1>1. Rows = {} /\ Len(rem) = 0
  BY DEF Init, Rows
<1>2. TypeOK
  BY <1>1 DEF Init, TypeOK, TaskRow, Resting, Idle
<1>3. OriginsAreRows /\ OneNextOccurrence /\ RecursForever /\ NotSentTwice
  BY <1>1 DEF OriginsAreRows, OneNextOccurrence, RecursForever, NotSentTwice
<1>4. \A p \in Pollers : RunSound(p)
  BY DEF Init, RunSound, Held, Resting
<1>5. QED
  BY <1>2, <1>3, <1>4 DEF IInv

(***************************************************************************)
(* The theorems.                                                           *)
(***************************************************************************)

\* What a run holds, has sent and has inserted stays sound whatever overlaps it.
THEOREM Invariance == Spec => []IInv
<1>1. IInv /\ [Next]_vars => IInv'
  BY Inductive
<1>2. QED
  BY <1>1, InitInv, PTL DEF Spec

\* The types of the variables.
THEOREM TypeCorrect == Spec => []TypeOK
<1>1. IInv => TypeOK
  BY DEF IInv
<1>2. QED
  BY <1>1, Invariance, PTL

\* However many runs overlap, and whatever is submitted, approved, edited or closed
\* meanwhile, a run commits over the rows it read.
THEOREM RunsOwnTheirRows == Spec => []RunOwnsItsRows
<1>1. IInv => RunOwnsItsRows
  BY DEF IInv, RunSound, RunOwnsItsRows
<1>2. QED
  BY <1>1, Invariance, PTL

\* A reminder goes out once, and again only for a run that was rolled back.
THEOREM SentOncePerFault == Spec => []NotSentTwice
<1>1. IInv => NotSentTwice
  BY DEF IInv
<1>2. QED
  BY <1>1, Invariance, PTL

\* A recurring reminder never has two next occurrences.
THEOREM ChainsDoNotFork == Spec => []OneNextOccurrence
<1>1. IInv => OneNextOccurrence
  BY DEF IInv
<1>2. QED
  BY <1>1, Invariance, PTL

\* A recurring reminder that nobody took off has a next occurrence.
THEOREM ChainsGoOn == Spec => []RecursForever
<1>1. IInv => RecursForever
  BY DEF IInv
<1>2. QED
  BY <1>1, Invariance, PTL

\* No run brings a reminder back behind a submission or an approval.
THEOREM NothingComesBack == Spec => QuietStaysQuiet
<1>1. IInv /\ [Next]_vars => [Quiet]_vars
  BY Inductive
<1>2. QED
  BY <1>1, Invariance, PTL DEF Spec, QuietStaysQuiet, Quiet
================================================================================
