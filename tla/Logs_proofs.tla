------------------------------ MODULE Logs_proofs ------------------------------
(* Proofs about Logs, for every number of packet contexts and every cap. *)
EXTENDS Logs, FiniteSetTheorems, SequenceTheorems, TLAPS

\* What is sound about the list at every moment.
LogsInv == LogsTypeOK /\ LogNumExact /\ NewestKept

\* Nothing is shown that was not inserted.
ShownBorn == \A u \in Client : \A i \in DOMAIN shown[u] : shown[u][i] <= born

--------------------------------------------------------------------------------
\* The first record of a list that has one, and the last.
LEMMA Ends ==
    ASSUME NEW s \in Seq(Nat \ {0}), s # <<>>
    PROVE  /\ Len(s) \in Nat \ {0}
           /\ First(s) = s[1] /\ Last(s) = s[Len(s)] /\ Last(s) \in Nat \ {0}
           /\ Tail(s) \in Seq(Nat \ {0}) /\ Len(Tail(s)) = Len(s) - 1
           /\ \A i \in 1..(Len(s) - 1) : Tail(s)[i] = s[i + 1]
<1>1. Len(s) \in Nat /\ Len(s) # 0
  BY EmptySeq, LenProperties
<1>2. Last(s) = s[Len(s)] /\ First(s) = s[1]
  BY DEF Last, First
<1>3. s[Len(s)] \in Nat \ {0}
  BY <1>1, ElementOfSeq
<1> QED
  BY <1>1, <1>2, <1>3, HeadTailProperties

\* The machine starts without records.
LEMMA InitLogs == LogsInit => LogsInv /\ ShownBorn
  BY LogsAssumption DEF LogsInit, LogsInv, LogsTypeOK, LogNumExact, NewestKept, ShownBorn, NoLog

\* insertLog's first critical section keeps the invariant.
LEMMA InsertKeeps ==
    ASSUME LogsInv, ShownBorn, NEW c \in Ctx, InsertLog(c)
    PROVE  LogsInv' /\ ShownBorn'
<1>1. born + 1 \in Nat \ {0} /\ born \in Nat /\ born' = born + 1 /\ logEnd' = born + 1
  BY DEF LogsInv, LogsTypeOK, InsertLog
<1>2. CASE logEnd = NoLog
  <2>1. logs = <<>>
    BY <1>2, Ends DEF LogsInv, LogNumExact, LogsTypeOK, NoLog
  <2>2. born = 0
    BY <2>1, LogsAssumption DEF LogsInv, NewestKept, LogsTypeOK
  <2>3. logs' = <<1>> /\ logNum' = 1 /\ at' = at
    BY <1>2, <2>2 DEF InsertLog
  <2> QED
    BY <1>1, <2>2, <2>3, LogsAssumption
    DEF LogsInv, LogsTypeOK, LogNumExact, NewestKept, ShownBorn, InsertLog, Last, NoLog
<1>3. CASE logEnd # NoLog
  <2>1. logs # <<>> /\ Last(logs) = logEnd
    BY <1>3 DEF LogsInv, LogNumExact
  <2>2. /\ logs' = Append(logs, born + 1) /\ logNum' = logNum + 1
        /\ at' = [at EXCEPT ![c] = "look"]
    BY <1>3, <2>1 DEF InsertLog
  <2>3. /\ logs' \in Seq(Nat \ {0}) /\ Len(logs') = Len(logs) + 1
        /\ \A i \in 1..Len(logs) : logs'[i] = logs[i]
        /\ logs'[Len(logs) + 1] = born + 1
        /\ Len(logs) \in Nat
    BY <1>1, <2>2, AppendProperties, LenProperties DEF LogsInv, LogsTypeOK
  <2>4. LogsTypeOK'
    BY <1>1, <2>2, <2>3 DEF LogsInv, LogsTypeOK, InsertLog
  <2>5. LogNumExact'
    BY <1>1, <2>2, <2>3, LenProperties, EmptySeq DEF LogsInv, LogNumExact, Last
  <2>6. NewestKept'
    <3>1. DOMAIN logs = 1..Len(logs) /\ DOMAIN logs' = 1..(Len(logs) + 1)
      BY <2>3, LenProperties DEF LogsInv, LogsTypeOK
    <3>2. ASSUME NEW i \in DOMAIN logs' PROVE logs'[i] = born' - Len(logs') + i
      <4>1. born' - Len(logs') = born - Len(logs)
        BY <1>1, <2>3
      <4>2. CASE i \in 1..Len(logs)
        BY <2>3, <3>1, <4>1, <4>2 DEF LogsInv, NewestKept
      <4>3. CASE i = Len(logs) + 1
        BY <1>1, <2>3, <4>3
      <4> QED
        BY <2>3, <3>1, <4>2, <4>3
    <3>3. Len(logs') >= (IF born' < MAX_LOG_LEN THEN born' ELSE MAX_LOG_LEN)
      BY <1>1, <2>3, LogsAssumption DEF LogsInv, NewestKept
    <3> QED
      BY <3>2, <3>3 DEF NewestKept
  <2> QED
    BY <1>1, <2>4, <2>5, <2>6 DEF LogsInv, ShownBorn, InsertLog, LogsTypeOK
<1> QED
  BY <1>2, <1>3

\* A turn of the trimming loop has two records at least, so neither of the two
\* branches for lost pointers is ever taken.
LEMMA TrimTakesOldest ==
    ASSUME LogsInv, NEW c \in Ctx, Trim(c)
    PROVE  /\ Len(logs) \in Nat /\ Len(logs) > MAX_LOG_LEN /\ Len(logs) >= 2
           /\ logs' = Tail(logs) /\ logNum' = logNum - 1
           /\ UNCHANGED <<logEnd, writer, at, born, shown>>
<1>1. Len(logs) \in Nat /\ Len(logs) > MAX_LOG_LEN /\ Len(logs) >= 2
  BY LogsAssumption, LenProperties DEF LogsInv, LogsTypeOK, LogNumExact, Trim
<1>2. logs # <<>>
  BY <1>1, EmptySeq
<1>3. logEnd = logs[Len(logs)] /\ First(logs) = logs[1]
  BY <1>2, Ends DEF LogsInv, LogsTypeOK, LogNumExact
<1>4. logs[Len(logs)] = born /\ logs[1] = born - Len(logs) + 1
  BY <1>1, LenProperties DEF LogsInv, LogsTypeOK, NewestKept
<1>5. logEnd # First(logs)
  BY <1>1, <1>3, <1>4 DEF LogsInv, LogsTypeOK
<1> QED
  BY <1>1, <1>2, <1>5 DEF Trim

\* A turn of the trimming loop keeps the invariant.
LEMMA TrimKeeps ==
    ASSUME LogsInv, ShownBorn, NEW c \in Ctx, Trim(c)
    PROVE  LogsInv' /\ ShownBorn'
<1>1. /\ Len(logs) \in Nat /\ Len(logs) > MAX_LOG_LEN /\ Len(logs) >= 2
      /\ logs' = Tail(logs) /\ logNum' = logNum - 1
      /\ UNCHANGED <<logEnd, writer, at, born, shown>>
  BY TrimTakesOldest
<1>2. logs # <<>> /\ logs \in Seq(Nat \ {0}) /\ DOMAIN logs = 1..Len(logs)
  BY <1>1, EmptySeq, LenProperties DEF LogsInv, LogsTypeOK
<1>3. /\ logs' \in Seq(Nat \ {0}) /\ Len(logs') = Len(logs) - 1
      /\ \A i \in 1..(Len(logs) - 1) : logs'[i] = logs[i + 1]
  BY <1>1, <1>2, Ends
<1>4. DOMAIN logs' = 1..(Len(logs) - 1) /\ logs' # <<>>
  <2>1. DOMAIN logs' = 1..(Len(logs) - 1)
    BY <1>3, LenProperties
  <2>2. Len(logs') # 0
    BY <1>1, <1>3
  <2> QED
    BY <2>1, <2>2
<1>5. LogsTypeOK'
  BY <1>1, <1>3 DEF LogsInv, LogsTypeOK, LogNumExact
<1>6. LogNumExact'
  BY <1>1, <1>2, <1>3, <1>4, Ends DEF LogsInv, LogNumExact, Last
<1>7. NewestKept'
  <2>1. \A i \in DOMAIN logs' : logs'[i] = born' - Len(logs') + i
    <3> SUFFICES ASSUME NEW i \in 1..(Len(logs) - 1) PROVE logs'[i] = born' - Len(logs') + i
      BY <1>4
    <3>1. i + 1 \in DOMAIN logs /\ logs'[i] = logs[i + 1]
      BY <1>1, <1>2, <1>3
    <3>2. logs[i + 1] = born - Len(logs) + (i + 1)
      BY <3>1 DEF LogsInv, NewestKept
    <3>3. born \in Nat /\ born' = born
      BY <1>1 DEF LogsInv, LogsTypeOK
    <3> QED
      BY <1>1, <1>3, <3>1, <3>2, <3>3
  <2>2. Len(logs') >= (IF born' < MAX_LOG_LEN THEN born' ELSE MAX_LOG_LEN)
    BY <1>1, <1>3, LogsAssumption DEF LogsInv, LogsTypeOK
  <2> QED
    BY <2>1, <2>2 DEF NewestKept
<1> QED
  BY <1>1, <1>5, <1>6, <1>7 DEF LogsInv, ShownBorn

\* An answer ends with the newest record and has no gap.
LEMMA AnswerIsSuffix ==
    ASSUME LogsInv, NEW n \in Nat
    PROVE  /\ LastOf(n) \in Seq(Nat \ {0})
           /\ LastOf(n) = <<>> <=> logs = <<>>
           /\ \A i \in DOMAIN LastOf(n) : LastOf(n)[i] = born - Len(LastOf(n)) + i
<1>1. logs \in Seq(Nat \ {0}) /\ Len(logs) \in Nat /\ DOMAIN logs = 1..Len(logs) /\ born \in Nat
  BY LenProperties DEF LogsInv, LogsTypeOK
<1>2. \A i \in 1..Len(logs) : logs[i] = born - Len(logs) + i
  BY <1>1 DEF LogsInv, NewestKept
<1>3. CASE n = 0 \/ n > Len(logs)
  BY <1>1, <1>2, <1>3 DEF LastOf
<1>4. CASE ~(n = 0 \/ n > Len(logs))
  <2>1. LastOf(n) = SubSeq(logs, Len(logs) - n + 1, Len(logs))
    BY <1>4 DEF LastOf
  <2>2. /\ LastOf(n) \in Seq(Nat \ {0}) /\ Len(LastOf(n)) = n
        /\ \A i \in 1..n : LastOf(n)[i] = logs[Len(logs) - n + i]
    <3> DEFINE m == Len(logs) - n + 1
    <3>1. /\ m \in 1..(Len(logs) + 1) /\ Len(logs) \in (m - 1)..Len(logs)
          /\ Len(logs) - m + 1 = n /\ \A i \in 1..n : m + i - 1 = Len(logs) - n + i
          /\ m <= Len(logs)
      BY <1>1, <1>4
    <3> HIDE DEF m
    <3>2. /\ SubSeq(logs, m, Len(logs)) \in Seq(Nat \ {0})
          /\ Len(SubSeq(logs, m, Len(logs))) = Len(logs) - m + 1
          /\ \A i \in 1..(Len(logs) - m + 1) : SubSeq(logs, m, Len(logs))[i] = logs[m + i - 1]
      BY <1>1, <3>1, SubSeqProperties
    <3>3. LastOf(n) = SubSeq(logs, m, Len(logs))
      BY <2>1 DEF m
    <3> QED
      BY <3>1, <3>2, <3>3
  <2>3. DOMAIN LastOf(n) = 1..n /\ LastOf(n) # <<>> /\ logs # <<>>
    BY <1>1, <1>4, <2>2, LenProperties, EmptySeq
  <2> QED
    BY <1>1, <1>2, <1>4, <2>2, <2>3
<1> QED
  BY <1>3, <1>4

\* A listing keeps the invariant.
LEMMA FormKeeps ==
    ASSUME LogsInv, ShownBorn, NEW u \in Client, FormAllLogItems(u)
    PROVE  LogsInv' /\ ShownBorn'
<1>1. PICK n \in 0..MaxAsked : shown' = [shown EXCEPT ![u] = LastOf(n)]
  BY DEF FormAllLogItems
<1>2. n \in Nat
  BY LogsAssumption
<1>3. UNCHANGED <<logs, logEnd, logNum, writer, at, born>>
  BY DEF FormAllLogItems
<1>4. LogsTypeOK'
  BY <1>1, <1>2, <1>3, AnswerIsSuffix DEF LogsInv, LogsTypeOK
<1>5. \A i \in DOMAIN LastOf(n) : LastOf(n)[i] <= born
  <2>1. LastOf(n) \in Seq(Nat \ {0}) /\ born \in Nat
    BY <1>2, AnswerIsSuffix DEF LogsInv, LogsTypeOK
  <2>2. DOMAIN LastOf(n) = 1..Len(LastOf(n)) /\ Len(LastOf(n)) \in Nat
    BY <2>1, LenProperties
  <2>3. \A i \in DOMAIN LastOf(n) : LastOf(n)[i] = born - Len(LastOf(n)) + i
    BY <1>2, AnswerIsSuffix
  <2> HIDE DEF LastOf
  <2> QED
    BY <2>1, <2>2, <2>3
<1>6. ShownBorn'
  BY <1>1, <1>3, <1>5 DEF ShownBorn, LogsInv, LogsTypeOK
<1> QED
  BY <1>3, <1>4, <1>6 DEF LogsInv, LogNumExact, NewestKept

\* The list stays sound under every step.
LEMMA StepKeeps == LogsInv /\ ShownBorn /\ [LogsNext]_logVars => LogsInv' /\ ShownBorn'
<1> SUFFICES ASSUME LogsInv, ShownBorn, [LogsNext]_logVars PROVE LogsInv' /\ ShownBorn'
  OBVIOUS
<1>1. ASSUME NEW c \in Ctx, Look(c) \/ UpdateLog(c) \/ TrimDone(c) PROVE LogsInv' /\ ShownBorn'
  <2>1. LogsTypeOK'
    BY <1>1, LogsAssumption DEF LogsInv, LogsTypeOK, Look, UpdateLog, TrimDone
  <2> QED
    BY <1>1, <2>1 DEF LogsInv, LogNumExact, NewestKept, ShownBorn, Look, UpdateLog, TrimDone
<1>2. ASSUME UNCHANGED logVars PROVE LogsInv' /\ ShownBorn'
  BY <1>2 DEF logVars, LogsInv, LogsTypeOK, LogNumExact, NewestKept, ShownBorn
<1> QED
  BY <1>1, <1>2, InsertKeeps, TrimKeeps, FormKeeps DEF LogsNext, CtxStep

--------------------------------------------------------------------------------
\* The contexts inside insertLog can be counted.
LEMMA InsertingFinite == IsFiniteSet(Inserting) /\ Cardinality(Inserting) \in Nat
  BY LogsAssumption, FS_Subset, FS_CardinalityType DEF Inserting

\* An insertion adds one record and one context that is not done with it.
LEMMA InsertBound ==
    ASSUME LogsInv, CapOvershoot, NEW c \in Ctx, InsertLog(c)
    PROVE  CapOvershoot'
<1>1. CASE logEnd = NoLog
  <2>1. logs' = <<born + 1>> /\ at' = at
    BY <1>1 DEF InsertLog
  <2> QED
    BY <2>1, InsertingFinite, LogsAssumption DEF CapOvershoot, Inserting
<1>2. CASE logEnd # NoLog
  <2>1. at[c] = "idle" /\ at' = [at EXCEPT ![c] = "look"] /\ at \in [Ctx -> {"idle", "look", "update", "trim"}]
    BY <1>2 DEF InsertLog, LogsInv, LogsTypeOK
  <2>2. Inserting' = Inserting \cup {c} /\ c \notin Inserting
    BY <2>1 DEF Inserting
  <2>3. Cardinality(Inserting') = Cardinality(Inserting) + 1
    BY <2>2, InsertingFinite, FS_AddElement
  <2>4. logs' = Append(logs, born + 1)
    BY <1>2 DEF InsertLog, LogsInv, LogNumExact
  <2>5. Len(logs') = Len(logs) + 1 /\ Len(logs) \in Nat
    BY <2>4, AppendProperties, LenProperties DEF LogsInv, LogsTypeOK
  <2> QED
    BY <2>3, <2>5, InsertingFinite, LogsAssumption DEF CapOvershoot
<1> QED
  BY <1>1, <1>2

\* A context that finds the list within the cap leaves; one that finds it longer
\* stays.  Either way the records above the cap have a context each.
LEMMA LeaveBound ==
    ASSUME LogsInv, CapOvershoot, NEW c \in Ctx, Look(c) \/ TrimDone(c)
    PROVE  CapOvershoot'
<1>1. logs' = logs /\ Len(logs) \in Nat /\ logNum = Len(logs) /\ at \in [Ctx -> {"idle", "look", "update", "trim"}]
  BY LenProperties DEF Look, TrimDone, LogsInv, LogNumExact, LogsTypeOK
<1>2. CASE logNum <= MAX_LOG_LEN
  <2>1. IsFiniteSet(Inserting') /\ Cardinality(Inserting') \in Nat
    BY LogsAssumption, FS_Subset, FS_CardinalityType DEF Inserting
  <2> QED
    BY <1>1, <1>2, <2>1, LogsAssumption DEF CapOvershoot
<1>3. CASE logNum > MAX_LOG_LEN
  <2>1. at[c] = "look" /\ at' = [at EXCEPT ![c] = "update"]
    BY <1>1, <1>3, LogsAssumption DEF Look, TrimDone
  <2>2. Inserting' = Inserting
    BY <1>1, <2>1 DEF Inserting
  <2> QED
    BY <1>1, <2>2 DEF CapOvershoot
<1> QED
  BY <1>1, <1>2, <1>3, LogsAssumption

\* Every step keeps the bound on the overshoot.
LEMMA StepBound == LogsInv /\ CapOvershoot /\ [LogsNext]_logVars => CapOvershoot'
<1> SUFFICES ASSUME LogsInv, CapOvershoot, [LogsNext]_logVars PROVE CapOvershoot'
  OBVIOUS
<1>1. ASSUME NEW c \in Ctx, UpdateLog(c) PROVE CapOvershoot'
  <2>1. at[c] = "update" /\ at' = [at EXCEPT ![c] = "trim"] /\ at \in [Ctx -> {"idle", "look", "update", "trim"}]
    BY <1>1 DEF UpdateLog, LogsInv, LogsTypeOK
  <2>2. Inserting' = Inserting
    BY <2>1 DEF Inserting
  <2> QED
    BY <1>1, <2>2 DEF UpdateLog, CapOvershoot
<1>2. ASSUME NEW c \in Ctx, Trim(c) PROVE CapOvershoot'
  <2>1. /\ logs' = Tail(logs) /\ at' = at /\ Len(logs) >= 2 /\ Len(logs) \in Nat
    BY <1>2, TrimTakesOldest
  <2>2. Len(logs') = Len(logs) - 1
    BY <2>1, Ends, EmptySeq DEF LogsInv, LogsTypeOK
  <2>3. Inserting' = Inserting
    BY <2>1 DEF Inserting
  <2> QED
    BY <2>1, <2>2, <2>3, InsertingFinite, LogsAssumption DEF CapOvershoot
<1>3. ASSUME UNCHANGED logVars \/ \E u \in Client : FormAllLogItems(u) PROVE CapOvershoot'
  BY <1>3 DEF logVars, FormAllLogItems, CapOvershoot, Inserting
<1> QED
  BY <1>1, <1>2, <1>3, InsertBound, LeaveBound DEF LogsNext, CtxStep

\* The bound holds at the start.
LEMMA InitBound == LogsInit => CapOvershoot
  BY InsertingFinite, LogsAssumption DEF LogsInit, CapOvershoot

--------------------------------------------------------------------------------
\* Every variable has its type, and the lock is held by whoever trims.
THEOREM LogsTyped == LogsSpec => []LogsTypeOK
<1>1. LogsInv => LogsTypeOK
  BY DEF LogsInv
<1> QED
  BY <1>1, InitLogs, StepKeeps, PTL DEF LogsSpec

\* The counter and the tail pointer agree with the list at every moment, also in
\* the middle of a trim.
THEOREM LogsCounted == LogsSpec => []LogNumExact
<1>1. LogsInv => LogNumExact
  BY DEF LogsInv
<1> QED
  BY <1>1, InitLogs, StepKeeps, PTL DEF LogsSpec

\* The list is always the newest records, and no trim takes one too many.
THEOREM LogsKeepNewest == LogsSpec => []NewestKept
<1>1. LogsInv => NewestKept
  BY DEF LogsInv
<1> QED
  BY <1>1, InitLogs, StepKeeps, PTL DEF LogsSpec

\* However many packets log at once, the list exceeds the cap by no more than them.
THEOREM LogsBounded == LogsSpec => []CapOvershoot
  BY InitLogs, InitBound, StepKeeps, StepBound, PTL DEF LogsSpec

\* An answer never shows less of the log's end than an earlier one.
THEOREM LogsShownInOrder == LogsSpec => ShownInOrder
<1> DEFINE Advances ==
        \A u \in Client : shown'[u] # shown[u] /\ shown[u] # <<>> =>
            /\ shown'[u] # <<>> /\ Last(shown'[u]) >= Last(shown[u])
            /\ \A i \in DOMAIN shown'[u] : shown'[u][i] = born - Len(shown'[u]) + i
<1>1. ASSUME LogsInv, ShownBorn, [LogsNext]_logVars PROVE [Advances]_logVars
  <2> SUFFICES ASSUME LogsNext, NEW u \in Client, shown'[u] # shown[u], shown[u] # <<>>
               PROVE  /\ shown'[u] # <<>> /\ Last(shown'[u]) >= Last(shown[u])
                      /\ \A i \in DOMAIN shown'[u] : shown'[u][i] = born - Len(shown'[u]) + i
    BY <1>1
  <2>1. \A c \in Ctx : CtxStep(c) => shown' = shown
    BY DEF CtxStep, InsertLog, Look, UpdateLog, Trim, TrimDone
  <2>2. PICK v \in Client : FormAllLogItems(v)
    BY <2>1 DEF LogsNext
  <2>3. PICK n \in 0..MaxAsked : shown' = [shown EXCEPT ![v] = LastOf(n)]
    BY <2>2 DEF FormAllLogItems
  <2>4. n \in Nat /\ shown \in [Client -> Seq(Nat \ {0})] /\ born \in Nat
    BY <1>1, LogsAssumption DEF LogsInv, LogsTypeOK
  <2>5. u = v /\ shown'[u] = LastOf(n)
    BY <2>3, <2>4
  <2>6. Last(shown[u]) <= born /\ Last(shown[u]) \in Nat \ {0}
    <3>1. shown[u] \in Seq(Nat \ {0}) /\ Last(shown[u]) = shown[u][Len(shown[u])]
          /\ Len(shown[u]) \in 1..Len(shown[u]) /\ Last(shown[u]) \in Nat \ {0}
      BY <2>4, Ends
    <3>2. DOMAIN shown[u] = 1..Len(shown[u])
      BY <3>1, LenProperties
    <3> QED
      BY <1>1, <3>1, <3>2 DEF ShownBorn
  <2>7. logs # <<>>
    BY <1>1, <2>4, <2>6, LogsAssumption DEF LogsInv, NewestKept
  <2>8. /\ LastOf(n) \in Seq(Nat \ {0}) /\ LastOf(n) # <<>>
        /\ \A i \in DOMAIN LastOf(n) : LastOf(n)[i] = born - Len(LastOf(n)) + i
    BY <1>1, <2>4, <2>7, AnswerIsSuffix
  <2>9. Last(LastOf(n)) = born
    <3>1. Last(LastOf(n)) = LastOf(n)[Len(LastOf(n))] /\ Len(LastOf(n)) \in Nat \ {0}
      BY <2>8, Ends
    <3>2. Len(LastOf(n)) \in DOMAIN LastOf(n)
      BY <2>8, <3>1, LenProperties
    <3> QED
      BY <2>4, <2>8, <3>1, <3>2
  <2> QED
    BY <2>4, <2>5, <2>6, <2>8, <2>9
<1>2. LogsInv /\ ShownBorn /\ [LogsNext]_logVars => [Advances]_logVars
  BY <1>1
<1> QED
  BY <1>2, InitLogs, StepKeeps, PTL DEF LogsSpec, ShownInOrder
================================================================================
