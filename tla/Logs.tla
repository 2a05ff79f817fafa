---------------------------------- MODULE Logs ----------------------------------
(***************************************************************************)
(* The log of filtered packets: firewall_module/source/FWLogs.c, a linked  *)
(* list of records between logHead and logEnd with its length in logNum,   *)
(* behind the rwlock logLock.  Packets append (addLog, insertLog), and     *)
(* whoever finds the list longer than MAX_LOG_LEN trims it (updateLog).    *)
(*                                                                         *)
(* insertLog looks at logNum after it has dropped the lock, so the insert, *)
(* the look and every turn of the trimming loop are steps of their own.    *)
(* Records are numbered in the order of their insertion.                   *)
(*                                                                         *)
(* In hook_main a record is written only when needLog, read through a node *)
(* pointer that may be stale (ConnPool), happens not to be zero, or when a *)
(* matching rule asks for it, which matchFWRules never lets happen.        *)
(***************************************************************************)
EXTENDS Integers, FiniteSets, SequencesExt

CONSTANTS
    Ctx,          \* packet contexts that log
    Client,       \* clients that ask for the log
    NoCtx,        \* nobody holds logLock for writing
    MAX_LOG_LEN,  \* records kept
    MaxInserts,   \* bound: records inserted in a behaviour
    MaxAsked      \* bound: records a client asks for

ASSUME LogsAssumption ==
    /\ IsFiniteSet(Ctx) /\ NoCtx \notin Ctx
    /\ MAX_LOG_LEN \in Nat \ {0} /\ MaxInserts \in Nat /\ MaxAsked \in Nat

VARIABLES
    logs,    \* the records from logHead on
    logEnd,  \* the record logEnd points to
    logNum,  \* logNum
    writer,  \* the context that trims, under write_lock
    at,      \* where each context is in insertLog
    born,    \* how many records were inserted so far
    shown    \* the records of the last answer to each client

logVars == <<logs, logEnd, logNum, writer, at, born, shown>>

\* The NULL pointer: records are numbered from 1.
NoLog == 0

First(s) == IF s = <<>> THEN NoLog ELSE s[1]

LogsInit ==
    /\ logs = <<>> /\ logEnd = NoLog /\ logNum = 0
    /\ writer = NoCtx
    /\ at = [c \in Ctx |-> "idle"]
    /\ born = 0
    /\ shown = [u \in Client |-> <<>>]

--------------------------------------------------------------------------------
\* insertLog up to its second write_unlock.  The record goes behind logEnd: were
\* logEnd not the last record, nobody would find it from logHead.  Without memory
\* for the record insertLog changes nothing.
InsertLog(c) ==
    /\ at[c] = "idle" /\ writer = NoCtx /\ born < MaxInserts
    /\ born' = born + 1 /\ logEnd' = born + 1
    /\ IF logEnd = NoLog
       THEN /\ logs' = <<born + 1>> /\ logNum' = 1
            /\ at' = at
       ELSE /\ logs' = IF Last(logs) = logEnd THEN Append(logs, born + 1) ELSE logs
            /\ logNum' = logNum + 1
            /\ at' = [at EXCEPT ![c] = "look"]
    /\ UNCHANGED <<writer, shown>>

\* Slip: two records above the cap before anybody trims.
LookLate(c) ==
    /\ at[c] = "look"
    /\ at' = [at EXCEPT ![c] = IF logNum > MAX_LOG_LEN + 1 THEN "update" ELSE "idle"]
    /\ UNCHANGED <<logs, logEnd, logNum, writer, born, shown>>

\* insertLog compares logNum with the cap, without the lock.
Look(c) ==
    /\ at[c] = "look"
    /\ at' = [at EXCEPT ![c] = IF logNum > MAX_LOG_LEN THEN "update" ELSE "idle"]
    /\ UNCHANGED <<logs, logEnd, logNum, writer, born, shown>>

\* updateLog takes the lock.
UpdateLog(c) ==
    /\ at[c] = "update" /\ writer = NoCtx
    /\ writer' = c
    /\ at' = [at EXCEPT ![c] = "trim"]
    /\ UNCHANGED <<logs, logEnd, logNum, born, shown>>

\* Slip: the record goes, logNum stays.
TrimUncounted(c) ==
    /\ at[c] = "trim" /\ logNum > MAX_LOG_LEN /\ logs # <<>>
    /\ logs' = Tail(logs)
    /\ UNCHANGED <<logEnd, logNum, writer, at, born, shown>>

\* Slip: the newest record goes.
TrimNewest(c) ==
    /\ at[c] = "trim" /\ logNum > MAX_LOG_LEN /\ logs # <<>>
    /\ logs' = Front(logs) /\ logNum' = logNum - 1 /\ logEnd' = First(Reverse(logs'))
    /\ UNCHANGED <<writer, at, born, shown>>

\* One turn of updateLog's loop.  If logHead is lost the list starts again at
\* logEnd, and if the last record goes logEnd follows logHead; logNum is then
\* recounted.
Trim(c) ==
    /\ at[c] = "trim" /\ logNum > MAX_LOG_LEN
    /\ logs' = IF logs # <<>> THEN Tail(logs) ELSE IF logEnd = NoLog THEN <<>> ELSE <<logEnd>>
    /\ LET lost == logs = <<>>
           last == logEnd = First(logs)
       IN /\ logEnd' = IF ~lost /\ last THEN First(logs') ELSE logEnd
          /\ logNum' = IF ~lost /\ ~last THEN logNum - 1
                       ELSE IF logEnd' = NoLog THEN 0 ELSE 1
          /\ writer' = IF lost THEN NoCtx ELSE writer
          /\ at' = IF lost THEN [at EXCEPT ![c] = "idle"] ELSE at
    /\ UNCHANGED <<born, shown>>

\* Slip: the loop's early exit is taken for its only one.
TrimForgetsUnlock(c) ==
    /\ at[c] = "trim" /\ logNum <= MAX_LOG_LEN
    /\ at' = [at EXCEPT ![c] = "idle"]
    /\ UNCHANGED <<logs, logEnd, logNum, writer, born, shown>>

\* updateLog gives the lock back.
TrimDone(c) ==
    /\ at[c] = "trim" /\ logNum <= MAX_LOG_LEN
    /\ writer' = NoCtx
    /\ at' = [at EXCEPT ![c] = "idle"]
    /\ UNCHANGED <<logs, logEnd, logNum, born, shown>>

\* Slip: the first n records.
OldestOf(n) == IF n = 0 \/ n > Len(logs) THEN logs ELSE SubSeq(logs, 1, n)

\* What formAllLogItems copies for a client that asks for n records: it skips
\* records until n are left; 0 and too many mean all.
LastOf(n) == IF n = 0 \/ n > Len(logs) THEN logs ELSE SubSeq(logs, Len(logs) - n + 1, Len(logs))

\* formAllLogItems under read_lock; if it gets no memory there is no answer to show.
FormAllLogItems(u) ==
    /\ writer = NoCtx
    /\ \E n \in 0..MaxAsked : shown' = [shown EXCEPT ![u] = LastOf(n)]
    /\ UNCHANGED <<logs, logEnd, logNum, writer, at, born>>

CtxStep(c) == InsertLog(c) \/ Look(c) \/ UpdateLog(c) \/ Trim(c) \/ TrimDone(c)

LogsNext == (\E c \in Ctx : CtxStep(c)) \/ (\E u \in Client : FormAllLogItems(u))

LogsSpec == LogsInit /\ [][LogsNext]_logVars

\* An insertLog in progress goes on.  The queued rwlock serves waiting writers in
\* turn, which is the strong fairness of taking the lock; nobody has to log.
LogsFairness ==
    \A c \in Ctx : SF_logVars(UpdateLog(c)) /\ WF_logVars(Look(c) \/ Trim(c) \/ TrimDone(c))

LogsFairSpec == LogsSpec /\ LogsFairness

--------------------------------------------------------------------------------
\* Contexts between their insert and the end of their trim.
Inserting == {c \in Ctx : at[c] # "idle"}

\* Every variable has its type, and the trimming context is the one that holds the
\* lock.
LogsTypeOK ==
    /\ logs \in Seq(Nat \ {0})
    /\ logEnd \in Nat /\ logNum \in Nat /\ born \in Nat
    /\ at \in [Ctx -> {"idle", "look", "update", "trim"}]
    /\ writer \in Ctx \cup {NoCtx}
    /\ \A c \in Ctx : at[c] = "trim" <=> writer = c
    /\ shown \in [Client -> Seq(Nat \ {0})]

\* logNum is the length of the list and logEnd its last record, whoever is
\* trimming (FWLogs.c:21-29, :59-61): the unlocked look at logNum reads the truth
\* of that moment, and no record is appended to one that was freed.
LogNumExact ==
    /\ logNum = Len(logs)
    /\ logEnd = IF logs = <<>> THEN NoLog ELSE Last(logs)

\* The list exceeds MAX_LOG_LEN by no more than the inserts in progress, although
\* the test at FWLogs.c:63 comes after the unlock: no context leaves while its
\* record is one too many and nobody else is about to trim.
CapOvershoot == Len(logs) <= MAX_LOG_LEN + Cardinality(Inserting)

\* The list holds the newest records, without a gap, and as many of them as the
\* cap allows: trims that race never take one too many (FWLogs.c:12, comment at
\* :5, "keep the newest records").
NewestKept ==
    /\ \A i \in DOMAIN logs : logs[i] = born - Len(logs) + i
    /\ Len(logs) >= (IF born < MAX_LOG_LEN THEN born ELSE MAX_LOG_LEN)

\* A client that asks again never sees an older end of the log than before, and
\* sees consecutive records up to the newest one (FWLogs.c:127-136).
ShownInOrder ==
    [][\A u \in Client : shown'[u] # shown[u] /\ shown[u] # <<>> =>
          /\ shown'[u] # <<>> /\ Last(shown'[u]) >= Last(shown[u])
          /\ \A i \in DOMAIN shown'[u] : shown'[u][i] = born - Len(shown'[u]) + i]_logVars

\* After a burst the list comes back to the cap (FWLogs.c:63-64).
BurstSettles == []<>(Len(logs) <= MAX_LOG_LEN)
================================================================================
