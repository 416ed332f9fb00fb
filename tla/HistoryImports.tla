--------------------------- MODULE HistoryImports ---------------------------
(***************************************************************************)
(* Uploads of Flex reports: PreviewImport, GetImport and CommitImport of   *)
(* internal/history/service.go and their transactions in                   *)
(* internal/store/activity_jobs.go.  A preview is stored in two            *)
(* transactions, its records first and then its evidence; it is committed  *)
(* in one, by as many requests as the user sends.  What the job makes of   *)
(* it is in HistoryJobs.                                                   *)
(***************************************************************************)
EXTENDS Integers, FiniteSets

CONSTANTS
    Imports,        \* ids of uploaded reports
    NoImport,
    Handlers,       \* handlers of concurrent API requests
    NoHandler,
    UserOf          \* [Handlers -> users]

ASSUME ImportsAssumption == NoImport \notin Imports /\ NoHandler \notin Handlers

VARIABLES
    importStatus,   \* broker_history_imports.status, none before the insert
    author,         \*   created_by, as one of the author's handlers
    importEvidence,       \*   whether evidence and snapshots are those of the report
    expired,        \*   expires_at has passed
    committed,      \*   job_id is set
    created,        \* jobs created for the import
    active,         \* whether one is queued, running or waiting to be retried
    rowLock,        \* the transaction that holds the import's row
    answered,       \* imports whose preview a client has received
    stage,          \* where each handler is
    subject         \* the import it works on

importRows == <<importStatus, author, importEvidence, expired, committed>>
importVars == <<importRows, created, active, rowLock, answered, stage, subject>>

Stages == {"idle", "saving", "locking", "deciding", "inserting"}

ImportsTypeOK ==
    /\ importStatus \in [Imports -> {"none", "preview", "needs_action", "committed"}]
    /\ author \in [Imports -> Handlers \cup {NoHandler}]
    /\ {importEvidence, expired, committed, active} \subseteq [Imports -> BOOLEAN]
    /\ created \in [Imports -> Nat]
    /\ rowLock \in [Imports -> Handlers \cup {NoHandler}]
    /\ answered \subseteq Imports
    /\ stage \in [Handlers -> Stages] /\ subject \in [Handlers -> Imports \cup {NoImport}]

ImportsInit ==
    /\ importStatus = [i \in Imports |-> "none"] /\ author = [i \in Imports |-> NoHandler]
    /\ importEvidence = [i \in Imports |-> FALSE] /\ expired = [i \in Imports |-> FALSE]
    /\ committed = [i \in Imports |-> FALSE]
    /\ created = [i \in Imports |-> 0] /\ active = [i \in Imports |-> FALSE]
    /\ rowLock = [i \in Imports |-> NoHandler]
    /\ answered = {}
    /\ stage = [h \in Handlers |-> "idle"] /\ subject = [h \in Handlers |-> NoImport]

Move(h, to) == stage' = [stage EXCEPT ![h] = to]
Leave(h) == Move(h, "idle") /\ subject' = [subject EXCEPT ![h] = NoImport]
Unlock(i) == rowLock' = [rowLock EXCEPT ![i] = NoHandler]

-----------------------------------------------------------------------------
(***************************************************************************)
(* PreviewImport                                                           *)
(***************************************************************************)
\* The id is known before the evidence is stored.
CreateAnswered(h, i) == answered \cup {i}

CreateAnswers(h, i) == answered

\* CreateHistoryImport.  A report that does not parse, or names unknown accounts, is refused
\* before; an account that was removed since then makes the preview unusable.
PreviewImport(h, i) ==
    /\ stage[h] = "idle" /\ importStatus[i] = "none"
    /\ \E s \in {"preview", "needs_action"} : importStatus' = [importStatus EXCEPT ![i] = s]
    /\ author' = [author EXCEPT ![i] = h]
    /\ Move(h, "saving") /\ subject' = [subject EXCEPT ![h] = i]
    /\ answered' = CreateAnswers(h, i)
    /\ UNCHANGED <<importEvidence, expired, committed, created, active, rowLock>>

\* SaveHistoryImportEvidence updates a preview only, and only then is the id returned; the
\* row of a request that fails here stays behind.
SaveHistoryImportEvidence(h) ==
    LET i == subject[h] IN
    /\ stage[h] = "saving"
    /\ \/ /\ importStatus[i] = "preview" /\ rowLock[i] = NoHandler
          /\ importEvidence' = [importEvidence EXCEPT ![i] = TRUE]
          /\ answered' = answered \cup {i}
       \/ UNCHANGED <<importEvidence, answered>>
    /\ Leave(h)
    /\ UNCHANGED <<importStatus, author, expired, committed, created, active, rowLock>>

\* 24 hours after the preview.
Expire(i) ==
    /\ importStatus[i] # "none" /\ ~expired[i]
    /\ expired' = [expired EXCEPT ![i] = TRUE]
    /\ UNCHANGED <<importStatus, author, importEvidence, committed, created, active, rowLock,
                   answered, stage, subject>>

-----------------------------------------------------------------------------
(***************************************************************************)
(* CommitImport                                                            *)
(***************************************************************************)
\* GetImport: the id is one the client was given, by a request of the same user.
CommitImport(h, i) ==
    /\ stage[h] = "idle" /\ i \in answered
    /\ UserOf[author[i]] = UserOf[h]
    /\ Move(h, "locking") /\ subject' = [subject EXCEPT ![h] = i]
    /\ UNCHANGED <<importRows, created, active, rowLock, answered>>

\* The row is not locked by the first statement.
LockNothing(h) ==
    /\ stage[h] = "locking"
    /\ Move(h, "deciding")
    /\ UNCHANGED <<importRows, created, active, rowLock, answered, subject>>

\* UPDATE ... SET status=status
LockRow(h) ==
    /\ stage[h] = "locking" /\ rowLock[subject[h]] = NoHandler
    /\ rowLock' = [rowLock EXCEPT ![subject[h]] = h]
    /\ Move(h, "deciding")
    /\ UNCHANGED <<importRows, created, active, answered, subject>>

\* A committed import answers with its job, an expired or unusable one with an error.
Refused(i) == committed[i] \/ expired[i] \/ importStatus[i] # "preview"

Decide(h) ==
    /\ stage[h] = "deciding"
    /\ IF Refused(subject[h]) THEN Leave(h) /\ Unlock(subject[h])
       ELSE Move(h, "inserting") /\ UNCHANGED <<subject, rowLock>>
    /\ UNCHANGED <<importRows, created, active, answered>>

\* createHistoryJobTx, unless an active job of the same request exists, and the link to it,
\* both seen by others when the transaction commits.
Commit(h) ==
    LET i == subject[h] IN
    /\ stage[h] = "inserting"
    /\ created' = [created EXCEPT ![i] = IF active[i] THEN @ ELSE @ + 1]
    /\ active' = [active EXCEPT ![i] = TRUE]
    /\ importStatus' = [importStatus EXCEPT ![i] = "committed"]
    /\ committed' = [committed EXCEPT ![i] = TRUE]
    /\ Leave(h) /\ Unlock(i)
    /\ UNCHANGED <<author, importEvidence, expired, answered>>

\* The request is cancelled, the transaction fails or the process ends: it is rolled back.
RollBack(h) ==
    /\ stage[h] \in Stages \ {"idle", "saving"}
    /\ Leave(h)
    /\ rowLock' = [i \in Imports |-> IF rowLock[i] = h THEN NoHandler ELSE rowLock[i]]
    /\ UNCHANGED <<importRows, created, active, answered>>

\* The job is complete, failed or waits for the user.
JobEnds(i) ==
    /\ active[i] /\ active' = [active EXCEPT ![i] = FALSE]
    /\ UNCHANGED <<importRows, created, rowLock, answered, stage, subject>>

ImportsNext ==
    \/ \E h \in Handlers :
        \/ \E i \in Imports : PreviewImport(h, i) \/ CommitImport(h, i)
        \/ SaveHistoryImportEvidence(h) \/ LockRow(h) \/ Decide(h) \/ Commit(h) \/ RollBack(h)
    \/ \E i \in Imports : Expire(i) \/ JobEnds(i)

ImportsSpec == ImportsInit /\ [][ImportsNext]_importVars

-----------------------------------------------------------------------------
(***************************************************************************)
(* Properties                                                              *)
(***************************************************************************)
\* "Concurrent commits return the same durable job, including after the job completes": however
\* many requests commit an import, one job is created for it, from a preview that was usable and
\* whose evidence was stored by then.
ImportedOnce ==
    \A i \in Imports :
        /\ created[i] <= 1
        /\ created[i] = 1 <=> committed[i]
        /\ committed[i] => importStatus[i] = "committed" /\ importEvidence[i]
=============================================================================
