---------------------------- MODULE RemoteJobProofs ---------------------------
(***************************************************************************)
(* Proofs about one job of the Daytona backend, for every budget, set of   *)
(* amounts and receipts, and number of deaths: it works the ledger only    *)
(* through the ledger's own operations; only an invoice closes the bill of *)
(* an attempt that had a sandbox; no result is written before the sandbox  *)
(* is gone; and the stores agree when the worker has ended.                *)
(***************************************************************************)
EXTENDS RemoteJob, JobLedgerProofs

Early == {"none", "prepare", "create", "lookup", "discard", "run", "delete"}

\* What a worker's call of update_job can be about.
Called ==
  pc \in Updating =>
    /\ update.next \in {"persisted", "leave", "matchFailed", "lastFailed", "terminate"}
    /\ update.status = "completed" <=> update.next \in {"persisted", "leave"}
    /\ backup => update.next \in Importing \/ "restore" \in broken

Result ==
  backup \/ files # "old" \/ extras # "old" \/ match = "ready" \/ row = "completed" \/ pointer = "new"

\* The phases of a worker against its sandbox.
DeletedFirst ==
  /\ DeletedBeforeImport
  /\ pc = "none" => sandbox = "none"
  /\ pc \in Early => ~Result
  /\ pc \in Importing \cup {"received", "import", "activate"} => sandbox = "gone"
  /\ pc \in Updating /\ update.next \in Importing => sandbox = "gone"

OldResult == files = "old" /\ pointer = "old" /\ match # "ready"

\* What the stores hold in each phase, as long as nothing broke.
Agreeing ==
  broken = {} =>
    /\ pc \in Early \cup {"received", "import"} => OldResult /\ row # "completed"
    /\ pc \in Importing \cup {"activate"} \cup Updating => pointer = "old"
    /\ pc = "persisted" => match = "ready" /\ row = "completed"
    /\ pc \in Updating /\ update.next = "persisted" => match = "ready"
    /\ pc \in {"leave", "activate"} =>
         files = "new" /\ extras = "new" /\ match = "ready" /\ row = "completed"
    /\ pc \in Updating /\ update.next = "leave" => files = "new" /\ extras = "new" /\ match = "ready"
    /\ pc \in {"handler", "cancelled"} => OldResult
    /\ pc \in Updating /\ update.next \notin Importing => OldResult
    /\ pc \in {"matchFailed", "finally", "lastFailed", "terminate", "cleanup"} =>
         OldResult /\ row # "completed"
    /\ StoresAgree

WorkerInv == RemoteTypeOK /\ Called /\ DeletedFirst /\ Agreeing

-----------------------------------------------------------------------------
(* The worker's own state.                                                  *)

\* What stays the same keeps the invariant.
LEMMA WorkerStays ==
  ASSUME WorkerInv, UNCHANGED <<remote, stored, around>>
  PROVE  WorkerInv'
  BY DEF WorkerInv, remote, stored, around, RemoteTypeOK, Called, DeletedFirst, Agreeing,
     DeletedBeforeImport, Result, OldResult, StoresAgree

\* The calls of update_job, and the labels a worker goes to, are typed.
LEMMA NextUpdate ==
  /\ NoUpdate \in Updates
  /\ \A status \in {"completed", "failed", "cancelled"}, next \in Importing \cup Outside :
       [status |-> status, next |-> next] \in Updates
<1>1. ASSUME NEW status \in {"completed", "failed", "cancelled"}, NEW next \in Importing \cup Outside
      PROVE  [status |-> status, next |-> next] \in [status : {"completed", "failed", "cancelled"}, next : Importing \cup Outside]
  BY <1>1
<1> QED
  BY <1>1 DEF Updates

LEMMA SandboxStepsKeep ==
  ASSUME WorkerInv, Prepare \/ Create \/ Lookup \/ Discard \/ Run \/ Delete
  PROVE  WorkerInv'
<1> USE DEF stored, around, Goto, Importing, Outside, Updating, Early, Result, OldResult
<1>0. RemoteTypeOK /\ Called /\ DeletedFirst /\ Agreeing
  BY DEF WorkerInv
<1>1. CASE Prepare
  <2>1. RemoteTypeOK'
    BY <1>0, <1>1, NextUpdate DEF RemoteTypeOK, RowStatus, Called, Prepare
  <2>2. Called' /\ DeletedFirst'
    BY <1>0, <1>1 DEF RemoteTypeOK, Called, DeletedFirst, DeletedBeforeImport, NoUpdate, Prepare
  <2>3. Agreeing'
    BY <1>0, <1>1 DEF Called, Agreeing, StoresAgree, NoUpdate, Prepare
  <2> QED
    BY <2>1, <2>2, <2>3 DEF WorkerInv
<1>2. CASE Create
  <2>1. RemoteTypeOK'
    BY <1>0, <1>2, NextUpdate DEF RemoteTypeOK, RowStatus, Called, Create
  <2>2. Called' /\ DeletedFirst'
    BY <1>0, <1>2 DEF RemoteTypeOK, Called, DeletedFirst, DeletedBeforeImport, NoUpdate, Create
  <2>3. Agreeing'
    BY <1>0, <1>2 DEF Called, Agreeing, StoresAgree, NoUpdate, Create
  <2> QED
    BY <2>1, <2>2, <2>3 DEF WorkerInv
<1>3. CASE Lookup
  <2>1. RemoteTypeOK'
    BY <1>0, <1>3, NextUpdate DEF RemoteTypeOK, RowStatus, Called, Lookup
  <2>2. Called' /\ DeletedFirst'
    BY <1>0, <1>3 DEF RemoteTypeOK, Called, DeletedFirst, DeletedBeforeImport, NoUpdate, Lookup
  <2>3. Agreeing'
    BY <1>0, <1>3 DEF Called, Agreeing, StoresAgree, NoUpdate, Lookup
  <2> QED
    BY <2>1, <2>2, <2>3 DEF WorkerInv
<1>4. CASE Discard
  <2>1. RemoteTypeOK'
    BY <1>0, <1>4, NextUpdate DEF RemoteTypeOK, RowStatus, Called, Discard
  <2>2. Called' /\ DeletedFirst'
    BY <1>0, <1>4 DEF RemoteTypeOK, Called, DeletedFirst, DeletedBeforeImport, NoUpdate, Discard
  <2>3. Agreeing'
    BY <1>0, <1>4 DEF Called, Agreeing, StoresAgree, NoUpdate, Discard
  <2> QED
    BY <2>1, <2>2, <2>3 DEF WorkerInv
<1>5. CASE Run
  <2>1. RemoteTypeOK'
    BY <1>0, <1>5, NextUpdate DEF RemoteTypeOK, RowStatus, Called, Run
  <2>2. Called' /\ DeletedFirst'
    BY <1>0, <1>5 DEF RemoteTypeOK, Called, DeletedFirst, DeletedBeforeImport, NoUpdate, Run
  <2>3. Agreeing'
    BY <1>0, <1>5 DEF Called, Agreeing, StoresAgree, NoUpdate, Run
  <2> QED
    BY <2>1, <2>2, <2>3 DEF WorkerInv
<1>6. CASE Delete
  <2>1. RemoteTypeOK'
    <3>1. api' = api /\ probed' \in BOOLEAN /\ got' \in BOOLEAN /\ cleaned' \in BOOLEAN /\ backup' \in BOOLEAN
      BY <1>0, <1>6, Zenon DEF RemoteTypeOK, Delete
    <3>2. pc' \in Importing \cup Outside \cup Updating /\ update' \in Updates
      BY <1>0, <1>6, NextUpdate DEF RemoteTypeOK, Called, Delete
    <3>3. /\ sandbox' \in {"none", "alive", "gone"} /\ row' \in RowStatus
          /\ {files', extras'} \subseteq {"old", "mixed", "new"}
          /\ match' \in {"processing", "ready", "failed"} /\ pointer' \in {"old", "new"}
          /\ broken' \subseteq {"restore", "activation", "report"} /\ faults' \in 0 .. MaxFaults
      BY <1>0, <1>6 DEF RemoteTypeOK, RowStatus, Called, Updates, NoUpdate, Delete
    <3>4. backup' => pc' \in Importing \cup Updating \cup {"dead"} \/ "restore" \in broken'
      BY <1>0, <1>6 DEF RemoteTypeOK, Called, Delete
    <3> QED
      BY <1>0, <3>1, <3>2, <3>3, <3>4 DEF RemoteTypeOK
  <2>2. Called' /\ DeletedFirst'
    BY <1>0, <1>6 DEF RemoteTypeOK, Called, DeletedFirst, DeletedBeforeImport, NoUpdate, Delete
  <2>3. Agreeing'
    BY <1>0, <1>6 DEF Called, Agreeing, StoresAgree, NoUpdate, Delete
  <2> QED
    BY <2>1, <2>2, <2>3 DEF WorkerInv
<1> QED
  BY <1>1, <1>2, <1>3, <1>4, <1>5, <1>6

LEMMA ImportStepsKeep ==
  ASSUME WorkerInv, AcceptResult \/ TakeBackup \/ SaveRows \/ Persist \/ Finish \/ Restore \/ RemoveBackup \/ Activate
  PROVE  WorkerInv'
<1> USE DEF stored, around, Goto, Call, Importing, Outside, Updating, Early, Result, OldResult
<1>0. RemoteTypeOK /\ Called /\ DeletedFirst /\ Agreeing
  BY DEF WorkerInv
<1>1. CASE AcceptResult
  <2>1. RemoteTypeOK'
    BY <1>0, <1>1, NextUpdate DEF RemoteTypeOK, RowStatus, Called, AcceptResult
  <2>2. Called' /\ DeletedFirst'
    BY <1>0, <1>1 DEF RemoteTypeOK, Called, DeletedFirst, DeletedBeforeImport, NoUpdate, AcceptResult
  <2>3. Agreeing'
    BY <1>0, <1>1 DEF Called, Agreeing, StoresAgree, NoUpdate, AcceptResult
  <2> QED
    BY <2>1, <2>2, <2>3 DEF WorkerInv
<1>2. CASE TakeBackup
  <2>1. RemoteTypeOK'
    <3>1. api' = api /\ probed' \in BOOLEAN /\ got' \in BOOLEAN /\ cleaned' \in BOOLEAN /\ backup' \in BOOLEAN
      BY <1>0, <1>2, Zenon DEF RemoteTypeOK, TakeBackup
    <3>2. pc' \in Importing \cup Outside \cup Updating /\ update' \in Updates
      BY <1>0, <1>2, NextUpdate DEF RemoteTypeOK, Called, TakeBackup
    <3>3. /\ sandbox' \in {"none", "alive", "gone"} /\ row' \in RowStatus
          /\ {files', extras'} \subseteq {"old", "mixed", "new"}
          /\ match' \in {"processing", "ready", "failed"} /\ pointer' \in {"old", "new"}
          /\ broken' \subseteq {"restore", "activation", "report"} /\ faults' \in 0 .. MaxFaults
      BY <1>0, <1>2 DEF RemoteTypeOK, RowStatus, Called, Updates, NoUpdate, TakeBackup
    <3>4. backup' => pc' \in Importing \cup Updating \cup {"dead"} \/ "restore" \in broken'
      BY <1>0, <1>2 DEF RemoteTypeOK, Called, TakeBackup
    <3> QED
      BY <1>0, <3>1, <3>2, <3>3, <3>4 DEF RemoteTypeOK
  <2>2. Called' /\ DeletedFirst'
    BY <1>0, <1>2 DEF RemoteTypeOK, Called, DeletedFirst, DeletedBeforeImport, NoUpdate, TakeBackup
  <2>3. Agreeing'
    BY <1>0, <1>2 DEF Called, Agreeing, StoresAgree, NoUpdate, TakeBackup
  <2> QED
    BY <2>1, <2>2, <2>3 DEF WorkerInv
<1>3. CASE SaveRows
  <2>1. RemoteTypeOK'
    BY <1>0, <1>3, NextUpdate DEF RemoteTypeOK, RowStatus, Called, SaveRows
  <2>2. Called' /\ DeletedFirst'
    BY <1>0, <1>3 DEF RemoteTypeOK, Called, DeletedFirst, DeletedBeforeImport, NoUpdate, SaveRows
  <2>3. Agreeing'
    BY <1>0, <1>3 DEF Called, Agreeing, StoresAgree, NoUpdate, SaveRows
  <2> QED
    BY <2>1, <2>2, <2>3 DEF WorkerInv
<1>4. CASE Persist
  <2>1. RemoteTypeOK'
    BY <1>0, <1>4, NextUpdate DEF RemoteTypeOK, RowStatus, Called, Persist
  <2>2. Called' /\ DeletedFirst'
    BY <1>0, <1>4 DEF RemoteTypeOK, Called, DeletedFirst, DeletedBeforeImport, NoUpdate, Persist
  <2>3. Agreeing'
    BY <1>0, <1>4 DEF Called, Agreeing, StoresAgree, NoUpdate, Persist
  <2> QED
    BY <2>1, <2>2, <2>3 DEF WorkerInv
<1>5. CASE Finish
  <2>1. RemoteTypeOK'
    <3>1. api' = api /\ probed' \in BOOLEAN /\ got' \in BOOLEAN /\ cleaned' \in BOOLEAN /\ backup' \in BOOLEAN
      BY <1>0, <1>5, Zenon DEF RemoteTypeOK, Finish
    <3>2. pc' \in Importing \cup Outside \cup Updating /\ update' \in Updates
      BY <1>0, <1>5, NextUpdate DEF RemoteTypeOK, Called, Finish
    <3>3. /\ sandbox' \in {"none", "alive", "gone"} /\ row' \in RowStatus
          /\ {files', extras'} \subseteq {"old", "mixed", "new"}
          /\ match' \in {"processing", "ready", "failed"} /\ pointer' \in {"old", "new"}
          /\ broken' \subseteq {"restore", "activation", "report"} /\ faults' \in 0 .. MaxFaults
      BY <1>0, <1>5 DEF RemoteTypeOK, RowStatus, Called, Updates, NoUpdate, Finish
    <3>4. backup' => pc' \in Importing \cup Updating \cup {"dead"} \/ "restore" \in broken'
      BY <1>0, <1>5 DEF RemoteTypeOK, Called, Finish
    <3> QED
      BY <1>0, <3>1, <3>2, <3>3, <3>4 DEF RemoteTypeOK
  <2>2. Called' /\ DeletedFirst'
    BY <1>0, <1>5 DEF RemoteTypeOK, Called, DeletedFirst, DeletedBeforeImport, NoUpdate, Finish
  <2>3. Agreeing'
    BY <1>0, <1>5 DEF Called, Agreeing, StoresAgree, NoUpdate, Finish
  <2> QED
    BY <2>1, <2>2, <2>3 DEF WorkerInv
<1>6. CASE Restore
  <2>1. RemoteTypeOK'
    <3>1. api' = api /\ probed' \in BOOLEAN /\ got' \in BOOLEAN /\ cleaned' \in BOOLEAN /\ backup' \in BOOLEAN
      BY <1>0, <1>6, Zenon DEF RemoteTypeOK, Restore
    <3>2. pc' \in Importing \cup Outside \cup Updating /\ update' \in Updates
      BY <1>0, <1>6, NextUpdate DEF RemoteTypeOK, Called, Restore
    <3>3. /\ sandbox' \in {"none", "alive", "gone"} /\ row' \in RowStatus
          /\ {files', extras'} \subseteq {"old", "mixed", "new"}
          /\ match' \in {"processing", "ready", "failed"} /\ pointer' \in {"old", "new"}
          /\ broken' \subseteq {"restore", "activation", "report"} /\ faults' \in 0 .. MaxFaults
      BY <1>0, <1>6 DEF RemoteTypeOK, RowStatus, Called, Updates, NoUpdate, Restore
    <3>4. backup' => pc' \in Importing \cup Updating \cup {"dead"} \/ "restore" \in broken'
      BY <1>0, <1>6 DEF RemoteTypeOK, Called, Restore
    <3> QED
      BY <1>0, <3>1, <3>2, <3>3, <3>4 DEF RemoteTypeOK
  <2>2. Called' /\ DeletedFirst'
    BY <1>0, <1>6 DEF RemoteTypeOK, Called, DeletedFirst, DeletedBeforeImport, NoUpdate, Restore
  <2>3. Agreeing'
    BY <1>0, <1>6 DEF Called, Agreeing, StoresAgree, NoUpdate, Restore
  <2> QED
    BY <2>1, <2>2, <2>3 DEF WorkerInv
<1>7. CASE RemoveBackup
  <2>1. RemoteTypeOK'
    <3>1. api' = api /\ probed' \in BOOLEAN /\ got' \in BOOLEAN /\ cleaned' \in BOOLEAN /\ backup' \in BOOLEAN
      BY <1>0, <1>7, Zenon DEF RemoteTypeOK, RemoveBackup
    <3>2. pc' \in Importing \cup Outside \cup Updating /\ update' \in Updates
      BY <1>0, <1>7, NextUpdate DEF RemoteTypeOK, Called, RemoveBackup
    <3>3. /\ sandbox' \in {"none", "alive", "gone"} /\ row' \in RowStatus
          /\ {files', extras'} \subseteq {"old", "mixed", "new"}
          /\ match' \in {"processing", "ready", "failed"} /\ pointer' \in {"old", "new"}
          /\ broken' \subseteq {"restore", "activation", "report"} /\ faults' \in 0 .. MaxFaults
      BY <1>0, <1>7 DEF RemoteTypeOK, RowStatus, Called, Updates, NoUpdate, RemoveBackup
    <3>4. backup' => pc' \in Importing \cup Updating \cup {"dead"} \/ "restore" \in broken'
      BY <1>0, <1>7 DEF RemoteTypeOK, Called, RemoveBackup
    <3> QED
      BY <1>0, <3>1, <3>2, <3>3, <3>4 DEF RemoteTypeOK
  <2>2. Called' /\ DeletedFirst'
    BY <1>0, <1>7 DEF RemoteTypeOK, Called, DeletedFirst, DeletedBeforeImport, NoUpdate, RemoveBackup
  <2>3. Agreeing'
    BY <1>0, <1>7 DEF Called, Agreeing, StoresAgree, NoUpdate, RemoveBackup
  <2> QED
    BY <2>1, <2>2, <2>3 DEF WorkerInv
<1>8. CASE Activate
  <2>1. RemoteTypeOK'
    <3>1. api' = api /\ probed' \in BOOLEAN /\ got' \in BOOLEAN /\ cleaned' \in BOOLEAN /\ backup' \in BOOLEAN
      BY <1>0, <1>8, Zenon DEF RemoteTypeOK, Activate
    <3>2. pc' \in Importing \cup Outside \cup Updating /\ update' \in Updates
      BY <1>0, <1>8, NextUpdate DEF RemoteTypeOK, Called, Activate
    <3>3. /\ sandbox' \in {"none", "alive", "gone"} /\ row' \in RowStatus
          /\ {files', extras'} \subseteq {"old", "mixed", "new"}
          /\ match' \in {"processing", "ready", "failed"} /\ pointer' \in {"old", "new"}
          /\ broken' \subseteq {"restore", "activation", "report"} /\ faults' \in 0 .. MaxFaults
      BY <1>0, <1>8 DEF RemoteTypeOK, RowStatus, Called, Updates, NoUpdate, Activate
    <3>4. backup' => pc' \in Importing \cup Updating \cup {"dead"} \/ "restore" \in broken'
      BY <1>0, <1>8 DEF RemoteTypeOK, Called, Activate
    <3> QED
      BY <1>0, <3>1, <3>2, <3>3, <3>4 DEF RemoteTypeOK
  <2>2. Called' /\ DeletedFirst'
    BY <1>0, <1>8 DEF RemoteTypeOK, Called, DeletedFirst, DeletedBeforeImport, NoUpdate, Activate
  <2>3. Agreeing'
    BY <1>0, <1>8 DEF Called, Agreeing, StoresAgree, NoUpdate, Activate
  <2> QED
    BY <2>1, <2>2, <2>3 DEF WorkerInv
<1> QED
  BY <1>1, <1>2, <1>3, <1>4, <1>5, <1>6, <1>7, <1>8

LEMMA UpdateStepsKeep ==
  ASSUME WorkerInv, Check \/ Fetch \/ Write \/ WriteRow
  PROVE  WorkerInv'
<1> USE DEF stored, around, Goto, Raised, Importing, Outside, Updating, Early, Result, OldResult
<1>0. RemoteTypeOK /\ Called /\ DeletedFirst /\ Agreeing
  BY DEF WorkerInv
<1>1. CASE Check
  <2>1. RemoteTypeOK'
    <3>1. api' = api /\ probed' \in BOOLEAN /\ got' \in BOOLEAN /\ cleaned' \in BOOLEAN /\ backup' \in BOOLEAN
      BY <1>0, <1>1, Zenon DEF RemoteTypeOK, Check
    <3>2. pc' \in Importing \cup Outside \cup Updating /\ update' \in Updates
      BY <1>0, <1>1, NextUpdate DEF RemoteTypeOK, Called, Check
    <3>3. /\ sandbox' \in {"none", "alive", "gone"} /\ row' \in RowStatus
          /\ {files', extras'} \subseteq {"old", "mixed", "new"}
          /\ match' \in {"processing", "ready", "failed"} /\ pointer' \in {"old", "new"}
          /\ broken' \subseteq {"restore", "activation", "report"} /\ faults' \in 0 .. MaxFaults
      BY <1>0, <1>1 DEF RemoteTypeOK, RowStatus, Called, Updates, NoUpdate, Check
    <3>4. backup' => pc' \in Importing \cup Updating \cup {"dead"} \/ "restore" \in broken'
      BY <1>0, <1>1 DEF RemoteTypeOK, Called, Check
    <3> QED
      BY <1>0, <3>1, <3>2, <3>3, <3>4 DEF RemoteTypeOK
  <2>2. Called' /\ DeletedFirst'
    BY <1>0, <1>1 DEF RemoteTypeOK, Called, DeletedFirst, DeletedBeforeImport, NoUpdate, Check
  <2>3. Agreeing'
    BY <1>0, <1>1 DEF Called, Agreeing, StoresAgree, NoUpdate, Check
  <2> QED
    BY <2>1, <2>2, <2>3 DEF WorkerInv
<1>2. CASE Fetch
  <2>1. RemoteTypeOK'
    BY <1>0, <1>2, NextUpdate DEF RemoteTypeOK, RowStatus, Called, Fetch
  <2>2. Called' /\ DeletedFirst'
    BY <1>0, <1>2 DEF RemoteTypeOK, Called, DeletedFirst, DeletedBeforeImport, NoUpdate, Fetch
  <2>3. Agreeing'
    BY <1>0, <1>2 DEF Called, Agreeing, StoresAgree, NoUpdate, Fetch
  <2> QED
    BY <2>1, <2>2, <2>3 DEF WorkerInv
<1>3. CASE Write
  <2>1. RemoteTypeOK'
    <3>1. api' = api /\ probed' \in BOOLEAN /\ got' \in BOOLEAN /\ cleaned' \in BOOLEAN /\ backup' \in BOOLEAN
      BY <1>0, <1>3, Zenon DEF RemoteTypeOK, Write
    <3>2. pc' \in Importing \cup Outside \cup Updating /\ update' \in Updates
      BY <1>0, <1>3, NextUpdate DEF RemoteTypeOK, Called, Write
    <3>3. /\ sandbox' \in {"none", "alive", "gone"} /\ row' \in RowStatus
          /\ {files', extras'} \subseteq {"old", "mixed", "new"}
          /\ match' \in {"processing", "ready", "failed"} /\ pointer' \in {"old", "new"}
          /\ broken' \subseteq {"restore", "activation", "report"} /\ faults' \in 0 .. MaxFaults
      <4>1. UNCHANGED <<sandbox, files, extras, row, match, pointer, faults>>
        BY <1>3 DEF Write
      <4>2. broken' = broken \/ broken' = broken \cup {"report"}
        BY <1>3 DEF Write
      <4> QED
        BY <1>0, <4>1, <4>2 DEF RemoteTypeOK
    <3>4. backup' => pc' \in Importing \cup Updating \cup {"dead"} \/ "restore" \in broken'
      BY <1>0, <1>3 DEF RemoteTypeOK, Called, Write
    <3> QED
      BY <1>0, <3>1, <3>2, <3>3, <3>4 DEF RemoteTypeOK
  <2>2. Called' /\ DeletedFirst'
    BY <1>0, <1>3 DEF RemoteTypeOK, Called, DeletedFirst, DeletedBeforeImport, NoUpdate, Write
  <2>3. Agreeing'
    BY <1>0, <1>3 DEF Called, Agreeing, StoresAgree, NoUpdate, Write
  <2> QED
    BY <2>1, <2>2, <2>3 DEF WorkerInv
<1>4. CASE WriteRow
  <2>1. RemoteTypeOK'
    <3>1. api' = api /\ probed' \in BOOLEAN /\ got' \in BOOLEAN /\ cleaned' \in BOOLEAN /\ backup' \in BOOLEAN
      BY <1>0, <1>4, Zenon DEF RemoteTypeOK, WriteRow
    <3>2. pc' \in Importing \cup Outside \cup Updating /\ update' \in Updates
      BY <1>0, <1>4, NextUpdate DEF RemoteTypeOK, Called, WriteRow
    <3>3. /\ sandbox' \in {"none", "alive", "gone"} /\ row' \in RowStatus
          /\ {files', extras'} \subseteq {"old", "mixed", "new"}
          /\ match' \in {"processing", "ready", "failed"} /\ pointer' \in {"old", "new"}
          /\ broken' \subseteq {"restore", "activation", "report"} /\ faults' \in 0 .. MaxFaults
      BY <1>0, <1>4 DEF RemoteTypeOK, RowStatus, Called, Updates, NoUpdate, WriteRow
    <3>4. backup' => pc' \in Importing \cup Updating \cup {"dead"} \/ "restore" \in broken'
      BY <1>0, <1>4 DEF RemoteTypeOK, Called, WriteRow
    <3> QED
      BY <1>0, <3>1, <3>2, <3>3, <3>4 DEF RemoteTypeOK
  <2>2. Called' /\ DeletedFirst'
    BY <1>0, <1>4 DEF RemoteTypeOK, Called, DeletedFirst, DeletedBeforeImport, NoUpdate, WriteRow
  <2>3. Agreeing'
    BY <1>0, <1>4 DEF Called, Agreeing, StoresAgree, NoUpdate, WriteRow
  <2> QED
    BY <2>1, <2>2, <2>3 DEF WorkerInv
<1> QED
  BY <1>1, <1>2, <1>3, <1>4

LEMMA FailureStepsKeep ==
  ASSUME WorkerInv, Handle \/ MarkMatch \/ Finally \/ FinallyCancelled \/ Terminate \/ Cleanup
  PROVE  WorkerInv'
<1> USE DEF stored, around, Goto, Call, Importing, Outside, Updating, Early, Result, OldResult
<1>0. RemoteTypeOK /\ Called /\ DeletedFirst /\ Agreeing
  BY DEF WorkerInv
<1>1. CASE Handle
  <2>1. RemoteTypeOK'
    BY <1>0, <1>1, NextUpdate DEF RemoteTypeOK, RowStatus, Called, Handle
  <2>2. Called' /\ DeletedFirst'
    BY <1>0, <1>1 DEF RemoteTypeOK, Called, DeletedFirst, DeletedBeforeImport, NoUpdate, Handle
  <2>3. Agreeing'
    BY <1>0, <1>1 DEF Called, Agreeing, StoresAgree, NoUpdate, Handle
  <2> QED
    BY <2>1, <2>2, <2>3 DEF WorkerInv
<1>2. CASE MarkMatch
  <2>1. RemoteTypeOK'
    BY <1>0, <1>2, NextUpdate DEF RemoteTypeOK, RowStatus, Called, MarkMatch
  <2>2. Called' /\ DeletedFirst'
    BY <1>0, <1>2 DEF RemoteTypeOK, Called, DeletedFirst, DeletedBeforeImport, NoUpdate, MarkMatch
  <2>3. Agreeing'
    BY <1>0, <1>2 DEF Called, Agreeing, StoresAgree, NoUpdate, MarkMatch
  <2> QED
    BY <2>1, <2>2, <2>3 DEF WorkerInv
<1>3. CASE Finally
  <2>1. RemoteTypeOK'
    BY <1>0, <1>3, NextUpdate DEF RemoteTypeOK, RowStatus, Called, Finally
  <2>2. Called' /\ DeletedFirst'
    BY <1>0, <1>3 DEF RemoteTypeOK, Called, DeletedFirst, DeletedBeforeImport, NoUpdate, Finally
  <2>3. Agreeing'
    BY <1>0, <1>3 DEF Called, Agreeing, StoresAgree, NoUpdate, Finally
  <2> QED
    BY <2>1, <2>2, <2>3 DEF WorkerInv
<1>4. CASE FinallyCancelled
  <2>1. RemoteTypeOK'
    BY <1>0, <1>4, NextUpdate DEF RemoteTypeOK, RowStatus, Called, FinallyCancelled
  <2>2. Called' /\ DeletedFirst'
    BY <1>0, <1>4 DEF RemoteTypeOK, Called, DeletedFirst, DeletedBeforeImport, NoUpdate, FinallyCancelled
  <2>3. Agreeing'
    BY <1>0, <1>4 DEF Called, Agreeing, StoresAgree, NoUpdate, FinallyCancelled
  <2> QED
    BY <2>1, <2>2, <2>3 DEF WorkerInv
<1>5. CASE Terminate
  <2>1. RemoteTypeOK'
    BY <1>0, <1>5, NextUpdate DEF RemoteTypeOK, RowStatus, Called, Terminate
  <2>2. Called' /\ DeletedFirst'
    BY <1>0, <1>5 DEF RemoteTypeOK, Called, DeletedFirst, DeletedBeforeImport, NoUpdate, Terminate
  <2>3. Agreeing'
    BY <1>0, <1>5 DEF Called, Agreeing, StoresAgree, NoUpdate, Terminate
  <2> QED
    BY <2>1, <2>2, <2>3 DEF WorkerInv
<1>6. CASE Cleanup
  <2>1. RemoteTypeOK'
    BY <1>0, <1>6, NextUpdate DEF RemoteTypeOK, RowStatus, Called, Cleanup
  <2>2. Called' /\ DeletedFirst'
    BY <1>0, <1>6 DEF RemoteTypeOK, Called, DeletedFirst, DeletedBeforeImport, NoUpdate, Cleanup
  <2>3. Agreeing'
    BY <1>0, <1>6 DEF Called, Agreeing, StoresAgree, NoUpdate, Cleanup
  <2> QED
    BY <2>1, <2>2, <2>3 DEF WorkerInv
<1> QED
  BY <1>1, <1>2, <1>3, <1>4, <1>5, <1>6

-----------------------------------------------------------------------------
(* The steps as steps of the ledger.                                        *)

\* Before the job is admitted there is nothing, and no worker before it was spawned.
Dispatched ==
  /\ api = "admit" => count[Job] = 0 /\ attempt[The] = NoAttempt
  /\ api # "admit" => count[Job] = 1
  /\ api \in {"admit", "claim", "spawn", "noChild", "reportFailed"} => pc = "none"

Paid == \E e \in evidence : e.attempt = The /\ e.kind = "final"
Sound == bill[The].event = "final" => Paid

\* From the dispatch on, a closed bill has its invoice, unless no worker ever came.
Owed == api \in {"claim", "spawn"} \/ pc # "none" => Sound

RInv == IInv /\ WorkerInv /\ Dispatched /\ Owed

LEMMA TheFacts ==
  /\ Job \in Request /\ JobOwner \in Owner /\ {Worker, Api, Prober} \subseteq Caller
  /\ Attempt = {The} /\ The[1] = Job
  BY RemoteAssumption DEF Attempt, The

LEMMA TheAdmitted ==
  ASSUME IInv, Dispatched
  PROVE  /\ api # "admit" => The \in Admitted /\ Latest(Job) = The
         /\ api = "admit" => Admitted = {} /\ view = {}
<1>1. api # "admit" => The \in Admitted /\ Latest(Job) = The
  BY TheFacts DEF Dispatched, Admitted, Latest, The
<1>2. api = "admit" => Admitted = {}
  BY TheFacts DEF Dispatched, Admitted, The
<1>3. \A v \in view : v.attempt \in Admitted
  BY DEF IInv, ViewBounded
<1> QED
  BY <1>1, <1>2, <1>3

\* A reader's attempt is the only one there is.
LEMMA ViewThe == ASSUME IInv, NEW v \in view PROVE v.attempt = The
  BY TheFacts DEF IInv, TypeOK, View

\* What a step may do to the bill of an attempt that may cost something.
BillSound ==
  /\ evidence \subseteq evidence'
  /\ bill'[The].event = "final" => bill[The].event = "final" \/ Paid'

LEMMA SameBill == ASSUME bill' = bill, evidence' = evidence PROVE BillSound
  BY DEF BillSound

\* No transition but one that ends the attempt closes its bill.
LEMMA TransitionSound ==
  ASSUME IInv, NEW o, NEW target, NEW cost, NEW noCharge,
         Transition(The, o, target, cost, noCharge), evidence' = evidence,
         target \notin Terminal \/ target = attempt[The].status
  PROVE  BillSound
<1> DEFINE s == Coerced(The, target)
<1>1. bill \in [Attempt -> Bill] /\ The \in Attempt
  BY TheFacts DEF IInv, TypeOK
<1>2. bill'[The] = BillAfter(The, s, cost, noCharge)
  BY <1>1 DEF Transition
<1>3. s = target \/ s = "cancelling"
  BY DEF Coerced
<1>4. s \in Terminal => ~Closes(The, s)
  BY <1>3 DEF Closes, Terminal
<1>5. MarkUnsettled(bill[The]).event = "unknown"
  BY <1>1 DEF MarkUnsettled, Bill
<1>6. bill'[The] = bill[The] \/ bill'[The] = MarkUnsettled(bill[The])
  BY <1>2, <1>4 DEF BillAfter, Closes, Terminal
<1> QED
  BY <1>5, <1>6 DEF BillSound

\* A step of the job that has been admitted already.
Works == [Next]_vars /\ count' = count

LEMMA RenewedWorks ==
  ASSUME The \in Admitted, Renewed \/ Heartbeat(The, JobOwner)
  PROVE  Works /\ BillSound
<1>1. CASE UNCHANGED vars
  BY <1>1, SameBill DEF Works, vars
<1>2. CASE Heartbeat(The, JobOwner)
  BY <1>2, SameBill, TheFacts DEF Works, Heartbeat, Next, LeaseSome
<1> QED
  BY <1>1, <1>2 DEF Renewed

LEMMA UnknownWorks ==
  ASSUME IInv, NEW v \in view, CommitUnknown(v, JobOwner)
  PROVE  Works /\ BillSound
<1>1. Transition(The, JobOwner, "outcome_unknown", NoCost, FALSE) /\ evidence' = evidence /\ count' = count
  BY ViewThe DEF CommitUnknown, Commit
<1>2. BillSound
  BY <1>1, TransitionSound DEF Terminal
<1>3. [Next]_vars
  BY TheFacts DEF Next, CommitSome
<1> QED
  BY <1>1, <1>2, <1>3 DEF Works

LEMMA ConfirmWorks ==
  ASSUME IInv, Latest(Job) = The,
         ConfirmTermination(Job, JobOwner, FALSE) \/ ConfirmCleanup(Job, JobOwner)
  PROVE  Works /\ BillSound
<1>1. /\ Transition(The, JobOwner, attempt[The].status, NoCost, FALSE)
         \/ Transition(The, JobOwner, "outcome_unknown", NoCost, FALSE)
      /\ evidence' = evidence /\ count' = count
  BY DEF ConfirmTermination, ConfirmCleanup
<1>2. BillSound
  BY <1>1, TransitionSound DEF Terminal
<1>3. [Next]_vars
  BY TheFacts DEF Next, CancelSome
<1> QED
  BY <1>1, <1>2, <1>3 DEF Works

LEMMA WorkerWorks ==
  ASSUME RInv, WorkerStep
  PROVE  Works /\ BillSound /\ pc # "none" /\ pc' # "none" /\ api' = api
<1>1. IInv /\ Dispatched /\ Called
  BY DEF RInv, WorkerInv
<1>2. pc # "none" /\ api' = api
  BY DEF WorkerStep, Prepare, Create, Lookup, Discard, Run, Delete, AcceptResult, TakeBackup, SaveRows,
     Persist, Finish, Restore, RemoveBackup, Activate, Check, Fetch, Write, WriteRow, Handle,
     MarkMatch, Finally, FinallyCancelled, Terminate, Cleanup, around, Importing, Updating
<1>3. pc' # "none"
  BY <1>1 DEF WorkerStep, Prepare, Create, Lookup, Discard, Run, Delete, AcceptResult, TakeBackup, SaveRows,
     Persist, Finish, Restore, RemoveBackup, Activate, Check, Fetch, Write, WriteRow, Handle,
     MarkMatch, Finally, FinallyCancelled, Terminate, Cleanup, around, Called, Goto, Call, Raised, Updating
<1>4. The \in Admitted /\ Latest(Job) = The
  BY <1>1, <1>2, TheAdmitted DEF Dispatched
<1>5. CASE Prepare \/ AcceptResult \/ SaveRows
  <2>1. Renewed \/ UNCHANGED vars
    BY <1>5 DEF Prepare, AcceptResult, SaveRows
  <2> QED
    BY <1>2, <1>3, <1>4, <2>1, RenewedWorks, SameBill DEF Works, vars
<1>6. CASE Fetch
  <2>1. ReadLatest(Worker, Job)
    BY <1>6 DEF Fetch
  <2> QED
    BY <1>2, <1>3, <2>1, TheFacts, SameBill DEF Works, ReadLatest, Next, ReadSome
<1>7. CASE Write
  <2>1. (\E v \in view : CommitUnknown(v, JobOwner)) \/ UNCHANGED vars
    BY <1>7 DEF Write, ViewOf
  <2> QED
    BY <1>1, <1>2, <1>3, <2>1, UnknownWorks, SameBill DEF Works, vars
<1>8. CASE Terminate \/ Cleanup
  BY <1>1, <1>2, <1>3, <1>4, <1>8, ConfirmWorks DEF Terminate, Cleanup
<1>9. CASE UNCHANGED vars
  BY <1>2, <1>3, <1>9, SameBill DEF Works, vars
<1> QED
  BY <1>5, <1>6, <1>7, <1>8, <1>9 DEF WorkerStep, Create, Lookup, Discard, Run, Delete, TakeBackup,
     Persist, Finish, Restore, RemoveBackup, Activate, Check, WriteRow, Handle, MarkMatch, Finally,
     FinallyCancelled

\* What the steps outside the worker leave alone.
LEMMA AroundKeeps ==
  ASSUME WorkerInv, UNCHANGED <<remote, stored>>,
         api' \in {"admit", "claim", "spawn", "noChild", "lost", "reportFailed", "reportUnknown", "done"},
         probed' \in BOOLEAN, faults' \in 0 .. MaxFaults
  PROVE  WorkerInv'
  BY DEF WorkerInv, remote, stored, RemoteTypeOK, Called, DeletedFirst, Agreeing,
     DeletedBeforeImport, Result, OldResult, StoresAgree

\* After its admission a job stays in the invariant if its worker does and its bill is sound.
LEMMA Carries ==
  ASSUME RInv, Works, WorkerInv', api # "admit", api' # "admit",
         api' \in {"claim", "spawn", "noChild", "reportFailed"} => pc' = "none",
         api' \in {"claim", "spawn"} \/ pc' # "none" =>
           (api \in {"claim", "spawn"} \/ pc # "none") /\ BillSound
  PROVE  [Next]_vars /\ RInv'
<1>1. IInv'
  BY NextInvariant DEF RInv, Works
<1>2. Dispatched'
  BY DEF RInv, Dispatched, Works
<1>3. Owed'
  BY DEF RInv, Owed, BillSound, Sound, Paid
<1> QED
  BY <1>1, <1>2, <1>3 DEF RInv, Works

\* Before it, nothing happens but its admission.
LEMMA BeforeAdmission ==
  ASSUME RInv, api = "admit", RemoteNext
  PROVE  Submit \/ (Restart /\ UNCHANGED vars)
<1>1. pc = "none" /\ count[Job] = 0 /\ attempt[The] = NoAttempt /\ Admitted = {} /\ view = {}
  BY TheAdmitted DEF RInv, Dispatched
<1>2. ~WorkerStep
  BY <1>1, WorkerWorks
<1>3. ~RenewLease /\ ~WorkerDies
  BY <1>1 DEF RenewLease, WorkerDies
<1>4. ~Claim /\ ~Spawn /\ ~ReadToReport /\ ~Report
  BY DEF Claim, Spawn, ReadToReport, Report
<1>5. ~ProbeRead /\ ~Probe /\ ~Cancel
  BY <1>1 DEF ProbeRead, Probe, Cancel, ReadLatest, RequestCancel, ViewOf
<1>6. ~Invoice /\ ~Expire
  BY <1>1 DEF Invoice, Expire, Now, NoAttempt, LeaseExpires
<1>7. Restart => UNCHANGED vars
  BY <1>1 DEF Restart, ReclaimExpired, Expired
<1> QED
  BY <1>2, <1>3, <1>4, <1>5, <1>6, <1>7 DEF RemoteNext

LEMMA SubmitKeeps == ASSUME RInv, Submit PROVE [Next]_vars /\ RInv'
<1>1. [Next]_vars
  BY TheFacts, RemoteAssumption DEF Submit, Next, AdmitSome
<1>2. WorkerInv'
  BY AroundKeeps DEF RInv, WorkerInv, RemoteTypeOK, Submit
<1>3. count' = [count EXCEPT ![Job] = 1] /\ bill' = [bill EXCEPT ![The] = [NoBill EXCEPT !.reserved = Budget[Job]]]
  <2>1. count[Job] + 1 = 1
    BY DEF Submit, RInv, Dispatched
  <2>2. count' = [count EXCEPT ![Job] = count[Job] + 1]
    BY DEF Submit, Admit
  <2>3. bill' = [bill EXCEPT ![<<Job, count[Job] + 1>>] = [NoBill EXCEPT !.reserved = Budget[Job]]]
    BY DEF Submit, Admit
  <2> QED
    BY <2>1, <2>2, <2>3 DEF The
<1>4. count'[Job] = 1 /\ bill'[The].event = "none"
  BY <1>3, TheFacts DEF RInv, IInv, TypeOK, NoBill
<1>5. api' = "claim" /\ pc' = "none"
  BY DEF Submit, remote, RInv, Dispatched
<1>6. IInv'
  BY <1>1, NextInvariant DEF RInv
<1> QED
  BY <1>1, <1>2, <1>4, <1>5, <1>6 DEF RInv, Dispatched, Owed, Sound

LEMMA ClaimWorks == ASSUME RInv, Claim PROVE [Next]_vars /\ RInv'
<1>1. IInv /\ WorkerInv /\ The \in Admitted /\ Latest(Job) = The /\ pc = "none" /\ api = "claim"
  BY TheAdmitted DEF RInv, Claim, Dispatched
<1>2. WorkerInv' /\ pc' = "none" /\ api' \in {"spawn", "done"}
  BY <1>1, AroundKeeps DEF WorkerInv, RemoteTypeOK, Claim, remote
<1>3. CASE ClaimDispatch(Job, JobOwner)
  <2>1. Transition(The, JobOwner, "validating", NoCost, FALSE) /\ evidence' = evidence /\ count' = count
    BY <1>1, <1>3, RemoteAssumption DEF ClaimDispatch
  <2>2. BillSound
    BY <1>1, <2>1, TransitionSound DEF Terminal
  <2>3. Works
    BY <1>3, <2>1, TheFacts DEF Works, Next, ClaimSome
  <2> QED
    BY <1>1, <1>2, <2>2, <2>3, Carries
<1>4. CASE ClaimCancelled(Job, JobOwner) /\ api' = "done"
  <2>1. Works
    BY <1>4, TheFacts DEF Works, Next, ClaimSome, ClaimCancelled
  <2> QED
    BY <1>1, <1>2, <1>4, <2>1, Carries
<1>5. CASE UNCHANGED vars
  BY <1>1, <1>2, <1>5, Carries, SameBill DEF Works, vars
<1> QED
  BY <1>3, <1>4, <1>5 DEF Claim

LEMMA SpawnKeeps == ASSUME RInv, Spawn PROVE [Next]_vars /\ RInv'
<1>1. IInv /\ WorkerInv /\ pc = "none" /\ api = "spawn" /\ UNCHANGED vars
  BY DEF RInv, Spawn, Dispatched
<1>2. api' \in {"noChild", "done", "lost"} /\ pc' \in {"none", "prepare"} /\ (api' = "noChild" => pc' = "none")
  BY <1>1 DEF Spawn
<1>3. WorkerInv'
  <2>1. RemoteTypeOK'
    BY <1>1, <1>2 DEF WorkerInv, RemoteTypeOK, Spawn, stored, Outside, Importing, Updating, DeletedFirst, Early, Result
  <2>2. Called' /\ DeletedFirst'
    BY <1>1, <1>2 DEF WorkerInv, Called, DeletedFirst, DeletedBeforeImport, Result, Spawn, stored, Importing, Updating, Early
  <2>3. Agreeing'
    BY <1>1, <1>2 DEF WorkerInv, Agreeing, StoresAgree, OldResult, Spawn, stored, Importing, Updating, Early
  <2> QED
    BY <2>1, <2>2, <2>3 DEF WorkerInv
<1> QED
  BY <1>1, <1>2, <1>3, Carries, SameBill DEF Works, vars

LEMMA ReportKeeps == ASSUME RInv, Report PROVE [Next]_vars /\ RInv'
<1>1. IInv /\ WorkerInv /\ api \in {"reportFailed", "reportUnknown"} /\ (api = "reportFailed" => pc = "none")
  BY DEF RInv, Report, Dispatched
<1>2. WorkerInv' /\ pc' = pc /\ api' = "done"
  BY <1>1, AroundKeeps DEF WorkerInv, RemoteTypeOK, Report, remote
<1>3. PICK v \in view :
        \/ api = "reportFailed" /\ CommitOutcome(v, JobOwner, "failed", NoCost, TRUE)
        \/ CommitUnknown(v, JobOwner)
        \/ UNCHANGED vars
  BY DEF Report, ViewOf
<1>4. CASE api = "reportFailed" /\ CommitOutcome(v, JobOwner, "failed", NoCost, TRUE)
  <2>1. "failed" \in Terminal /\ NoCost \in Amount \cup {NoCost} /\ TRUE \in BOOLEAN
    BY DEF Terminal
  <2>2. CommitSome
    BY <1>4, <2>1, TheFacts DEF CommitSome
  <2>3. Works
    BY <1>4, <2>2 DEF Works, Next, CommitOutcome, Commit
  <2> QED
    BY <1>1, <1>2, <1>4, <2>3, Carries
<1>5. CASE CommitUnknown(v, JobOwner)
  BY <1>1, <1>2, <1>5, UnknownWorks, Carries
<1>6. CASE UNCHANGED vars
  BY <1>1, <1>2, <1>6, Carries, SameBill DEF Works, vars
<1> QED
  BY <1>3, <1>4, <1>5, <1>6

LEMMA ReadsKeep == ASSUME RInv, ReadToReport \/ ProbeRead, api # "admit" PROVE [Next]_vars /\ RInv'
<1>1. WorkerInv'
  BY AroundKeeps DEF RInv, WorkerInv, RemoteTypeOK, ReadToReport, ProbeRead, around
<1>2. /\ ReadLatest(Api, Job) \/ ReadLatest(Prober, Job)
      /\ pc' = pc /\ api' \in {api, "reportFailed", "reportUnknown"}
      /\ api' = "reportFailed" /\ api # "reportFailed" => api = "noChild"
  BY DEF ReadToReport, ProbeRead, remote, around
<1>3. Works /\ BillSound
  BY <1>2, TheFacts, SameBill DEF Works, Next, ReadSome, ReadLatest
<1>4. pc' = "none" \/ api' \notin {"claim", "spawn", "noChild", "reportFailed"}
  BY <1>2 DEF RInv, Dispatched
<1> QED
  BY <1>1, <1>2, <1>3, <1>4, Carries DEF RInv

LEMMA ProbeKeeps == ASSUME RInv, Probe, api # "admit" PROVE [Next]_vars /\ RInv'
<1>1. WorkerInv' /\ pc' = pc /\ api' = api
  BY AroundKeeps DEF RInv, WorkerInv, RemoteTypeOK, Probe, remote
<1>2. (\E v \in view : CommitUnknown(v, JobOwner)) \/ UNCHANGED vars
  BY DEF Probe, ViewOf
<1>3. Works /\ BillSound
  BY <1>2, UnknownWorks, SameBill DEF Works, vars, RInv
<1> QED
  BY <1>1, <1>3, Carries DEF RInv, Dispatched

LEMMA CancelKeeps == ASSUME RInv, Cancel, api # "admit" PROVE [Next]_vars /\ RInv'
<1>1. WorkerInv' /\ pc' = pc /\ api' = api
  BY WorkerStays DEF RInv, Cancel, remote, around
<1>2. IInv /\ Latest(Job) = The
  BY TheAdmitted DEF RInv
<1>3. /\ RequestCancel(Job) /\ count' = count /\ evidence' = evidence
      /\ bill' = bill \/ Transition(The, attempt[The].owner, "cancelling", NoCost, FALSE)
  BY <1>2 DEF Cancel, RequestCancel
<1>4. BillSound
  BY <1>2, <1>3, SameBill, TransitionSound DEF Terminal
<1>5. Works
  BY <1>3, TheFacts DEF Works, Next, CancelSome
<1> QED
  BY <1>1, <1>4, <1>5, Carries DEF RInv, Dispatched

LEMMA InvoiceKeeps == ASSUME RInv, Invoice, api # "admit" PROVE [Next]_vars /\ RInv'
<1>1. WorkerInv' /\ pc' = pc /\ api' = api
  BY WorkerStays DEF RInv, Invoice, remote, around
<1>2. The \in Admitted
  BY TheAdmitted DEF RInv
<1>3. PICK outcome \in {"complete", "failed"}, n \in Amount, e \in Receipt :
        Reconcile(The, outcome, n, TRUE, e)
  BY DEF Invoice
<1>4. BillSound
  <2>1. evidence' = evidence \cup {[id |-> e, attempt |-> The, kind |-> "final", amount |-> n]}
    BY <1>3 DEF Reconcile, Receive
  <2> DEFINE receipt == [id |-> e, attempt |-> The, kind |-> "final", amount |-> n]
  <2>2. receipt \in evidence' /\ receipt.attempt = The /\ receipt.kind = "final"
    BY <2>1
  <2>3. Paid'
    BY <2>2 DEF Paid
  <2> QED
    BY <2>1, <2>3 DEF BillSound
<1>5. Works
  <2>1. MoneySome
    BY <1>2, <1>3 DEF MoneySome
  <2> QED
    BY <1>3, <2>1 DEF Works, Next, Reconcile
<1> QED
  BY <1>1, <1>4, <1>5, Carries DEF RInv, Dispatched

LEMMA RestartKeeps == ASSUME RInv, Restart, api # "admit" PROVE [Next]_vars /\ RInv'
<1>1. api' = "done" /\ pc' = pc
  BY DEF Restart, remote
<1>2. WorkerInv'
  <2>1. faults' \in 0 .. MaxFaults /\ probed' \in BOOLEAN
    BY RemoteAssumption DEF RInv, WorkerInv, RemoteTypeOK, Restart
  <2> QED
    BY <1>1, <2>1, AroundKeeps DEF RInv, Restart
<1>3. Works /\ BillSound
  <2>1. CASE UNCHANGED vars
    BY <2>1, SameBill DEF Works, vars
  <2>2. CASE ReclaimExpired
    <3>1. The \in Attempt /\ bill \in [Attempt -> Bill]
      BY TheFacts DEF RInv, IInv, TypeOK
    <3>2. bill'[The] = bill[The] \/ bill'[The] = MarkUnsettled(bill[The])
      BY <2>2, <3>1 DEF ReclaimExpired
    <3>3. MarkUnsettled(bill[The]).event = "unknown"
      BY <3>1 DEF MarkUnsettled, Bill
    <3> QED
      BY <2>2, <3>2, <3>3 DEF BillSound, Works, Next, ReclaimExpired
  <2> QED
    BY <2>1, <2>2 DEF Restart
<1> QED
  BY <1>1, <1>2, <1>3, Carries DEF RInv

LEMMA LeasesKeep == ASSUME RInv, Expire \/ RenewLease, api # "admit" PROVE [Next]_vars /\ RInv'
<1>1. WorkerInv' /\ pc' = pc /\ api' = api
  BY WorkerStays DEF RInv, Expire, RenewLease, remote, around
<1>2. The \in Admitted
  BY TheAdmitted DEF RInv
<1>3. Works /\ BillSound
  BY <1>2, RenewedWorks, SameBill DEF Expire, RenewLease, LeaseExpires, Works, Next, LeaseSome
<1> QED
  BY <1>1, <1>3, Carries DEF RInv, Dispatched

LEMMA DeathKeeps == ASSUME RInv, WorkerDies, api # "admit" PROVE [Next]_vars /\ RInv'
<1>1. api' = api /\ pc' = "dead" /\ pc # "none" /\ UNCHANGED vars
  BY DEF WorkerDies, Goto
<1>2. RemoteTypeOK'
  <2>1. NoUpdate \in Updates
    BY NextUpdate
  <2>2. faults' \in 0 .. MaxFaults
    BY RemoteAssumption DEF RInv, WorkerInv, RemoteTypeOK, WorkerDies
  <2> QED
    BY <2>1, <2>2 DEF RInv, WorkerInv, RemoteTypeOK, WorkerDies, Goto, stored, Outside
<1>3. Called' /\ DeletedFirst'
  BY DEF RInv, WorkerInv, Called, DeletedFirst, DeletedBeforeImport, Result, WorkerDies, Goto, stored,
     Updating, Importing, Early
<1>4. Agreeing'
  BY DEF RInv, WorkerInv, Agreeing, StoresAgree, WorkerDies, Goto, stored, Updating, Importing, Early
<1>5. WorkerInv'
  BY <1>2, <1>3, <1>4 DEF WorkerInv
<1>6. Works /\ BillSound
  BY <1>1, SameBill DEF Works, vars
<1> QED
  BY <1>1, <1>5, <1>6, Carries DEF RInv, Dispatched

LEMMA WorkerKeeps == ASSUME RInv, WorkerStep, api # "admit" PROVE [Next]_vars /\ RInv'
<1>1. WorkerInv'
  BY SandboxStepsKeep, ImportStepsKeep, UpdateStepsKeep, FailureStepsKeep DEF RInv, WorkerStep
<1> QED
  BY <1>1, WorkerWorks, Carries DEF RInv, Dispatched

-----------------------------------------------------------------------------
(* Theorems.                                                                *)

LEMMA RemoteInitInvariant == RemoteInit => RInv
<1> SUFFICES ASSUME RemoteInit PROVE RInv
  OBVIOUS
<1>1. IInv
  BY InitInvariant DEF RemoteInit
<1>2. RemoteTypeOK
  <2>1. probed \in BOOLEAN /\ got \in BOOLEAN /\ cleaned \in BOOLEAN /\ backup \in BOOLEAN /\ ~backup
    BY DEF RemoteInit
  <2>2. update \in Updates /\ faults \in 0 .. MaxFaults
    BY NextUpdate, RemoteAssumption DEF RemoteInit
  <2> QED
    BY <2>1, <2>2 DEF RemoteInit, RemoteTypeOK, RowStatus, Outside
<1>3. Called /\ DeletedFirst
  BY DEF RemoteInit, Called, DeletedFirst, DeletedBeforeImport, Result, Updating, Importing, Early
<1>4. Agreeing
  BY DEF RemoteInit, Agreeing, StoresAgree, OldResult, Updating, Importing, Early
<1>5. Dispatched /\ Owed
  BY TheFacts DEF RemoteInit, Init, Dispatched, Owed
<1> QED
  BY <1>1, <1>2, <1>3, <1>4, <1>5 DEF RInv, WorkerInv

LEMMA RemoteNextInvariant == RInv /\ [RemoteNext]_remoteVars => [Next]_vars /\ RInv'
<1> SUFFICES ASSUME RInv, [RemoteNext]_remoteVars PROVE [Next]_vars /\ RInv'
  OBVIOUS
<1>1. CASE UNCHANGED vars /\ UNCHANGED <<remote, stored>> /\ api' = api /\ probed' = probed /\ faults' \in 0 .. MaxFaults
  <2>1. WorkerInv' /\ pc' = pc
    BY <1>1, AroundKeeps DEF RInv, WorkerInv, RemoteTypeOK, remote
  <2>2. IInv'
    BY <1>1, NextInvariant DEF RInv
  <2>3. Dispatched' /\ Owed'
    BY <1>1, <2>1 DEF RInv, Dispatched, Owed, Sound, Paid, vars
  <2> QED
    BY <1>1, <2>1, <2>2, <2>3 DEF RInv
<1>2. CASE UNCHANGED remoteVars
  BY <1>1, <1>2 DEF remoteVars, around, RInv, WorkerInv, RemoteTypeOK
<1>3. CASE api = "admit" /\ RemoteNext
  <2>1. CASE Submit
    BY <2>1, SubmitKeeps
  <2>2. CASE Restart /\ UNCHANGED vars
    <3>1. faults' \in 0 .. MaxFaults
      BY <2>2, RemoteAssumption DEF Restart, RInv, WorkerInv, RemoteTypeOK
    <3> QED
      BY <1>1, <1>3, <2>2, <3>1 DEF Restart
  <2> QED
    BY <1>3, <2>1, <2>2, BeforeAdmission
<1>4. CASE api # "admit" /\ RemoteNext
  BY <1>4, ClaimWorks, SpawnKeeps, ReportKeeps, ReadsKeep, ProbeKeeps, CancelKeeps, InvoiceKeeps,
     RestartKeeps, LeasesKeep, DeathKeeps, WorkerKeeps DEF RemoteNext, Submit
<1> QED
  BY <1>2, <1>3, <1>4

LEMMA RemoteInvariance == RemoteSpec => []RInv
  BY RemoteInitInvariant, RemoteNextInvariant, PTL DEF RemoteSpec

\* A remote job implements the ledger: what is proved of JobLedger holds for it.
THEOREM RemoteImplementsLedger == RemoteSpec => Spec
<1>1. RemoteInit => Init
  BY DEF RemoteInit
<1> QED
  BY <1>1, RemoteInitInvariant, RemoteNextInvariant, PTL DEF RemoteSpec, Spec

\* The job's own state is well typed, and backups outlive only an import that broke.
THEOREM RemoteTypeCorrect == RemoteSpec => []RemoteTypeOK
<1>1. RInv => RemoteTypeOK
  BY DEF RInv, WorkerInv
<1> QED
  BY <1>1, RemoteInvariance, PTL

\* Once a sandbox may exist, only an invoice closes the bill, whatever the outcome.
THEOREM OnlyInvoiceClosesBill == RemoteSpec => []UnsettledUntilInvoice
<1>1. RInv => UnsettledUntilInvoice
  BY DEF RInv, WorkerInv, DeletedFirst, Owed, Sound, Paid, UnsettledUntilInvoice
<1> QED
  BY <1>1, RemoteInvariance, PTL

\* Nothing of a result is stored before the sandbox is gone.
THEOREM ImportAfterDeletion == RemoteSpec => []DeletedBeforeImport
<1>1. RInv => DeletedBeforeImport
  BY DEF RInv, WorkerInv, DeletedFirst
<1> QED
  BY <1>1, RemoteInvariance, PTL

\* When the worker has ended, the files that the import backs up, generation, match and row
\* agree, and behind a new generation the other artifacts are new.  That these are old behind
\* an old one is not claimed: the code does not take them back.
THEOREM EndsInAgreement == RemoteSpec => []StoresAgree
<1>1. RInv => StoresAgree
  BY DEF RInv, WorkerInv, Agreeing, StoresAgree
<1> QED
  BY <1>1, RemoteInvariance, PTL
=============================================================================
