---------------------------- MODULE ProjectFiles ----------------------------
(***************************************************************************)
(* The files a workspace holds (app/core/files.py): for each a record in   *)
(* the store and the bytes in a directory of the record's name, written    *)
(* and deleted in steps by request threads that take no lock, under one    *)
(* quota that is weighed off the records.                                  *)
(***************************************************************************)
EXTENDS Naturals, FiniteSets

CONSTANTS
  FileId,        \* the ids of records; one is minted for each upload
  RequestThread, \* the threads requests run on
  Project,       \* the projects
  Ceiling,       \* max_upload_bytes
  Quota,         \* files_quota_bytes
  MaxRestarts    \* bound on restarts of the server

ASSUME FileConstants ==
  /\ IsFiniteSet(FileId) /\ IsFiniteSet(RequestThread) /\ RequestThread # {}
  /\ Project \cap {"nowhere", "unrecorded"} = {}
  /\ Ceiling \in Nat \ {0} /\ Quota \in Nat /\ MaxRestarts \in Nat

VARIABLES
  records,   \* per file the project its record names, Nowhere, or Unrecorded
  weight,    \* per minted file what its bytes weigh; 0 for one not minted
  stored,    \* the files whose bytes are in place
  request,   \* per thread the step its request is at, its file, and the project
             \* it was sent for or that the record named when it was read
  revived,   \* observation: the files whose record was saved after its delete
  restarts

filesVars == <<records, weight, stored, request, revived, restarts>>

Nowhere    == "nowhere"
Unrecorded == "unrecorded"
Recorded   == {f \in FileId : records[f] # Unrecorded}

Idle == [at |-> "idle"]
Steps == {"staged", "weighed", "placed", "updating", "deleting", "unlinking"}

\* measure_files_used_bytes: what the records say, not what the disk holds.
Bytes(fs) == {b \in fs \X (1..Ceiling) : b[2] <= weight[b[1]]}
UsedBytes == Cardinality(Bytes(Recorded))

FilesInit ==
  /\ records = [f \in FileId |-> Unrecorded]
  /\ weight = [f \in FileId |-> 0]
  /\ stored = {}
  /\ request = [t \in RequestThread |-> Idle]
  /\ revived = {}
  /\ restarts = 0

\* A request takes its next step, and its last.
Step(t, from, to) == request[t].at = from /\ request' = [request EXCEPT ![t].at = to]
End(t, from)      == request[t].at = from /\ request' = [request EXCEPT ![t] = Idle]

-----------------------------------------------------------------------------
(* Plausible bugs, substituted one at a time: the arriving bytes left out   *)
(* of what is weighed; bytes unlinked before their record.                  *)

WeighTheRecordsAlone(t) ==
  /\ Step(t, "staged", "weighed")
  /\ UsedBytes <= Quota
  /\ UNCHANGED <<records, weight, stored, revived, restarts>>

UnlinkFirst(t) ==
  /\ Step(t, "deleting", "unlinking")
  /\ stored' = stored \ {request[t].file}
  /\ UNCHANGED <<records, weight, revived, restarts>>

-----------------------------------------------------------------------------
(* An upload.                                                              *)

\* The bytes are streamed to a file of no record, no more than the ceiling.
Stage(t) ==
  /\ request[t] = Idle
  /\ \E f \in FileId, w \in 1..Ceiling, p \in Project \cup {Nowhere} :
       /\ weight[f] = 0
       /\ weight' = [weight EXCEPT ![f] = w]
       /\ request' = [request EXCEPT ![t] = [at |-> "staged", file |-> f, project |-> p]]
  /\ UNCHANGED <<records, stored, revived, restarts>>

Weigh(t) ==
  /\ Step(t, "staged", "weighed")
  /\ UsedBytes + weight[request[t].file] <= Quota
  /\ UNCHANGED <<records, weight, stored, revived, restarts>>

RefuseUpload(t) ==
  /\ End(t, "staged")
  /\ UsedBytes + weight[request[t].file] > Quota
  /\ UNCHANGED <<records, weight, stored, revived, restarts>>

\* Renamed to where the record will look for it.
Place(t) ==
  /\ Step(t, "weighed", "placed")
  /\ stored' = stored \cup {request[t].file}
  /\ UNCHANGED <<records, weight, revived, restarts>>

SaveUpload(t) ==
  /\ End(t, "placed")
  /\ records' = [records EXCEPT ![request[t].file] = request[t].project]
  /\ UNCHANGED <<weight, stored, revived, restarts>>

-----------------------------------------------------------------------------
(* What is done with a file.                                               *)

\* An agent gives a file of no project one: its tools run on the loop, one at
\* a time, and no route saves or deletes a file of no project.
MoveToProject(f) ==
  /\ records[f] = Nowhere
  /\ \E p \in Project : records' = [records EXCEPT ![f] = p]
  /\ UNCHANGED <<weight, stored, request, revived, restarts>>

\* A route loads the record and refuses a file its project does not have.
LoadRecord(t, to) ==
  /\ request[t] = Idle
  /\ \E f \in FileId :
       /\ records[f] \in Project
       /\ request' = [request EXCEPT ![t] = [at |-> to, file |-> f, project |-> records[f]]]
  /\ UNCHANGED <<records, weight, stored, revived, restarts>>

BeginUpdate(t) == LoadRecord(t, "updating")
BeginDelete(t) == LoadRecord(t, "deleting")

\* The record is saved whole, as it was loaded but for its provenance: also
\* one that was deleted meanwhile.
SaveProvenance(t) ==
  /\ End(t, "updating")
  /\ LET f == request[t].file IN
       /\ records' = [records EXCEPT ![f] = request[t].project]
       /\ revived' = revived \cup ({f} \ Recorded)
  /\ UNCHANGED <<weight, stored, restarts>>

DeleteRecord(t) ==
  /\ Step(t, "deleting", "unlinking")
  /\ records' = [records EXCEPT ![request[t].file] = Unrecorded]
  /\ UNCHANGED <<weight, stored, revived, restarts>>

Unlink(t) ==
  /\ End(t, "unlinking")
  /\ stored' = stored \ {request[t].file}
  /\ UNCHANGED <<records, weight, revived, restarts>>

\* The server is restarted: what was staged or placed stays, of no record.
Restart ==
  /\ restarts < MaxRestarts
  /\ restarts' = restarts + 1
  /\ request' = [t \in RequestThread |-> Idle]
  /\ UNCHANGED <<records, weight, stored, revived>>

FilesNext ==
  \/ Restart
  \/ \E f \in FileId : MoveToProject(f)
  \/ \E t \in RequestThread :
       \/ Stage(t) \/ Weigh(t) \/ RefuseUpload(t) \/ Place(t) \/ SaveUpload(t)
       \/ BeginUpdate(t) \/ SaveProvenance(t)
       \/ BeginDelete(t) \/ DeleteRecord(t) \/ Unlink(t)

FilesSpec == FilesInit /\ [][FilesNext]_filesVars

-----------------------------------------------------------------------------
(* What is checked.                                                        *)

\* Every variable keeps its type.
FilesTypeOK ==
  /\ records \in [FileId -> Project \cup {Nowhere, Unrecorded}]
  /\ weight \in [FileId -> 0..Ceiling]
  /\ stored \subseteq FileId /\ revived \subseteq FileId
  /\ request \in [RequestThread ->
                     {Idle} \cup [at : Steps, file : FileId, project : Project \cup {Nowhere}]]
  /\ restarts \in 0..MaxRestarts

\* A record has its bytes, wherever an upload or a delete is killed and
\* whatever meets it, unless a deleted record was saved again: "a record whose
\* bytes are gone is worse than no record" (files.py).
RecordsHaveBytes ==
  \A f \in FileId : records[f] # Unrecorded => f \in stored \cup revived

\* Uploads that are weighed at once pass the quota together, and so does a
\* deleted record that is saved again: but by no more than what the other
\* threads had under way.
QuotaHoldsButForThoseUnderWay ==
  UsedBytes <= Quota + (Cardinality(RequestThread) - 1) * Ceiling
=============================================================================
