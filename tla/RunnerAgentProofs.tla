-------------------------- MODULE RunnerAgentProofs ---------------------------
(***************************************************************************)
(* Proofs about one attempt on one runner agent, for any number of chunks  *)
(* of log and any number of crashes and refused writes.  AgentInv is the   *)
(* inductive invariant.  It says where the process may be while the agent  *)
(* is at a given place of its work, which logs are where before and after  *)
(* the spool is cleaned, and from which moment on the verdict stands.      *)
(***************************************************************************)
EXTENDS RunnerAgent, TLAPS, WellFoundedInduction

Places ==
  {"claiming", "claimed", "launching", "created", "recorded", "executing", "closing", "flushing",
   "recording", "uploading", "concluding", "reporting", "cleaning", "removing", "down",
   "reconciling", "deciding", "reuploading", "reflushing"}

\* From the claim to the conclusion: nothing was reported yet.
Executing ==
  {"claimed", "launching", "created", "recorded", "executing", "closing", "flushing",
   "recording", "uploading", "concluding"}

Servers ==
  [attempt : {"offered", "running", "ended"},
   lease : {"none", "valid", "ending", "lapsed"}, cancelAsked : BOOLEAN,
   receipt : [disposition : {"none", "accepted", "late"},
              code : Codes \union {"none"}, marks : Absent .. Chunks]]

StateFiles ==
  [state : {"none", "claimed", "running", "uploading", "finishing"}, pid : BOOLEAN,
   code : Codes \union {"none"}, marks : Absent .. Chunks, artifacts : BOOLEAN]

Memories ==
  [pc : Places, renewing : BOOLEAN, live : BOOLEAN, reportAllowed : BOOLEAN,
   sinkFailed : BOOLEAN, acked : 0 .. Chunks, code : Codes \union {"none"},
   decision : {"none", "clean", "cancel", "continue"}]

MemoryTyped ==
  /\ agent \in Memories
  /\ output \in [produced : 0 .. Chunks, spooled : 0 .. Chunks]
  /\ output.spooled <= output.produced

\* No report can be accepted any more, whatever arrives.
Over == server.attempt = "ended" \/ server.receipt # NoReceipt

\* Every watermark anybody holds was acknowledged over stored chunks.
WatermarksTrue ==
  /\ 1 .. logs.watermark \subseteq logs.stored
  /\ agent.acked <= logs.watermark /\ disk.marks <= logs.watermark
  /\ \A m \in mail : m.marks <= logs.watermark

\* The spool is cleaned only when the attempt is over.
SpoolKept ==
  /\ At({"deciding"}) /\ agent.decision = "clean" => Over
  /\ At({"cleaning"}) => Over
  /\ ~Over => 1 .. output.spooled \subseteq spool \union logs.stored

\* Where the process is.
ProcessPlaced ==
  /\ process = "gated" => At({"created", "recorded"})
  /\ process = "running" => disk.pid /\ At({"executing", "down", "reconciling"})
  /\ At({"recorded"}) => disk.pid

\* What the state file says while the agent is where it is.
StatePlaced ==
  /\ disk.state = "none" => disk = NoState /\ At({"claiming", "down"})
  /\ disk.state # "none" => server.attempt # "offered"
  /\ At(Executing \ {"recording", "uploading", "concluding"}) => disk.code = "none"
  /\ At({"concluding"}) => agent.code # "none"
  /\ At({"reporting", "reuploading", "reflushing"}) => disk.code # "none"

\* From the first report on the verdict stands.
VerdictStands ==
  /\ OneVerdict
  /\ server.receipt # NoReceipt => mail # {}
  /\ mail # {} => server.attempt # "offered" /\ ~At(Executing)
  /\ disk.state # "none" => \A m \in mail : m.code = disk.code

WithLogs(code) ==
  /\ code \in {"completed", "ARTIFACT_UPLOAD_FAILED"} => 1 .. output.produced \subseteq logs.stored
  /\ code \in {"AGENT_RESTARTED", "EXECUTION_CANCELLED"} => 1 .. output.spooled \subseteq logs.stored

\* Which verdicts already have their logs.
VerdictsHaveLogs ==
  /\ ~Over => \A m \in mail : WithLogs(m.code)
  /\ ~Over /\ At({"flushing"}) => output.spooled = output.produced
  /\ ~Over /\ At({"recording", "uploading"}) => WithLogs("completed")
  /\ ~Over /\ At({"concluding"}) => WithLogs(agent.code)
  /\ ~Over /\ At({"reporting"}) => WithLogs(disk.code)
  /\ ~Over /\ disk.code \in {"completed", "ARTIFACT_UPLOAD_FAILED"} => WithLogs(disk.code)
  /\ ResultHasItsLogs

AgentInv ==
  /\ AgentTypeOK /\ MemoryTyped
  /\ WatermarksTrue /\ SpoolKept /\ ProcessPlaced /\ StatePlaced
  /\ VerdictStands /\ VerdictsHaveLogs

-----------------------------------------------------------------------------
(* The watermark. *)

\* An upload moves the watermark forward, over stored chunks only.
LEMMA WatermarkAdvances ==
  ASSUME AgentInv, NEW stored \in SUBSET (1 .. Chunks), logs.stored \subseteq stored
  PROVE  /\ AdvanceWatermark(stored) \in logs.watermark .. Chunks
         /\ 1 .. AdvanceWatermark(stored) \subseteq stored
<1> DEFINE low == logs.watermark
           Missing == {k \in Nat : k > low /\ k \notin stored}
<1>1. low \in 0 .. Chunks /\ Chunks \in Nat /\ 1 .. low \subseteq stored
  BY AgentAssumption DEF AgentInv, AgentTypeOK, WatermarksTrue
<1>2. PICK first \in Missing : \A k \in Missing : ~ (<<k, first>> \in OpToRel(<, Nat))
  <2>1. Chunks + 1 \in Missing
    BY <1>1
  <2> QED BY <2>1, NatLessThanWellFounded, WFMin, Zenon
<1>3. ASSUME NEW k \in Missing
      PROVE  first <= k
  <2>1. k \in Nat /\ first \in Nat
    OBVIOUS
  <2>2. <<k, first>> \in Nat \X Nat /\ <<k, first>>[1] = k /\ <<k, first>>[2] = first
    BY <2>1
  <2>3. ~ (k < first)
    BY <1>2, <2>2, Zenon DEF OpToRel
  <2> QED BY <2>1, <2>3
<1>4. first \in Nat /\ first > low /\ first \notin stored
  OBVIOUS
<1>5. /\ first <= Chunks + 1
      /\ \A k \in (low + 1) .. (first - 1) : k \in stored
  <2>1. Chunks + 1 \in Missing
    BY <1>1
  <2>2. first <= Chunks + 1
    BY <1>3, <2>1
  <2>3. ASSUME NEW k \in (low + 1) .. (first - 1), k \notin stored
        PROVE  FALSE
    <3>1. k \in Nat /\ k > low /\ k < first
      BY <1>1, <1>4
    <3>2. k \in Missing
      BY <2>3, <3>1
    <3> QED BY <1>3, <1>4, <3>1, <3>2
  <2> QED BY <2>2, <2>3
<1> HIDE DEF Missing
<1>6. /\ AdvanceWatermark(stored) \in low .. Chunks
      /\ (low + 1) .. AdvanceWatermark(stored) \subseteq stored
  <2>1. first - 1 \in low .. Chunks
    BY <1>1, <1>4, <1>5
  <2>2. (first - 1) + 1 = first
    BY <1>4
  <2>3. /\ (low + 1) .. (first - 1) \subseteq stored
        /\ (first - 1) + 1 \notin stored
    BY <1>4, <1>5, <2>2
  <2> QED BY <2>1, <2>3 DEF AdvanceWatermark
<1> QED BY <1>1, <1>6

\* No report carries a watermark above the one in force: accepting one changes nothing.
LEMMA ReportKeepsWatermark ==
  ASSUME AgentInv, NEW report \in mail
  PROVE  Max({logs.watermark, report.marks}) = logs.watermark
<1>1. /\ logs.watermark \in Int /\ report.marks \in Int /\ report.marks <= logs.watermark
  BY AgentAssumption DEF AgentInv, AgentTypeOK, WatermarksTrue, Report, Absent
<1> QED BY <1>1 DEF Max

\* The rows of the control plane keep their type.
LEMMA ServerTyped ==
  ASSUME AgentInv, [Next]_vars
  PROVE  server' \in Servers
<1>1. server \in Servers /\ mail \subseteq Report
  BY DEF AgentInv, AgentTypeOK, Servers
<1>2. CASE RequestCancel
  BY <1>1, <1>2 DEF RequestCancel, Servers
<1>3. CASE LeaseEnds
  BY <1>1, <1>3 DEF LeaseEnds, Servers
<1>4. CASE LeaseLapses
  BY <1>1, <1>4 DEF LeaseLapses, Servers
<1>5. CASE Recover
  BY <1>1, <1>5 DEF Recover, Servers
<1>6. CASE Claim
  BY <1>1, <1>6 DEF Claim, Servers
<1>7. CASE ClaimLost
  BY <1>1, <1>7 DEF ClaimLost, Servers
<1>8. CASE \E report \in mail : HandleReport(report)
  <2>1. PICK report \in mail : HandleReport(report)
    BY <1>8
  <2>2. report.code \in Codes /\ report.marks \in Absent .. Chunks
    BY <1>1, <2>1 DEF Report
  <2> DEFINE disposition == IF Authorized THEN "accepted" ELSE "late"
             receipt == [disposition |-> disposition, code |-> report.code, marks |-> report.marks]
  <2>3. server' = [server EXCEPT !.receipt = receipt,
                                 !.attempt = IF disposition = "accepted" THEN "ended" ELSE @]
    BY <2>1 DEF HandleReport
  <2>4. receipt \in [disposition : {"none", "accepted", "late"},
                     code : Codes \union {"none"}, marks : Absent .. Chunks]
    BY <2>2
  <2> HIDE DEF receipt
  <2> QED  BY <1>1, <2>3, <2>4 DEF Servers
<1>9. CASE UNCHANGED server
  BY <1>1, <1>9
<1> QED  BY <1>1, <1>2, <1>3, <1>4, <1>5, <1>6, <1>7, <1>8, <1>9
         DEF vars, Next, Execution, Ending, ExecuteAttempt, CreateProcess, ProcessStarted,
             ReleaseProcess, StartFails, RenewLease, LoseLease, ProcessWrites, PersistChunk,
             PersistFails, ProcessEnds, CloseSink, FlushSucceeds, FlushFails, UploadArtifacts,
             ArtifactsFail, Conclude, SendReport, ReportAnswered, ReportGivenUp,
             CleanAttemptSpool, RemoveState, Crash, SaveFails, Start, Reconcile, ReconcileClean,
             ReconcileResult, ReuploadArtifacts, ReflushSucceeds, RetransmissionFails,
             RecordResult, UploadLogs, Upload

\* The state file keeps its type.
LEMMA FileTyped ==
  ASSUME AgentInv, [Next]_vars
  PROVE  disk' \in StateFiles
<1>1. disk \in StateFiles /\ agent \in Memories /\ (At({"concluding"}) => agent.code \in Codes)
      /\ Chunks \in Nat
  BY AgentAssumption DEF AgentInv, AgentTypeOK, MemoryTyped, Memories, StateFiles, StatePlaced
<1>2. agent.acked \in Absent .. Chunks
  <2>1. agent.acked \in 0 .. Chunks
    BY <1>1 DEF Memories
  <2> QED  BY <1>1, <2>1 DEF Absent
<1>3. CASE Claim
  BY <1>1, <1>3 DEF Claim, StateFiles, NoState, Absent, Codes
<1>4. CASE ExecuteAttempt
  BY <1>1, <1>4 DEF ExecuteAttempt, StateFiles, NoState, Absent, Codes
<1>5. CASE ProcessStarted
  BY <1>1, <1>5 DEF ProcessStarted, StateFiles, NoState, Absent, Codes
<1>6. CASE \E artifacts \in BOOLEAN : RecordResult(artifacts)
  <2>1. PICK artifacts \in BOOLEAN : RecordResult(artifacts)
    BY <1>6
  <2> DEFINE first == [disk EXCEPT !.state = "uploading", !.code = "completed"]
  <2>2. first \in StateFiles
    BY <1>1 DEF StateFiles, Codes
  <2>3. disk' = [first EXCEPT !.marks = agent.acked, !.artifacts = artifacts]
    BY <2>1 DEF RecordResult
  <2> HIDE DEF first
  <2> QED  BY <1>2, <2>2, <2>3 DEF StateFiles
<1>7. CASE Conclude
  <2> DEFINE first == [disk EXCEPT !.state = "finishing", !.pid = FALSE]
             marks == IF agent.code = "completed" THEN agent.acked ELSE Absent
  <2>1. first \in StateFiles
    BY <1>1 DEF StateFiles
  <2>3. agent.code \in Codes /\ marks \in Absent .. Chunks
    BY <1>1, <1>2, <1>7 DEF Conclude, Absent
  <2>2. disk' = [first EXCEPT !.code = agent.code, !.marks = marks]
    BY <1>7 DEF Conclude
  <2> HIDE DEF first, marks
  <2> QED  BY <2>1, <2>2, <2>3 DEF StateFiles
<1>8. CASE RemoveState
  BY <1>1, <1>8 DEF RemoveState, StateFiles, NoState, Absent, Codes
<1>9. CASE ReconcileResult
  BY <1>1, <1>9 DEF ReconcileResult, StateFiles, NoState, Absent, Codes
<1>10. CASE ReuploadArtifacts
  BY <1>1, <1>10 DEF ReuploadArtifacts, StateFiles, NoState, Absent, Codes
<1>11. CASE ReflushSucceeds
  <2>1. disk' = [disk EXCEPT !.state = "finishing", !.marks = agent.acked]
    BY <1>11 DEF ReflushSucceeds
  <2> QED  BY <1>1, <1>2, <2>1 DEF StateFiles
<1>12. CASE UNCHANGED disk
  BY <1>1, <1>12
<1> QED  BY <1>1, <1>2, <1>3, <1>4, <1>5, <1>6, <1>7, <1>8, <1>9, <1>10, <1>11, <1>12
         DEF vars, Next, Execution, Ending, RequestCancel, LeaseEnds, LeaseLapses, Recover,
             ClaimLost, CreateProcess, ReleaseProcess, StartFails, RenewLease, LoseLease,
             ProcessWrites, PersistChunk, PersistFails, ProcessEnds, CloseSink, FlushSucceeds,
             FlushFails, UploadArtifacts, ArtifactsFail, SendReport, ReportAnswered,
             ReportGivenUp, CleanAttemptSpool, Crash, SaveFails, Start, Reconcile,
             ReconcileClean, RetransmissionFails, UploadLogs, HandleReport, Upload

\* The memory of the agent keeps its type.
LEMMA AgentTyped ==
  ASSUME AgentInv, [Next]_vars
  PROVE  agent' \in Memories
<1>1. agent \in Memories /\ logs.watermark \in 0 .. Chunks /\ Chunks \in Nat
  BY AgentAssumption DEF AgentInv, AgentTypeOK, MemoryTyped
<1>2. CASE Claim
  BY <1>1, <1>2 DEF Claim, Memories, Places, Memory, Codes, Goto, Decision
<1>3. CASE ExecuteAttempt
  BY <1>1, <1>3 DEF ExecuteAttempt, Memories, Places, Memory, Codes, Goto, Decision
<1>4. CASE CreateProcess
  BY <1>1, <1>4 DEF CreateProcess, Memories, Places, Memory, Codes, Goto, Decision
<1>5. CASE ProcessStarted
  BY <1>1, <1>5 DEF ProcessStarted, Memories, Places, Memory, Codes, Goto, Decision
<1>6. CASE ReleaseProcess
  BY <1>1, <1>6 DEF ReleaseProcess, Memories, Places, Memory, Codes, Goto, Decision
<1>7. CASE StartFails
  BY <1>1, <1>7 DEF StartFails, Memories, Places, Memory, Codes, Goto, Decision
<1>8. CASE RenewLease
  BY <1>1, <1>8 DEF RenewLease, Memories, Places, Memory, Codes, Goto, Decision
<1>9. CASE LoseLease
  BY <1>1, <1>9 DEF LoseLease, Memories, Places, Memory, Codes, Goto, Decision
<1>10. CASE PersistFails
  BY <1>1, <1>10 DEF PersistFails, Memories, Places, Memory, Codes, Goto, Decision
<1>11. CASE ProcessEnds
  BY <1>1, <1>11 DEF ProcessEnds, Memories, Places, Memory, Codes, Goto, Decision
<1>12. CASE CloseSink
  BY <1>1, <1>12 DEF CloseSink, Memories, Places, Memory, Codes, Goto, Decision
<1>13. CASE FlushSucceeds
  BY <1>1, <1>13 DEF FlushSucceeds, Memories, Places, Memory, Codes, Goto, Decision
<1>14. CASE FlushFails
  BY <1>1, <1>14 DEF FlushFails, Memories, Places, Memory, Codes, Goto, Decision
<1>15. CASE UploadArtifacts
  BY <1>1, <1>15 DEF UploadArtifacts, Memories, Places, Memory, Codes, Goto, Decision
<1>16. CASE ArtifactsFail
  BY <1>1, <1>16 DEF ArtifactsFail, Memories, Places, Memory, Codes, Goto, Decision
<1>17. CASE Conclude
  BY <1>1, <1>17 DEF Conclude, Memories, Places, Memory, Codes, Goto, Decision
<1>18. CASE ReportAnswered
  BY <1>1, <1>18 DEF ReportAnswered, Memories, Places, Memory, Codes, Goto, Decision
<1>19. CASE ReportGivenUp
  BY <1>1, <1>19 DEF ReportGivenUp, Memories, Places, Memory, Codes, Goto, Decision
<1>20. CASE CleanAttemptSpool
  BY <1>1, <1>20 DEF CleanAttemptSpool, Memories, Places, Memory, Codes, Goto, Decision
<1>21. CASE RemoveState
  BY <1>1, <1>21 DEF RemoveState, Memories, Places, Memory, Codes, Goto, Decision
<1>22. CASE Crash
  BY <1>1, <1>22 DEF Crash, Memories, Places, Memory, Codes, Goto, Decision
<1>23. CASE SaveFails
  BY <1>1, <1>23 DEF SaveFails, Memories, Places, Memory, Codes, Goto, Decision
<1>24. CASE Start
  BY <1>1, <1>24 DEF Start, Memories, Places, Memory, Codes, Goto, Decision
<1>25. CASE Reconcile
  BY <1>1, <1>25 DEF Reconcile, Memories, Places, Memory, Codes, Goto, Decision
<1>26. CASE ReconcileClean
  BY <1>1, <1>26 DEF ReconcileClean, Memories, Places, Memory, Codes, Goto, Decision
<1>27. CASE ReconcileResult
  <2> DEFINE pc == IF disk.artifacts THEN "reuploading" ELSE "reflushing"
  <2>1. agent' = [agent EXCEPT !.acked = 0, !.pc = pc]
    BY <1>27 DEF ReconcileResult
  <2>2. pc \in Places /\ 0 \in 0 .. Chunks
    BY <1>1 DEF Places
  <2> HIDE DEF pc
  <2> QED  BY <1>1, <2>1, <2>2 DEF Memories
<1>28. CASE ReuploadArtifacts
  BY <1>1, <1>28 DEF ReuploadArtifacts, Memories, Places, Memory, Codes, Goto, Decision
<1>29. CASE ReflushSucceeds
  BY <1>1, <1>29 DEF ReflushSucceeds, Memories, Places, Memory, Codes, Goto, Decision
<1>30. CASE RetransmissionFails
  BY <1>1, <1>30 DEF RetransmissionFails, Memories, Places, Memory, Codes, Goto, Decision
<1>31. CASE \E artifacts \in BOOLEAN : RecordResult(artifacts)
  BY <1>1, <1>31 DEF RecordResult, Goto, Memories, Places
<1>32. CASE Upload
  <2>1. PICK sent \in SUBSET spool, answered \in BOOLEAN : UploadLogs(sent, answered)
    BY <1>32 DEF Upload
  <2> DEFINE watermark == AdvanceWatermark(logs.stored \union sent)
  <2>2. watermark \in 0 .. Chunks
    BY <1>1, <2>1, WatermarkAdvances DEF AgentInv, AgentTypeOK
  <2>3. agent' = agent \/ agent' = [agent EXCEPT !.acked = watermark]
    BY <2>1 DEF UploadLogs
  <2> HIDE DEF watermark
  <2> QED  BY <1>1, <2>2, <2>3 DEF Memories
<1>33. CASE UNCHANGED agent
  BY <1>1, <1>33
<1> QED  BY <1>1, <1>2, <1>3, <1>4, <1>5, <1>6, <1>7, <1>8, <1>9, <1>10, <1>11, <1>12, <1>13,
    <1>14, <1>15, <1>16, <1>17, <1>18, <1>19, <1>20, <1>21, <1>22, <1>23, <1>24, <1>25, <1>26,
    <1>27, <1>28, <1>29, <1>30, <1>31, <1>32, <1>33
         DEF vars, Next, Execution, Ending, RequestCancel, LeaseEnds, LeaseLapses, Recover,
             ClaimLost, ProcessWrites, PersistChunk, SendReport, HandleReport

\* The store of logs, the spool and the mail keep their types.
LEMMA StoresTyped ==
  ASSUME AgentInv, [Next]_vars
  PROVE  /\ logs' \in [stored : SUBSET (1 .. Chunks), watermark : 0 .. Chunks]
         /\ spool' \subseteq 1 .. Chunks /\ mail' \subseteq Report
<1>1. /\ logs \in [stored : SUBSET (1 .. Chunks), watermark : 0 .. Chunks]
      /\ spool \subseteq 1 .. Chunks /\ mail \subseteq Report
      /\ output \in [produced : 0 .. Chunks, spooled : 0 .. Chunks]
      /\ output.spooled <= output.produced /\ Chunks \in Nat /\ disk \in StateFiles
  BY AgentAssumption DEF AgentInv, AgentTypeOK, MemoryTyped, StateFiles
<1>2. CASE PersistChunk
  BY <1>1, <1>2 DEF PersistChunk, Trimmed
<1>3. CASE SendReport
  <2>1. disk.code \in Codes
    BY <1>1, <1>3 DEF SendReport, At, AgentInv, StatePlaced, StateFiles
  <2> QED  BY <1>1, <2>1, <1>3 DEF SendReport, OwnReport, Report, StateFiles
<1>4. CASE CleanAttemptSpool
  BY <1>1, <1>4 DEF CleanAttemptSpool, Trimmed
<1>5. CASE ReconcileResult
  BY <1>1, <1>5 DEF ReconcileResult, Trimmed
<1>6. CASE Upload
  <2>1. PICK sent \in SUBSET spool, answered \in BOOLEAN : UploadLogs(sent, answered)
    BY <1>6 DEF Upload
  <2> DEFINE stored == logs.stored \union sent
             watermark == AdvanceWatermark(stored)
  <2>2. stored \in SUBSET (1 .. Chunks) /\ logs.stored \subseteq stored /\ logs.watermark \in 0 .. Chunks
    BY <1>1, <2>1
  <2>3. watermark \in logs.watermark .. Chunks
    BY <2>2, WatermarkAdvances
  <2>4. /\ logs' = [stored |-> stored, watermark |-> watermark]
        /\ spool' = spool \/ spool' = Trimmed(watermark)
        /\ mail' = mail
    BY <2>1 DEF UploadLogs
  <2> HIDE DEF watermark, stored
  <2>5. watermark \in 0 .. Chunks
    BY <1>1, <2>2, <2>3
  <2> QED  BY <1>1, <2>2, <2>4, <2>5 DEF Trimmed
<1>7. CASE \E report \in mail : HandleReport(report)
  <2>1. PICK report \in mail : HandleReport(report)
    BY <1>7
  <2>2. logs' = logs
    BY <1>1, <2>1, ReportKeepsWatermark DEF HandleReport
  <2> QED  BY <1>1, <2>1, <2>2 DEF HandleReport
<1>8. CASE UNCHANGED <<logs, spool, mail>>
  BY <1>1, <1>8
<1> QED  BY <1>1, <1>2, <1>3, <1>4, <1>5, <1>6, <1>7, <1>8
         DEF vars, Next, Execution, Ending, RequestCancel, LeaseEnds, LeaseLapses, Recover,
             Claim, ClaimLost, ExecuteAttempt, CreateProcess, ProcessStarted, ReleaseProcess,
             StartFails, RenewLease, LoseLease, ProcessWrites, PersistFails, ProcessEnds,
             CloseSink, FlushSucceeds, FlushFails, UploadArtifacts, ArtifactsFail, Conclude,
             ReportAnswered, ReportGivenUp, RemoveState, Crash, SaveFails, Start, Reconcile,
             ReconcileClean, ReuploadArtifacts, ReflushSucceeds, RetransmissionFails,
             RecordResult

\* The process, its output and the count of faults keep their types.
LEMMA ProcessTyped ==
  ASSUME AgentInv, [Next]_vars
  PROVE  /\ process' \in {"none", "gated", "running"} /\ faults' \in 0 .. MaxFaults
         /\ output' \in [produced : 0 .. Chunks, spooled : 0 .. Chunks]
         /\ output'.spooled <= output'.produced
<1>1. /\ process \in {"none", "gated", "running"} /\ faults \in 0 .. MaxFaults
      /\ output \in [produced : 0 .. Chunks, spooled : 0 .. Chunks]
      /\ output.spooled <= output.produced /\ Chunks \in Nat /\ MaxFaults \in Nat
  BY AgentAssumption DEF AgentInv, AgentTypeOK, MemoryTyped
<1>2. CASE CreateProcess
  BY <1>1, <1>2 DEF CreateProcess, Orphaned
<1>3. CASE ReleaseProcess
  BY <1>1, <1>3 DEF ReleaseProcess, Orphaned
<1>4. CASE StartFails
  BY <1>1, <1>4 DEF StartFails, Orphaned
<1>5. CASE ProcessWrites
  BY <1>1, <1>5 DEF ProcessWrites, Orphaned
<1>6. CASE PersistChunk
  BY <1>1, <1>6 DEF PersistChunk, Orphaned
<1>7. CASE ProcessEnds
  BY <1>1, <1>7 DEF ProcessEnds, Orphaned
<1>8. CASE Crash
  BY <1>1, <1>8 DEF Crash, Orphaned
<1>9. CASE SaveFails
  BY <1>1, <1>9 DEF SaveFails, Orphaned
<1>10. CASE Reconcile
  BY <1>1, <1>10 DEF Reconcile, Orphaned
<1>11. CASE UNCHANGED <<process, output, faults>>
  BY <1>1, <1>11
<1> QED  BY <1>1, <1>2, <1>3, <1>4, <1>5, <1>6, <1>7, <1>8, <1>9, <1>10, <1>11
         DEF vars, Next, Execution, Ending, RequestCancel, LeaseEnds, LeaseLapses, Recover,
             Claim, ClaimLost, ExecuteAttempt, ProcessStarted, RenewLease, LoseLease,
             PersistFails, CloseSink, FlushSucceeds, FlushFails, UploadArtifacts, ArtifactsFail,
             Conclude, SendReport, ReportAnswered, ReportGivenUp, CleanAttemptSpool,
             RemoveState, Start, ReconcileClean, ReconcileResult, ReuploadArtifacts,
             ReflushSucceeds, RetransmissionFails, RecordResult, UploadLogs, HandleReport,
             Upload

LEMMA TypesKept ==
  ASSUME AgentInv, [Next]_vars
  PROVE  AgentTypeOK' /\ MemoryTyped'
<1>1. /\ server' \in Servers /\ disk' \in StateFiles /\ agent' \in Memories
      /\ logs' \in [stored : SUBSET (1 .. Chunks), watermark : 0 .. Chunks]
      /\ spool' \subseteq 1 .. Chunks /\ mail' \subseteq Report
  BY ServerTyped, FileTyped, AgentTyped, StoresTyped
<1>2. /\ process' \in {"none", "gated", "running"} /\ faults' \in 0 .. MaxFaults
      /\ output' \in [produced : 0 .. Chunks, spooled : 0 .. Chunks]
      /\ output'.spooled <= output'.produced
  BY ProcessTyped
<1> QED  BY <1>1, <1>2 DEF AgentTypeOK, MemoryTyped, Servers, StateFiles

-----------------------------------------------------------------------------
(* The steps. *)

Kept ==
  /\ WatermarksTrue /\ SpoolKept /\ ProcessPlaced /\ StatePlaced
  /\ VerdictStands /\ VerdictsHaveLogs

\* Until the conclusion nothing is reported, and the state file holds no result before one
\* is recorded.
LEMMA NothingReported ==
  ASSUME AgentInv, At(Executing)
  PROVE  /\ mail = {} /\ server.receipt = NoReceipt
         /\ ~At({"recording", "uploading", "concluding"}) => disk.code = "none"
  BY DEF AgentInv, VerdictStands, StatePlaced, At

LEMMA ClaimKeeps ==
  ASSUME AgentInv, Claim, AgentTypeOK', MemoryTyped'
  PROVE  Kept'
<1>1. /\ disk = NoState /\ mail = {} /\ server.receipt = NoReceipt
  BY DEF Claim, AgentInv, StatePlaced, VerdictStands
<1>2. /\ server'.attempt = "running" /\ server'.receipt = server.receipt
      /\ server.attempt = "offered"
      /\ disk'.state = "claimed" /\ disk'.code = "none" /\ disk'.marks = Absent
      /\ disk'.pid = FALSE
      /\ agent'.pc = "claimed" /\ agent'.acked = agent.acked /\ At({"claiming"})
      /\ UNCHANGED <<logs, spool, process, output, mail>>
  BY <1>1 DEF Claim, Goto, NoState, At, AgentInv, AgentTypeOK, MemoryTyped, Memories
<1>3. WatermarksTrue' /\ SpoolKept' /\ ProcessPlaced'
  <2>1. Absent <= logs.watermark
    BY DEF AgentInv, AgentTypeOK, Absent
  <2> QED  BY <1>1, <1>2, <2>1 DEF AgentInv, WatermarksTrue, SpoolKept, ProcessPlaced, Over, At
<1>4. StatePlaced' /\ VerdictStands'
  BY <1>1, <1>2 DEF AgentInv, StatePlaced, VerdictStands, OneVerdict, At, Executing
<1>5. VerdictsHaveLogs'
  BY <1>1, <1>2 DEF AgentInv, VerdictsHaveLogs, ResultHasItsLogs, At, NoReceipt
<1> QED  BY <1>3, <1>4, <1>5 DEF Kept

LEMMA ProcessWritesKeeps ==
  ASSUME AgentInv, ProcessWrites, AgentTypeOK', MemoryTyped'
  PROVE  Kept'
<1>1. /\ mail = {} /\ server.receipt = NoReceipt /\ disk.code = "none" /\ At({"executing"})
  BY NothingReported DEF ProcessWrites, At, Executing
<1>2. /\ UNCHANGED <<server, logs, disk, spool, process, agent, mail>>
      /\ output'.spooled = output.spooled
  BY DEF ProcessWrites, AgentInv, MemoryTyped
<1>3. WatermarksTrue' /\ SpoolKept' /\ ProcessPlaced' /\ StatePlaced' /\ VerdictStands'
  BY <1>2 DEF AgentInv, WatermarksTrue, SpoolKept, ProcessPlaced, StatePlaced, VerdictStands,
              OneVerdict, Over, At
<1>4. VerdictsHaveLogs'
  BY <1>1, <1>2 DEF VerdictsHaveLogs, ResultHasItsLogs, At, NoReceipt
<1> QED  BY <1>3, <1>4 DEF Kept

LEMMA PersistChunkKeeps ==
  ASSUME AgentInv, PersistChunk, AgentTypeOK', MemoryTyped'
  PROVE  Kept'
<1>1. /\ mail = {} /\ server.receipt = NoReceipt /\ disk.code = "none"
      /\ At({"executing", "closing"})
  BY NothingReported DEF PersistChunk, At, Executing
<1>2. /\ UNCHANGED <<server, logs, disk, process, agent, mail>>
      /\ output'.spooled = output.spooled + 1 /\ output.spooled \in Nat
      /\ spool' = spool \union {output.spooled + 1}
  BY AgentAssumption DEF PersistChunk, AgentInv, MemoryTyped
<1>3. WatermarksTrue' /\ ProcessPlaced' /\ StatePlaced' /\ VerdictStands'
  BY <1>2 DEF AgentInv, WatermarksTrue, ProcessPlaced, StatePlaced, VerdictStands, OneVerdict, At
<1>4. SpoolKept'
  <2>1. 1 .. output'.spooled = (1 .. output.spooled) \union {output.spooled + 1}
    BY <1>2
  <2> QED  BY <1>2, <2>1 DEF AgentInv, SpoolKept, Over, At
<1>5. VerdictsHaveLogs'
  BY <1>1, <1>2 DEF VerdictsHaveLogs, ResultHasItsLogs, At, NoReceipt
<1> QED  BY <1>3, <1>4, <1>5 DEF Kept

LEMMA SendReportKeeps ==
  ASSUME AgentInv, SendReport, AgentTypeOK', MemoryTyped'
  PROVE  Kept'
<1>1. /\ UNCHANGED <<server, logs, disk, spool, process, agent, output>>
      /\ mail' = mail \union {OwnReport} /\ At({"reporting"}) /\ server.lease = "valid"
      /\ OwnReport.code = disk.code /\ OwnReport.marks = disk.marks
  BY DEF SendReport, OwnReport, WithinDeadline
<1>2. disk.state # "none" /\ server.attempt # "offered" /\ ~At(Executing)
  BY <1>1 DEF AgentInv, StatePlaced, At, Executing
<1>3. WatermarksTrue' /\ SpoolKept' /\ ProcessPlaced' /\ StatePlaced'
  BY <1>1 DEF AgentInv, WatermarksTrue, SpoolKept, ProcessPlaced, StatePlaced, Over, At
<1>4. VerdictStands'
  BY <1>1, <1>2 DEF AgentInv, VerdictStands, OneVerdict, At
<1>5. VerdictsHaveLogs'
  BY <1>1 DEF AgentInv, VerdictsHaveLogs, WithLogs, ResultHasItsLogs, Over, At
<1> QED  BY <1>3, <1>4, <1>5 DEF Kept

LEMMA StartKeeps ==
  ASSUME AgentInv, Start, AgentTypeOK', MemoryTyped'
  PROVE  Kept'
<1>1. /\ UNCHANGED <<server, logs, disk, spool, process, output, mail>>
      /\ agent'.pc = IF disk.state = "none" THEN "claiming" ELSE "reconciling"
      /\ agent'.acked = agent.acked /\ At({"down"})
  BY DEF Start, Goto, AgentInv, MemoryTyped, Memories
<1>2. disk.state = "none" => ~disk.pid
  BY DEF AgentInv, StatePlaced, NoState
<1>3. WatermarksTrue' /\ SpoolKept' /\ ProcessPlaced'
  BY <1>1, <1>2 DEF AgentInv, WatermarksTrue, SpoolKept, ProcessPlaced, Over, At
<1>4. StatePlaced' /\ VerdictStands'
  BY <1>1 DEF AgentInv, StatePlaced, VerdictStands, OneVerdict, At, Executing
<1>5. VerdictsHaveLogs'
  BY <1>1 DEF AgentInv, VerdictsHaveLogs, WithLogs, ResultHasItsLogs, Over, At
<1> QED  BY <1>3, <1>4, <1>5 DEF Kept

\* A restarted agent writes down a verdict only if there is none.
LEMMA ReconcileResultKeeps ==
  ASSUME AgentInv, ReconcileResult, AgentTypeOK', MemoryTyped'
  PROVE  Kept'
<1>1. /\ UNCHANGED <<server, logs, process, output, mail>>
      /\ spool' = Trimmed(agent.acked) /\ At({"deciding"})
      /\ agent'.acked = 0 /\ agent'.pc \in {"reuploading", "reflushing"}
  BY DEF ReconcileResult, AgentInv, MemoryTyped, Memories
<1>2. /\ disk'.state # "none" /\ disk'.marks = disk.marks
      /\ disk.code # "none" => disk' = disk
      /\ disk.code = "none" => disk'.code \in {"EXECUTION_CANCELLED", "AGENT_RESTARTED"}
  <2>1. disk.state # "none"
    BY <1>1 DEF AgentInv, StatePlaced, At
  <2> QED  BY <2>1 DEF ReconcileResult, AgentInv, AgentTypeOK
<1>3. WatermarksTrue' /\ SpoolKept'
  <2>1. 0 <= logs.watermark
    BY DEF AgentInv, AgentTypeOK
  <2>2. ~Over => 1 .. output.spooled \subseteq Trimmed(agent.acked) \union logs.stored
    <3>1. /\ agent.acked \in Nat /\ logs.watermark \in Nat /\ agent.acked <= logs.watermark
          /\ 1 .. logs.watermark \subseteq logs.stored /\ output.spooled \in Nat
          /\ spool \subseteq Nat
      BY AgentAssumption DEF AgentInv, AgentTypeOK, MemoryTyped, Memories, WatermarksTrue
    <3>2. \A c \in spool \ Trimmed(agent.acked) : c \in Nat /\ c <= agent.acked
      BY <3>1 DEF Trimmed
    <3>3. \A c \in 1 .. output.spooled : c <= agent.acked => c \in logs.stored
      BY <3>1
    <3> QED  BY <3>2, <3>3 DEF AgentInv, SpoolKept
  <2> QED  BY <1>1, <1>2, <2>1, <2>2 DEF AgentInv, WatermarksTrue, SpoolKept, Over, At
<1>4. ProcessPlaced' /\ StatePlaced'
  BY <1>1, <1>2 DEF AgentInv, ProcessPlaced, StatePlaced, At, Executing
<1>5. VerdictStands'
  <2>1. disk.state # "none"
    BY <1>1 DEF AgentInv, StatePlaced, At
  <2>2. disk.code = "none" => mail = {}
    <3>1. \A m \in mail : m.code # "none"
      BY DEF AgentInv, AgentTypeOK, Report, Codes
    <3> QED  BY <2>1, <3>1 DEF AgentInv, VerdictStands
  <2> QED  BY <1>1, <1>2, <2>1, <2>2 DEF AgentInv, VerdictStands, OneVerdict, At, Executing
<1>6. VerdictsHaveLogs'
  BY <1>1, <1>2 DEF AgentInv, VerdictsHaveLogs, WithLogs, ResultHasItsLogs, Over, At
<1> QED  BY <1>3, <1>4, <1>5, <1>6 DEF Kept

\* An upload takes from the spool only what is stored.
LEMMA UploadKeeps ==
  ASSUME AgentInv, Upload, AgentTypeOK', MemoryTyped'
  PROVE  Kept'
<1>1. PICK sent \in SUBSET spool, answered \in BOOLEAN : UploadLogs(sent, answered)
  BY DEF Upload
<1> DEFINE stored == logs.stored \union sent
           watermark == AdvanceWatermark(stored)
<1>2. /\ logs.stored \subseteq stored /\ stored \in SUBSET (1 .. Chunks)
      /\ logs.watermark \in Nat /\ spool \subseteq Nat /\ output.spooled \in Nat
      /\ Chunks \in Nat
  <2>1. logs.stored \in SUBSET (1 .. Chunks) /\ spool \in SUBSET (1 .. Chunks)
    BY DEF AgentInv, AgentTypeOK
  <2>2. logs.watermark \in Nat /\ output.spooled \in Nat /\ Chunks \in Nat
    BY AgentAssumption DEF AgentInv, AgentTypeOK, MemoryTyped
  <2>3. stored \in SUBSET (1 .. Chunks) /\ logs.stored \subseteq stored
    BY <2>1, Zenon
  <2>4. spool \subseteq Nat
    <3>1. \A c \in 1 .. Chunks : c \in Nat
      BY <2>2
    <3> QED  BY <2>1, <3>1
  <2> QED  BY <2>2, <2>3, <2>4
<1>3. watermark \in logs.watermark .. Chunks /\ 1 .. watermark \subseteq stored
  BY <1>2, WatermarkAdvances
<1>4. /\ logs'.stored = stored /\ logs'.watermark = watermark
      /\ UNCHANGED <<server, disk, process, output, mail>>
      /\ \/ spool' = spool /\ agent' = agent
         \/ spool' = Trimmed(watermark) /\ agent' = [agent EXCEPT !.acked = watermark]
  BY <1>1 DEF UploadLogs
<1> HIDE DEF watermark, stored
<1>5. agent'.pc = agent.pc /\ agent'.code = agent.code /\ agent'.decision = agent.decision
      /\ agent'.acked \in {agent.acked, watermark}
  BY <1>4 DEF AgentInv, MemoryTyped, Memories
<1>6. WatermarksTrue'
  <2>1. /\ agent.acked \in Int /\ disk.marks \in Int /\ \A m \in mail : m.marks \in Int
        /\ watermark \in Int /\ logs.watermark <= watermark
    BY <1>2, <1>3 DEF AgentInv, AgentTypeOK, MemoryTyped, Memories, Report, Absent
  <2> QED  BY <1>2, <1>3, <1>4, <1>5, <2>1 DEF AgentInv, WatermarksTrue
<1>7. SpoolKept'
  <2>1. \A c \in spool \ spool' : c \in stored
    <3>1. \A c \in spool \ Trimmed(watermark) : c \in 1 .. watermark
      BY <1>2, <1>3 DEF Trimmed, AgentInv, AgentTypeOK
    <3> QED  BY <1>3, <1>4, <3>1
  <2> QED  BY <1>2, <1>4, <1>5, <2>1 DEF AgentInv, SpoolKept, Over, At
<1>8. ProcessPlaced' /\ StatePlaced' /\ VerdictStands'
  BY <1>4, <1>5 DEF AgentInv, ProcessPlaced, StatePlaced, VerdictStands, OneVerdict, At
<1>9. VerdictsHaveLogs'
  BY <1>2, <1>4, <1>5 DEF AgentInv, VerdictsHaveLogs, WithLogs, ResultHasItsLogs, Over, At
<1> QED  BY <1>6, <1>7, <1>8, <1>9 DEF Kept

\* The receipt of an accepted report repeats what its logs already bear out.
LEMMA HandleReportKeeps ==
  ASSUME AgentInv, NEW report \in mail, HandleReport(report), AgentTypeOK', MemoryTyped'
  PROVE  Kept'
<1>1. /\ UNCHANGED <<disk, spool, process, agent, output, mail>>
      /\ logs' = logs /\ server.receipt = NoReceipt
      /\ server'.receipt.code = report.code
      /\ server'.attempt \in {server.attempt, "ended"}
      /\ server'.receipt.disposition = "accepted" => server.attempt = "running"
      /\ mail # {}
  BY ReportKeepsWatermark DEF HandleReport, Authorized, AgentInv, AgentTypeOK
<1>2. Over'
  BY DEF HandleReport, Over, NoReceipt, AgentInv, AgentTypeOK
<1>3. WatermarksTrue' /\ SpoolKept' /\ ProcessPlaced' /\ StatePlaced'
  BY <1>1, <1>2 DEF AgentInv, WatermarksTrue, SpoolKept, ProcessPlaced, StatePlaced, At
<1>4. VerdictStands'
  BY <1>1 DEF AgentInv, VerdictStands, OneVerdict, At
<1>5. VerdictsHaveLogs'
  <2>1. server'.receipt.disposition = "accepted" => WithLogs(report.code)
    BY <1>1 DEF AgentInv, VerdictsHaveLogs, Over
  <2> QED  BY <1>1, <1>2, <2>1 DEF VerdictsHaveLogs, ResultHasItsLogs, WithLogs
<1> QED  BY <1>3, <1>4, <1>5 DEF Kept

\* No step leaves the invariant.
LEMMA StepKeeps ==
  ASSUME AgentInv, Next
  PROVE  Kept'
<1>1. AgentTypeOK' /\ MemoryTyped'
  BY TypesKept
<1> USE <1>1, AgentAssumption DEF Kept, At, Goto, AgentInv, AgentTypeOK, MemoryTyped, Memories,
    WatermarksTrue, SpoolKept, ProcessPlaced, StatePlaced, VerdictStands, OneVerdict,
    VerdictsHaveLogs, WithLogs, ResultHasItsLogs, Over, Executing
<1>2. CASE RequestCancel
  BY <1>2 DEF RequestCancel
<1>3. CASE LeaseEnds
  BY <1>3 DEF LeaseEnds
<1>4. CASE LeaseLapses
  BY <1>4 DEF LeaseLapses
<1>5. CASE Recover
  BY <1>5 DEF Recover
<1>6. CASE Claim
  BY <1>6, ClaimKeeps
<1>7. CASE ClaimLost
  BY <1>7 DEF ClaimLost
<1>8. CASE ExecuteAttempt
  BY <1>8 DEF ExecuteAttempt
<1>9. CASE CreateProcess
  BY <1>9 DEF CreateProcess
<1>10. CASE ProcessStarted
  BY <1>10 DEF ProcessStarted
<1>11. CASE ReleaseProcess
  BY <1>11 DEF ReleaseProcess
<1>12. CASE StartFails
  BY <1>12 DEF StartFails
<1>13. CASE RenewLease
  BY <1>13 DEF RenewLease
<1>14. CASE LoseLease
  BY <1>14 DEF LoseLease
<1>15. CASE ProcessWrites
  BY <1>15, ProcessWritesKeeps
<1>16. CASE PersistChunk
  BY <1>16, PersistChunkKeeps
<1>17. CASE PersistFails
  BY <1>17 DEF PersistFails
<1>18. CASE ProcessEnds
  BY <1>18 DEF ProcessEnds
<1>19. CASE CloseSink
  BY <1>19 DEF CloseSink, SinkDrained
<1>20. CASE FlushSucceeds
  BY <1>20 DEF FlushSucceeds
<1>21. CASE FlushFails
  BY <1>21 DEF FlushFails
<1>22. CASE UploadArtifacts
  BY <1>22 DEF UploadArtifacts, Authorized
<1>23. CASE ArtifactsFail
  BY <1>23 DEF ArtifactsFail
<1>24. CASE Conclude
  BY <1>24 DEF Conclude, Memory, Absent
<1>25. CASE SendReport
  BY <1>25, SendReportKeeps
<1>26. CASE ReportAnswered
  BY <1>26 DEF ReportAnswered, OwnReport, NoReceipt
<1>27. CASE ReportGivenUp
  BY <1>27 DEF ReportGivenUp, Memory
<1>28. CASE CleanAttemptSpool
  BY <1>28 DEF CleanAttemptSpool
<1>29. CASE RemoveState
  BY <1>29 DEF RemoveState, NoState, Memory
<1>30. CASE Crash
  BY <1>30 DEF Crash, Memory, Orphaned
<1>31. CASE SaveFails
  BY <1>31 DEF SaveFails, Memory
<1>32. CASE Start
  BY <1>32, StartKeeps
<1>33. CASE Reconcile
  BY <1>33 DEF Reconcile, Decision
<1>34. CASE ReconcileClean
  BY <1>34 DEF ReconcileClean
<1>35. CASE ReconcileResult
  BY <1>35, ReconcileResultKeeps
<1>36. CASE ReuploadArtifacts
  BY <1>36 DEF ReuploadArtifacts, Authorized
<1>37. CASE ReflushSucceeds
  BY <1>37 DEF ReflushSucceeds, Memory
<1>38. CASE RetransmissionFails
  BY <1>38 DEF RetransmissionFails, Memory, Authorized
<1>39. CASE \E artifacts \in BOOLEAN : RecordResult(artifacts)
  BY <1>39 DEF RecordResult
<1>40. CASE Upload
  BY <1>40, UploadKeeps
<1>41. CASE \E report \in mail : HandleReport(report)
  BY <1>41, HandleReportKeeps
<1> QED  BY <1>2, <1>3, <1>4, <1>5, <1>6, <1>7, <1>8, <1>9, <1>10, <1>11, <1>12, <1>13, <1>14,
    <1>15, <1>16, <1>17, <1>18, <1>19, <1>20, <1>21, <1>22, <1>23, <1>24, <1>25, <1>26, <1>27,
    <1>28, <1>29, <1>30, <1>31, <1>32, <1>33, <1>34, <1>35, <1>36, <1>37, <1>38, <1>39, <1>40,
    <1>41
         DEF Next, Execution, Ending

-----------------------------------------------------------------------------
(* Theorems. *)

(***************************************************************************)
(* AgentInv holds at the start and after every step of the agent, of its   *)
(* process, of the control plane and of the network.                       *)
(***************************************************************************)
THEOREM AgentSound == Spec => []AgentInv
<1>1. Init => AgentInv
  <2> SUFFICES ASSUME Init PROVE AgentInv
    OBVIOUS
  <2>1. AgentTypeOK /\ MemoryTyped
    BY AgentAssumption DEF Init, AgentTypeOK, MemoryTyped, Memories, Memory, Places, NoReceipt,
      NoState, Absent, Codes, Report
  <2>2. WatermarksTrue /\ SpoolKept
    BY DEF Init, WatermarksTrue, SpoolKept, At, Memory, NoState, Absent
  <2>3. ProcessPlaced /\ StatePlaced /\ VerdictStands /\ VerdictsHaveLogs
    BY DEF Init, ProcessPlaced, StatePlaced, VerdictStands, OneVerdict, VerdictsHaveLogs,
      ResultHasItsLogs, WithLogs, At, Executing, Memory, NoState, NoReceipt
  <2> QED  BY <2>1, <2>2, <2>3 DEF AgentInv
<1>2. AgentInv /\ [Next]_vars => AgentInv'
  <2>1. CASE Next
    BY <2>1, TypesKept, StepKeeps DEF AgentInv, Kept
  <2>2. CASE UNCHANGED vars
    BY <2>2 DEF vars, AgentInv, AgentTypeOK, MemoryTyped, WatermarksTrue, SpoolKept, ProcessPlaced,
      StatePlaced, VerdictStands, OneVerdict, VerdictsHaveLogs, WithLogs, ResultHasItsLogs, Over, At
  <2> QED  BY <2>1, <2>2
<1> QED  BY <1>1, <1>2, PTL DEF Spec

(***************************************************************************)
(* No chunk of log is lost, whatever is uploaded, acknowledged, trimmed,   *)
(* repeated after a restart or answered in vain (LogsAreKept): the spool   *)
(* is trimmed by a watermark over stored chunks only.                      *)
(***************************************************************************)
THEOREM LogsSafe == Spec => []LogsAreKept
<1>1. AgentInv => LogsAreKept
  BY DEF AgentInv, LogsAreKept, WatermarksTrue, SpoolKept, Over
<1> QED  BY <1>1, AgentSound, PTL

(***************************************************************************)
(* An accepted result has its logs (ResultHasItsLogs), from the flush      *)
(* before the result is written down or the one after a restart.           *)
(***************************************************************************)
THEOREM ResultsHaveLogs == Spec => []ResultHasItsLogs
<1>1. AgentInv => ResultHasItsLogs
  BY DEF AgentInv, VerdictsHaveLogs
<1> QED  BY <1>1, AgentSound, PTL

(***************************************************************************)
(* All reports of the attempt carry one verdict (OneVerdict), through any  *)
(* number of crashes, conflicts and decisions of the control plane.        *)
(***************************************************************************)
THEOREM VerdictIsOne == Spec => []OneVerdict
<1>1. AgentInv => OneVerdict
  BY DEF AgentInv, VerdictStands
<1> QED  BY <1>1, AgentSound, PTL

(***************************************************************************)
(* A running process is recorded, and no agent claims or cleans up beside  *)
(* one it lost (NoStrayProcess): the gate opens only after the record.     *)
(***************************************************************************)
THEOREM ProcessesSafe == Spec => []NoStrayProcess
<1>1. AgentInv => NoStrayProcess
  BY DEF AgentInv, ProcessPlaced, NoStrayProcess, At
<1> QED  BY <1>1, AgentSound, PTL

=============================================================================
