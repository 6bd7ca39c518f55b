----------------------------- MODULE RunnerAgent -----------------------------
(***************************************************************************)
(* One attempt on one runner agent: what the agent keeps on its disk, the  *)
(* process it starts, the logs it spools and uploads, the report it makes, *)
(* and what it does with all of it when it is started again.  The control  *)
(* plane is reduced to what an agent can tell of it: whether the attempt   *)
(* goes on, whether the lease is honoured, whether a cancellation was      *)
(* asked for, the receipt of a report and the store of logs.  The agent    *)
(* has one slot.                                                           *)
(***************************************************************************)
EXTENDS Integers, FiniteSets, FiniteSetsExt

CONSTANTS Chunks,        \* how many chunks of log the process may write
          OtherRunners,  \* whether other runners claim work from the same control plane
          MaxFaults      \* bound on crashes and refused writes of the agent

ASSUME AgentAssumption ==
  Chunks \in Nat /\ OtherRunners \in BOOLEAN /\ MaxFaults \in Nat

VARIABLES server,   \* the rows of the attempt, its assignment, its lease and its receipt
          logs,     \* the stored chunks and the acknowledged watermark
          disk,     \* the state file of the attempt
          spool,    \* the chunks in the log spool
          process,  \* the process group of the attempt
          agent,    \* the memory of the agent
          output,   \* history: chunks the process wrote, chunks that reached the spool
          mail,     \* every report ever sent: each may arrive late and twice
          faults

vars == <<server, logs, disk, spool, process, agent, output, mail, faults>>

Absent == -1  \* a result that carries no watermark

Codes == {"completed", "LOG_SPOOL_WRITE_FAILED", "LOG_UPLOAD_FAILED", "ARTIFACT_UPLOAD_FAILED",
          "PROCESS_START_FAILED", "AGENT_RESTARTED", "EXECUTION_CANCELLED"}

Report == [code : Codes, marks : Absent .. Chunks]

NoReceipt == [disposition |-> "none", code |-> "none", marks |-> Absent]

NoState == [state |-> "none", pid |-> FALSE, code |-> "none", marks |-> Absent, artifacts |-> FALSE]

Memory(pc) ==
  [pc |-> pc, renewing |-> FALSE, live |-> FALSE, reportAllowed |-> FALSE,
   sinkFailed |-> FALSE, acked |-> 0, code |-> "none", decision |-> "none"]

Init ==
  /\ server = [attempt |-> "offered", lease |-> "none", cancelAsked |-> FALSE, receipt |-> NoReceipt]
  /\ logs = [stored |-> {}, watermark |-> 0]
  /\ disk = NoState /\ spool = {} /\ process = "none"
  /\ agent = Memory("claiming")
  /\ output = [produced |-> 0, spooled |-> 0]
  /\ mail = {} /\ faults = 0

At(pcs) == agent.pc \in pcs

Goto(pc) == agent' = [agent EXCEPT !.pc = pc]

\* The control plane stores an upload, or an artifact, only under an active lease.
Authorized == server.attempt = "running" /\ server.lease # "lapsed"

\* The agent's own deadline is never later than the control plane's.
WithinDeadline == server.lease = "valid"

-----------------------------------------------------------------------------
(* The control plane. *)

RequestCancel ==
  /\ server.attempt = "running"
  /\ server' = [server EXCEPT !.cancelAsked = TRUE]
  /\ UNCHANGED <<logs, disk, spool, process, agent, output, mail, faults>>

LeaseEnds ==
  /\ server.lease = "valid"
  /\ server' = [server EXCEPT !.lease = "ending"]
  /\ UNCHANGED <<logs, disk, spool, process, agent, output, mail, faults>>

LeaseLapses ==
  /\ server.lease = "ending"
  /\ server' = [server EXCEPT !.lease = "lapsed"]
  /\ UNCHANGED <<logs, disk, spool, process, agent, output, mail, faults>>

\* Expired attempts are recovered while some runner's claim is served.
Recover ==
  /\ server.attempt = "running" /\ server.lease = "lapsed"
  /\ OtherRunners \/ At({"claiming"})
  /\ server' = [server EXCEPT !.attempt = "ended"]
  /\ UNCHANGED <<logs, disk, spool, process, agent, output, mail, faults>>

\* A report that arrives without a receipt gets one: it ends the attempt, or comes late.
HandleReport(report) ==
  /\ server.receipt = NoReceipt
  /\ LET disposition == IF Authorized THEN "accepted" ELSE "late"
     IN  /\ server' = [server EXCEPT
              !.receipt = [disposition |-> disposition, code |-> report.code, marks |-> report.marks],
              !.attempt = IF disposition = "accepted" THEN "ended" ELSE @]
         /\ logs' = IF disposition = "accepted"
                      THEN [logs EXCEPT !.watermark = Max({@, report.marks})] ELSE logs
  /\ UNCHANGED <<disk, spool, process, agent, output, mail, faults>>

\* The watermark advances over chunks that follow it without a gap.
AdvanceWatermark(stored) ==
  CHOOSE w \in logs.watermark .. Chunks :
    /\ (logs.watermark + 1) .. w \subseteq stored
    /\ w + 1 \notin stored

-----------------------------------------------------------------------------
(* Claiming and launching. *)

\* startAttempt writes the state file before anything else is done for the attempt.
Claim ==
  /\ At({"claiming"}) /\ disk.state = "none" /\ server.attempt = "offered"
  /\ server' = [server EXCEPT !.attempt = "running", !.lease = "valid"]
  /\ disk' = [disk EXCEPT !.state = "claimed"]
  /\ Goto("claimed")
  /\ UNCHANGED <<logs, spool, process, output, mail, faults>>

\* The answer is lost, or the state file cannot be written: nobody works for the lease.
ClaimLost ==
  /\ At({"claiming"}) /\ server.attempt = "offered"
  /\ server' = [server EXCEPT !.attempt = "running", !.lease = "valid"]
  /\ UNCHANGED <<logs, disk, spool, process, agent, output, mail, faults>>

ExecuteAttempt ==
  /\ At({"claimed"})
  /\ disk' = [disk EXCEPT !.state = "running"]
  /\ agent' = [agent EXCEPT !.pc = "launching", !.renewing = TRUE, !.live = TRUE, !.reportAllowed = TRUE]
  /\ UNCHANGED <<server, logs, spool, process, output, mail, faults>>

\* The process group exists, but waits for the byte that starts it.
CreateProcess ==
  /\ At({"launching"})
  /\ process' = "gated"
  /\ Goto("created")
  /\ UNCHANGED <<server, logs, disk, spool, output, mail, faults>>

ProcessStarted ==
  /\ At({"created"})
  /\ disk' = [disk EXCEPT !.pid = TRUE]
  /\ Goto("recorded")
  /\ UNCHANGED <<server, logs, spool, process, output, mail, faults>>

ReleaseProcess ==
  /\ At({"recorded"})
  /\ process' = "running"
  /\ Goto("executing")
  /\ UNCHANGED <<server, logs, disk, spool, output, mail, faults>>

\* Inputs cannot be prepared, the process cannot be created, recorded or released.
StartFails ==
  /\ At({"launching", "created", "recorded"})
  /\ process' = "none"
  /\ agent' = [agent EXCEPT !.pc = "concluding", !.code = "PROCESS_START_FAILED"]
  /\ UNCHANGED <<server, logs, disk, spool, output, mail, faults>>

-----------------------------------------------------------------------------
(* The renewal of the lease, beside everything else. *)

\* The instruction to cancel ends the renewals; the report stays allowed.
RenewLease ==
  /\ agent.renewing /\ WithinDeadline /\ server.attempt = "running" /\ server.cancelAsked
  /\ agent' = [agent EXCEPT !.renewing = FALSE, !.live = FALSE]
  /\ UNCHANGED <<server, logs, disk, spool, process, output, mail, faults>>

\* The deadline is passed, or the control plane rejects the lease for good.
LoseLease ==
  /\ agent.renewing /\ (~WithinDeadline \/ server.attempt = "ended")
  /\ agent' = [agent EXCEPT !.renewing = FALSE, !.live = FALSE, !.reportAllowed = FALSE]
  /\ UNCHANGED <<server, logs, disk, spool, process, output, mail, faults>>

-----------------------------------------------------------------------------
(* Running the process and collecting its logs. *)

ProcessWrites ==
  /\ At({"executing"}) /\ process = "running" /\ output.produced < Chunks
  /\ output' = [output EXCEPT !.produced = @ + 1]
  /\ UNCHANGED <<server, logs, disk, spool, process, agent, mail, faults>>

\* The asynchronous sink writes one queued chunk to the spool.
PersistChunk ==
  /\ At({"executing", "closing"}) /\ ~agent.sinkFailed /\ output.spooled < output.produced
  /\ output' = [output EXCEPT !.spooled = @ + 1]
  /\ spool' = spool \union {output.spooled + 1}
  /\ UNCHANGED <<server, logs, disk, process, agent, mail, faults>>

\* After one chunk the spool refused the sink drops all the others.
PersistFails ==
  /\ At({"executing", "closing"}) /\ ~agent.sinkFailed /\ output.spooled < output.produced
  /\ agent' = [agent EXCEPT !.sinkFailed = TRUE]
  /\ UNCHANGED <<server, logs, disk, spool, process, output, mail, faults>>

\* It ends by itself, at its time limit, or is killed because its execution is cancelled.
ProcessEnds ==
  /\ At({"executing"}) /\ process = "running"
  /\ process' = "none"
  /\ Goto("closing")
  /\ UNCHANGED <<server, logs, disk, spool, output, mail, faults>>

SinkClosedAtOnce == TRUE

SinkDrained == agent.sinkFailed \/ output.spooled = output.produced

CloseSink ==
  /\ At({"closing"}) /\ SinkDrained
  /\ agent' = IF agent.sinkFailed
                THEN [agent EXCEPT !.pc = "concluding", !.code = "LOG_SPOOL_WRITE_FAILED"]
                ELSE [agent EXCEPT !.pc = "flushing"]
  /\ UNCHANGED <<server, logs, disk, spool, process, output, mail, faults>>

-----------------------------------------------------------------------------
(* Uploading logs: while the process runs, before its result, and again after a restart. *)

TrimmedOneMore(watermark) == {c \in spool : c > watermark + 1}

\* acknowledge removes the chunks up to a watermark.
Trimmed(watermark) == {c \in spool : c > watermark}

Uploading == At({"reflushing"}) \/ (At({"executing", "closing", "flushing"}) /\ agent.live)

\* The first chunks of the spool are sent; the answer may be lost.
UploadLogs(sent, answered) ==
  /\ Uploading /\ Authorized
  /\ sent \subseteq spool /\ sent # {} /\ \A c \in sent, d \in spool \ sent : c < d
  /\ LET stored == logs.stored \union sent
         watermark == AdvanceWatermark(stored)
     IN  /\ logs' = [stored |-> stored, watermark |-> watermark]
         /\ IF answered
              THEN /\ spool' = Trimmed(watermark)
                   /\ agent' = [agent EXCEPT !.acked = watermark]
              ELSE UNCHANGED <<spool, agent>>
  /\ UNCHANGED <<server, disk, process, output, mail, faults>>

FlushSucceeds ==
  /\ At({"flushing"}) /\ spool = {}
  /\ Goto("recording")
  /\ UNCHANGED <<server, logs, disk, spool, process, output, mail, faults>>

\* The upload is given up: cancelled, rejected or out of time.
FlushFails ==
  /\ At({"flushing"}) /\ spool # {}
  /\ agent' = [agent EXCEPT !.pc = "concluding", !.code = "LOG_UPLOAD_FAILED"]
  /\ UNCHANGED <<server, logs, disk, spool, process, output, mail, faults>>

-----------------------------------------------------------------------------
(* The result. *)

\* The result is written down with its watermark before artifacts are uploaded.
RecordResult(artifacts) ==
  /\ At({"recording"})
  /\ disk' = [disk EXCEPT !.state = "uploading", !.code = "completed",
                          !.marks = agent.acked, !.artifacts = artifacts]
  /\ Goto("uploading")
  /\ UNCHANGED <<server, logs, spool, process, output, mail, faults>>

UploadArtifacts ==
  /\ At({"uploading"}) /\ agent.live /\ Authorized
  /\ agent' = [agent EXCEPT !.pc = "concluding", !.code = "completed"]
  /\ UNCHANGED <<server, logs, disk, spool, process, output, mail, faults>>

\* Staging them, saving the result or uploading them fails; a failure takes the result's place.
ArtifactsFail ==
  /\ At({"recording", "uploading"})
  /\ agent' = [agent EXCEPT !.pc = "concluding", !.code = "ARTIFACT_UPLOAD_FAILED"]
  /\ UNCHANGED <<server, logs, disk, spool, process, output, mail, faults>>

\* The renewals stop, the result is final, and is reported unless the lease was lost.
Conclude ==
  /\ At({"concluding"})
  /\ disk' = [disk EXCEPT !.state = "finishing", !.pid = FALSE, !.code = agent.code,
                          !.marks = IF agent.code = "completed" THEN agent.acked ELSE Absent]
  /\ agent' = Memory(IF agent.reportAllowed THEN "reporting" ELSE "claiming")
  /\ UNCHANGED <<server, logs, spool, process, output, mail, faults>>

OwnReport == [code |-> disk.code, marks |-> disk.marks]

SendReport ==
  /\ At({"reporting"}) /\ WithinDeadline
  /\ mail' = mail \union {OwnReport}
  /\ UNCHANGED <<server, logs, disk, spool, process, agent, output, faults>>

\* Accepted, duplicate or late: in each case the receipt holds this very report.
ReportAnswered ==
  /\ At({"reporting"}) /\ OwnReport \in mail
  /\ server.receipt # NoReceipt
  /\ server.receipt.code = disk.code /\ server.receipt.marks = disk.marks
  /\ Goto("cleaning")
  /\ UNCHANGED <<server, logs, disk, spool, process, output, mail, faults>>

\* No answer, or a conflict, until the deadline: the state is kept for the next start.
ReportGivenUp ==
  /\ At({"reporting"}) /\ ~WithinDeadline
  /\ agent' = Memory("claiming")
  /\ UNCHANGED <<server, logs, disk, spool, process, output, mail, faults>>

CleanAttemptSpool ==
  /\ At({"cleaning"})
  /\ spool' = {}
  /\ Goto("removing")
  /\ UNCHANGED <<server, logs, disk, process, output, mail, faults>>

RemoveState ==
  /\ At({"removing"})
  /\ disk' = NoState
  /\ agent' = Memory("claiming")
  /\ UNCHANGED <<server, logs, spool, process, output, mail, faults>>

-----------------------------------------------------------------------------
(* Crash, restart and reconciliation. *)

OrphanedUngated == IF process = "gated" THEN "running" ELSE process

\* A process that was not released ends with the agent; one that runs goes on running.
Orphaned == IF process = "gated" THEN "none" ELSE process

Crash ==
  /\ ~At({"down"}) /\ faults < MaxFaults
  /\ faults' = faults + 1
  /\ agent' = Memory("down")
  /\ process' = Orphaned
  /\ UNCHANGED <<server, logs, disk, spool, output, mail>>

\* The state file cannot be written: the attempt is left as the file says it is.
SaveFails ==
  /\ At({"claimed", "concluding"}) /\ faults < MaxFaults
  /\ faults' = faults + 1
  /\ agent' = Memory("claiming")
  /\ UNCHANGED <<server, logs, disk, spool, process, output, mail>>

Start ==
  /\ At({"down"})
  /\ Goto(IF disk.state = "none" THEN "claiming" ELSE "reconciling")
  /\ UNCHANGED <<server, logs, disk, spool, process, output, mail, faults>>

DecisionByLease == IF server.cancelAsked \/ server.lease = "lapsed" THEN "cancel" ELSE "continue"

Decision ==
  IF server.attempt = "ended" THEN "clean"
  ELSE IF server.cancelAsked \/ server.lease = "lapsed" THEN "cancel" ELSE "continue"

\* The control plane decides; the process the state file names is killed before anything else.
Reconcile ==
  /\ At({"reconciling"})
  /\ agent' = [agent EXCEPT !.decision = Decision, !.acked = logs.watermark, !.pc = "deciding"]
  /\ process' = IF disk.pid THEN "none" ELSE process
  /\ UNCHANGED <<server, logs, disk, spool, output, mail, faults>>

ReconcileClean ==
  /\ At({"deciding"}) /\ agent.decision = "clean"
  /\ Goto("cleaning")
  /\ UNCHANGED <<server, logs, disk, spool, process, output, mail, faults>>

ReconcileResultAnew ==
  /\ At({"deciding"}) /\ agent.decision # "clean"
  /\ spool' = Trimmed(agent.acked)
  /\ disk' = [disk EXCEPT !.state = "finishing",
                !.code = IF agent.decision = "cancel" THEN "EXECUTION_CANCELLED" ELSE "AGENT_RESTARTED"]
  /\ agent' = [agent EXCEPT !.acked = 0, !.pc = IF disk.artifacts THEN "reuploading" ELSE "reflushing"]
  /\ UNCHANGED <<server, logs, process, output, mail, faults>>

\* The spool is trimmed by the confirmed watermark; an attempt without a result gets one.
ReconcileResult ==
  /\ At({"deciding"}) /\ agent.decision # "clean"
  /\ spool' = Trimmed(agent.acked)
  /\ disk' = IF disk.code # "none" THEN disk
             ELSE [disk EXCEPT !.state = "finishing",
                     !.code = IF agent.decision = "cancel" THEN "EXECUTION_CANCELLED" ELSE "AGENT_RESTARTED"]
  /\ agent' = [agent EXCEPT !.acked = 0, !.pc = IF disk.artifacts THEN "reuploading" ELSE "reflushing"]
  /\ UNCHANGED <<server, logs, process, output, mail, faults>>

ReuploadArtifacts ==
  /\ At({"reuploading"}) /\ Authorized
  /\ disk' = [disk EXCEPT !.state = "uploading"]
  /\ Goto("reflushing")
  /\ UNCHANGED <<server, logs, spool, process, output, mail, faults>>

\* The result is saved again with the watermark of this flush alone, and reported.
ReflushSucceeds ==
  /\ At({"reflushing"}) /\ spool = {}
  /\ disk' = [disk EXCEPT !.state = "finishing", !.marks = agent.acked]
  /\ agent' = Memory("reporting")
  /\ UNCHANGED <<server, logs, spool, process, output, mail, faults>>

\* An upload that is rejected until its time is over fails the start and the agent exits,
\* to be started again; an upload that meets a dead network instead is a Crash here.
RetransmissionFails ==
  /\ At({"reuploading"}) \/ (At({"reflushing"}) /\ spool # {})
  /\ ~Authorized
  /\ agent' = Memory("down")
  /\ UNCHANGED <<server, logs, disk, spool, process, output, mail, faults>>

-----------------------------------------------------------------------------
Execution ==
  \/ ExecuteAttempt \/ CreateProcess \/ ProcessStarted \/ ReleaseProcess \/ StartFails
  \/ PersistChunk \/ PersistFails \/ ProcessEnds \/ CloseSink
  \/ FlushSucceeds \/ FlushFails
  \/ \E artifacts \in BOOLEAN : RecordResult(artifacts)
  \/ UploadArtifacts \/ ArtifactsFail \/ Conclude

Ending ==
  \/ SendReport \/ ReportAnswered \/ ReportGivenUp \/ CleanAttemptSpool \/ RemoveState
  \/ Start \/ Reconcile \/ ReconcileClean \/ ReconcileResult \/ ReuploadArtifacts
  \/ ReflushSucceeds \/ RetransmissionFails

Upload == \E sent \in SUBSET spool, answered \in BOOLEAN : UploadLogs(sent, answered)

Next ==
  \/ Execution \/ Ending \/ Upload
  \/ Claim \/ ClaimLost \/ ProcessWrites \/ RenewLease \/ LoseLease \/ Crash \/ SaveFails
  \/ RequestCancel \/ LeaseEnds \/ LeaseLapses \/ Recover
  \/ \E report \in mail : HandleReport(report)

Spec == Init /\ [][Next]_vars

(***************************************************************************)
(* The agent goes on as long as it can; a process ends at its time limit;  *)
(* uploads get through as long as they are authorized, time and again; a   *)
(* lease nobody renews ends; claims of whoever claims recover what lapsed. *)
(***************************************************************************)
FairSpec ==
  /\ Spec
  /\ WF_vars(Execution) /\ WF_vars(Ending) /\ WF_vars(Upload)
  /\ WF_vars(LeaseEnds /\ ~agent.renewing) /\ WF_vars(LeaseLapses) /\ WF_vars(Recover)

-----------------------------------------------------------------------------
(* Properties. *)

\* Type correctness of the state files, the stores, the mail and the memory of the agent.
AgentTypeOK ==
  /\ server \in [attempt : {"offered", "running", "ended"},
                 lease : {"none", "valid", "ending", "lapsed"}, cancelAsked : BOOLEAN,
                 receipt : [disposition : {"none", "accepted", "late"},
                            code : Codes \union {"none"}, marks : Absent .. Chunks]]
  /\ logs \in [stored : SUBSET (1 .. Chunks), watermark : 0 .. Chunks]
  /\ disk \in [state : {"none", "claimed", "running", "uploading", "finishing"}, pid : BOOLEAN,
               code : Codes \union {"none"}, marks : Absent .. Chunks, artifacts : BOOLEAN]
  /\ spool \subseteq 1 .. Chunks /\ process \in {"none", "gated", "running"}
  /\ mail \subseteq Report /\ faults \in 0 .. MaxFaults

(***************************************************************************)
(* No log is lost between two machines that both fail: what the control    *)
(* plane acknowledged it has, and a chunk that reached the spool is still  *)
(* there or is stored, until the attempt is over or its report answered    *)
(* (log_spool.go acknowledge, attempt-log-store.ts advanceWatermark).      *)
(***************************************************************************)
LogsAreKept ==
  /\ AgentTypeOK
  /\ 1 .. logs.watermark \subseteq logs.stored
  /\ server.attempt # "ended" /\ server.receipt = NoReceipt
       => 1 .. output.spooled \subseteq spool \union logs.stored

(***************************************************************************)
(* A result is accepted only with its logs: whoever reads that a test      *)
(* completed finds everything it wrote, and after a restart everything     *)
(* that had reached the spool (supervisor.go flushAttemptLogs before       *)
(* persistProgress and before the report of reconcilePage).                *)
(***************************************************************************)
ResultHasItsLogs ==
  server.receipt.disposition = "accepted" =>
    /\ server.receipt.code \in {"completed", "ARTIFACT_UPLOAD_FAILED"}
         => 1 .. output.produced \subseteq logs.stored
    /\ server.receipt.code \in {"AGENT_RESTARTED", "EXECUTION_CANCELLED"}
         => 1 .. output.spooled \subseteq logs.stored

(***************************************************************************)
(* However often the agent restarts and whatever the control plane decided *)
(* each time, all its reports of the attempt carry one verdict, so that    *)
(* no order of arrival can matter (supervisor.go executeAttempt and        *)
(* reconcilePage, which keep a result once written).                       *)
(***************************************************************************)
OneVerdict == \A m1, m2 \in mail : m1.code = m2.code

(***************************************************************************)
(* A process that outlives the agent is one the next start finds in the    *)
(* state file; an agent that claims work has no process left of an attempt *)
(* it no longer runs (runner.go start gate, killRecoveredProcess).         *)
(***************************************************************************)
NoStrayProcess ==
  process = "running" =>
    /\ disk.pid
    /\ ~At({"claiming", "cleaning", "removing"})

(***************************************************************************)
(* The agent comes back to claiming work again and again, and the attempt  *)
(* it claimed ends: no restart, refused upload, lost answer or conflict    *)
(* traps either (supervisor.go Start and reconcile).                       *)
(***************************************************************************)
AgentServesAgain ==
  /\ []<>At({"claiming"})
  /\ server.attempt = "running" ~> server.attempt = "ended"

=============================================================================
