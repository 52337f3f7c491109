-------------------------------- MODULE Hire --------------------------------
(***************************************************************************)
(* The client of the job marketplace (agent/src/acp-client.ts): it creates *)
(* a job, funds its escrow once the provider has set a budget, shows what  *)
(* is delivered and accepts it, and stops when the job is settled or its   *)
(* own time is over. The marketplace and the provider are external: each   *)
(* command may be answered with an error though it was taken, and takes    *)
(* effect later, or never.                                                 *)
(*                                                                         *)
(* Operators Name_Fault are faults that the README lists.                  *)
(***************************************************************************)
EXTENDS Naturals

CONSTANTS MaxHistories, MaxErrors  \* bounds: polls within MAX_WAIT, errors

ASSUME HireAssumption == {MaxHistories, MaxErrors} \subseteq Nat

VARIABLES
  AUTO_APPROVE,
  job,       \* the marketplace: how far the job is
  pending,   \* the marketplace: commands taken and not in effect yet
  client,    \* the client: "creating", "asking", "acting", "sleeping", or how it ended
  hist,      \* the client: the job as it was last read
  issued,    \* the client: commands answered with success: fundIssued, completeIssued
  deliverableShown,
  histories, \* polls
  errors

hireVars == <<AUTO_APPROVE, job, pending, client, hist, issued, deliverableShown, histories, errors>>
marketplaceVars == <<job, pending>>

HireInit ==
  /\ AUTO_APPROVE \in BOOLEAN
  /\ job = "none" /\ pending = {} /\ client = "creating" /\ hist = "none" /\ issued = {}
  /\ deliverableShown = FALSE /\ histories = 0 /\ errors = 0

Erring == errors < MaxErrors /\ errors' = errors + 1

-----------------------------------------------------------------------------
(* The provider goes on, the job ends, or a command takes effect or is     *)
(* lost; one that comes too late has none.                                 *)
Goes(from, to) == job = from /\ job' = to /\ UNCHANGED <<pending, errors>>
Confirms(command, from, to) ==
  /\ command \in pending /\ pending' = pending \ {command}
  /\ \/ job' = (IF job = from THEN to ELSE job) /\ UNCHANGED errors
     \/ Erring /\ UNCHANGED job
Market ==
  /\ \/ Goes("open", "budget.set") \/ Goes("job.funded", "job.submitted")
     \/ \E s \in {"open", "budget.set", "job.funded"} : Goes(s, "rejected")
     \/ \E s \in {"open", "budget.set", "job.funded", "job.submitted"} : Goes(s, "expired")
     \/ Confirms("fund", "budget.set", "job.funded")
     \/ Confirms("complete", "job.submitted", "completed")
  /\ UNCHANGED <<AUTO_APPROVE, client, hist, issued, deliverableShown, histories>>

-----------------------------------------------------------------------------
(* create-job: without its answer the client ends.                         *)
create_job ==
  /\ client = "creating"
  /\ \/ job' = "open" /\ client' = "asking" /\ UNCHANGED errors
     \/ job' \in {"none", "open"} /\ client' = "failed" /\ Erring
  /\ UNCHANGED <<AUTO_APPROVE, pending, hist, issued, deliverableShown, histories>>

(* The history is read: a job that is over ends the client. A history that *)
(* can not be read is like one without events.                             *)
Ends_OnIssued(h) == IF h = "completed" \/ "complete" \in issued THEN "settled"
                    ELSE IF h \in {"rejected", "expired"} THEN h ELSE "acting"
Ends(h) == IF h = "completed" THEN "settled" ELSE IF h \in {"rejected", "expired"} THEN h ELSE "acting"
Read ==
  /\ client = "asking" /\ histories < MaxHistories /\ histories' = histories + 1
  /\ \/ hist' = job /\ UNCHANGED errors
     \/ hist' = "none" /\ Erring
  /\ client' = Ends(hist')
  /\ UNCHANGED <<AUTO_APPROVE, marketplaceVars, issued, deliverableShown>>

(* acp: a command is sent unless one like it was answered with success.    *)
acp(command) ==
  IF command \in issued THEN UNCHANGED <<pending, issued, errors>>
  ELSE \/ pending' = pending \cup {command} /\ issued' = issued \cup {command} /\ UNCHANGED errors
       \/ pending' \in {pending, pending \cup {command}} /\ Erring /\ UNCHANGED issued

(* What the history asks for: the deliverable is shown and accepted, the   *)
(* budget funded.                                                          *)
drive ==
  /\ client = "acting"
  /\ deliverableShown' = (deliverableShown \/ hist = "job.submitted")
  /\ CASE hist = "job.submitted" /\ AUTO_APPROVE -> acp("complete") /\ client' = "sleeping"
       [] hist = "job.submitted" /\ ~ AUTO_APPROVE -> client' = "left" /\ UNCHANGED <<pending, issued, errors>>
       [] hist = "budget.set" -> acp("fund") /\ client' = "sleeping"
       [] OTHER -> client' = "sleeping" /\ UNCHANGED <<pending, issued, errors>>
  /\ UNCHANGED <<AUTO_APPROVE, job, hist, histories>>

(* The client sleeps; when its time is over it ends.                       *)
Sleeps ==
  /\ client = "sleeping" /\ client' = IF histories < MaxHistories THEN "asking" ELSE "timed out"
  /\ UNCHANGED <<AUTO_APPROVE, marketplaceVars, hist, issued, deliverableShown, histories, errors>>

HireNext == Market \/ create_job \/ Read \/ drive \/ Sleeps
HireSpec == HireInit /\ [][HireNext]_hireVars

-----------------------------------------------------------------------------
(* How the client ends is how the job ended: it says that the escrow was   *)
(* released, or refunded, only if it was, whatever commands were taken,    *)
(* lost or answered with an error; and nothing is paid for that it did not *)
(* show (acp-client.ts:71-100).                                            *)
EndsAsTheJob ==
  /\ client = "settled" => job = "completed"
  /\ client \in {"rejected", "expired"} => job = client
  /\ job = "completed" => deliverableShown /\ AUTO_APPROVE

(* Not so, see the README: a client that ended without a job left none.    *)
NoneLeftBehind == client = "failed" => job = "none"
(* Not so: a command that was answered with success is sent once and is    *)
(* not sent again, lost or not; the job is not settled then.               *)
IssuedIsDone == client = "timed out" /\ "complete" \in issued => job # "job.submitted" \/ "complete" \in pending
=============================================================================
