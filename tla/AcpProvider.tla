---------------------------- MODULE AcpProvider -----------------------------
(***************************************************************************)
(* The agent's provider loop (agent/src/acp-provider.ts): it lists the     *)
(* jobs of a marketplace, prices the open ones, executes the funded ones   *)
(* and submits what it delivered, by which it is paid. What it has acted   *)
(* on it remembers in memory only. A listed phase may be out of date when  *)
(* the job is handled. The marketplace and the chain are external.         *)
(*                                                                         *)
(* Operators Name_Fault are faults that the README lists.                  *)
(***************************************************************************)
EXTENDS Naturals, Sequences, FiniteSetsExt

CONSTANTS Action, Jobs, MaxLives       \* bounds: jobs, starts of the process

ASSUME AcpAssumption ==
  /\ Action \subseteq {"swap_execute", "onramp", "answer"}
  /\ Jobs \in Nat /\ MaxLives \in Nat \ {0}

VARIABLES
  phase,       \* the marketplace: per job
  action,      \* what each job asks for
  asRead,      \* what the loop last read that it asks for
  sent,        \* the chain: per job the outcomes of what was sent for it
  jobs,        \* the pass: the jobs listed and not handled yet, with their phases
  seen,        \* what was acted on: jobs in phases
  handling,    \* the step of handle that is next for the first of jobs
  lives        \* starts of the process

Job == 1 .. Jobs
acpVars == <<phase, action, asRead, sent, jobs, seen, handling, lives>>

AcpInit ==
  /\ phase = [j \in Job |-> "absent"]
  /\ action = [j \in Job |-> CHOOSE a \in Action : TRUE]
  /\ asRead = [j \in Job |-> "answer"]
  /\ sent = [j \in Job |-> << >>]
  /\ jobs = << >> /\ seen = {} /\ handling = "key" /\ lives = 1

Moves(j, from, to) == phase[j] = from /\ phase' = [phase EXCEPT ![j] = to]

(* The client posts, funds and abandons jobs.                              *)
Client ==
  /\ \E j \in Job :
       \/ /\ Moves(j, "absent", "open") /\ (j > 1 => phase[j - 1] # "absent")
          /\ \E a \in Action : action' = [action EXCEPT ![j] = a]
       \/ Moves(j, "budget_set", "funded") /\ UNCHANGED action
       \/ \E p \in {"open", "budget_set", "funded"} : Moves(j, p, "expired") /\ UNCHANGED action
  /\ UNCHANGED <<asRead, sent, jobs, seen, handling, lives>>

(* A transaction is mined, and may revert.                                 *)
TxMined ==
  /\ \E j \in Job : \E i \in DOMAIN sent[j], outcome \in {"done", "reverted"} :
       sent[j][i] = "pending" /\ sent' = [sent EXCEPT ![j][i] = outcome]
  /\ UNCHANGED <<phase, action, asRead, jobs, seen, handling, lives>>

-----------------------------------------------------------------------------
Listed == { j \in Job : phase[j] # "absent" }

(* A pass begins with the list.                                            *)
pass ==
  /\ jobs = << >> /\ Listed # {}
  /\ jobs' = [i \in 1 .. Cardinality(Listed) |-> [id |-> i, phase |-> phase[i]]]
  /\ UNCHANGED <<phase, action, asRead, sent, seen, handling, lives>>

NextJob == jobs' = Tail(jobs) /\ handling' = "key"

Marked_Not(job) == seen
Marked(job) == seen \cup {job}

(* The request is in the job's history; where that cannot be read, the job *)
(* is taken for one that asks for an explanation.                          *)
extractReq(j) == {action[j], "answer"}

(* A job is marked before anything is done for it. An open one is priced   *)
(* by what it asks for, which may fail; a funded one is executed; others   *)
(* are left alone.                                                         *)
handle ==
  /\ jobs # << >> /\ handling = "key"
  /\ LET job == Head(jobs)
         Reads == \E a \in extractReq(job.id) : asRead' = [asRead EXCEPT ![job.id] = a]
     IN  IF job \in seen THEN NextJob /\ UNCHANGED <<phase, asRead, seen>>
         ELSE IF job.phase = "funded"
              THEN /\ seen' = Marked(job) /\ Reads
                   /\ handling' = IF asRead'[job.id] = "answer" THEN "submit" ELSE "execute"
                   /\ UNCHANGED <<phase, jobs>>
              ELSE /\ seen' = seen \cup {job} /\ NextJob
                   /\ IF job.phase = "open"
                      THEN Reads /\ (Moves(job.id, "open", "budget_set") \/ UNCHANGED phase)
                      ELSE UNCHANGED <<phase, asRead>>
  /\ UNCHANGED <<action, sent, lives>>

(* executeSwap and sendNativeEth: the request is refused, or nothing can   *)
(* be sent, or the call fails though the transaction was taken; else it    *)
(* was sent. A swap's receipt is not waited for.                           *)
Execute ==
  /\ jobs # << >> /\ handling = "execute"
  /\ LET id == Head(jobs).id
     IN  \/ NextJob /\ UNCHANGED sent
         \/ /\ sent' = [sent EXCEPT ![id] = Append(@, "pending")]
            /\ \/ NextJob
               \/ /\ handling' = IF asRead[id] = "onramp" THEN "await" ELSE "submit"
                  /\ UNCHANGED jobs
  /\ UNCHANGED <<phase, action, asRead, seen, lives>>

(* A delivery of ether is waited for; its outcome is not looked at.        *)
Await ==
  /\ jobs # << >> /\ handling = "await"
  /\ sent[Head(jobs).id][Len(sent[Head(jobs).id])] # "pending"
  /\ handling' = "submit"
  /\ UNCHANGED <<phase, action, asRead, sent, jobs, seen, lives>>

(* The deliverable is submitted if the job is still funded; it may fail.   *)
Submit ==
  /\ jobs # << >> /\ handling = "submit" /\ NextJob
  /\ Moves(Head(jobs).id, "funded", "submitted") \/ UNCHANGED phase
  /\ UNCHANGED <<action, asRead, sent, seen, lives>>

Restart ==
  /\ lives < MaxLives /\ lives' = lives + 1
  /\ jobs' = << >> /\ seen' = {} /\ handling' = "key"
  /\ UNCHANGED <<phase, action, asRead, sent>>

AcpNext == Client \/ TxMined \/ pass \/ handle \/ Execute \/ Await \/ Submit \/ Restart

-----------------------------------------------------------------------------
Executes(j) == action[j] # "answer"

(* However passes, failures and outdated lists fall, one run of the        *)
(* process never sends twice for a job, not even after a call that failed  *)
(* though its transaction was taken; and nothing is submitted for a job    *)
(* that was read as a swap or a payment and for which nothing was sent.    *)
SentOncePerLife ==
  \A j \in Job : /\ Len(sent[j]) <= lives
                 /\ asRead[j] # "answer" /\ phase[j] = "submitted" => sent[j] # << >>

(* "no deliverable = no payment for a swap that didn't happen"             *)
(* (agent/src/acp-provider.ts:103): for a swap or a payment whose          *)
(* deliverable was submitted something was sent, and not all of it has     *)
(* reverted (not so: see the README).                                      *)
NoPaymentWithoutSwap ==
  \A j \in Job : Executes(j) /\ phase[j] = "submitted" =>
                   \E i \in DOMAIN sent[j] : sent[j][i] # "reverted"

(* "Price by the requested action" (agent/src/acp-provider.ts:147; not so: *)
(* see the README).                                                        *)
PricedAsAsked == \A j \in Job : phase[j] = "budget_set" => asRead[j] = action[j]

(* Nothing is ever sent twice for a job.                                   *)
SentOnce == \A j \in Job : Len(sent[j]) <= 1
=============================================================================
