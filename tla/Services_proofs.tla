-------------------------- MODULE Services_proofs --------------------------
(***************************************************************************)
(* Proofs about the programs around the pool, for any number of jobs,      *)
(* requests, visitors, orders and flows: the hiring client (Hire), the 0x  *)
(* proxy (GtProxy), the provider (AcpProvider), the chat (Woodie), market  *)
(* data, private routes, the relayer with its limits (Relayer), referrals  *)
(* (Points), exits through throwaway addresses (BridgeOut) and the planner *)
(* of baskets (Basket). Each has an invariant of its own; OwnSteps says    *)
(* that none disturbs another.                                             *)
(***************************************************************************)
EXTENDS Services, SumTheorems, SequenceTheorems, TLAPS

(* Each of the programs makes its own steps or none.                       *)
LEMMA OwnSteps ==
  ASSUME [ServicesNext]_servicesVars
  PROVE  /\ [HireNext]_hireVars /\ [GtNext]_gtVars /\ [AcpNext]_acpVars
         /\ [RelayerNext]_relayerVars /\ [PointsNext]_pointsVars
         /\ [BridgeOutNext]_bridgeVars /\ [PrivateRouteNext]_routeVars
         /\ [WoodieNext]_chatVars /\ [SheetNext \/ FeedNext]_marketVars
         /\ [BasketNext]_basketVars
<1>1. CASE ServicesNext
  <2>1. CASE Servers /\ UNCHANGED <<webVars, basketVars, hireVars>>
    BY <2>1 DEF Servers, webVars
  <2>2. CASE Web /\ UNCHANGED <<serverVars, basketVars, hireVars>>
    BY <2>2 DEF Web, serverVars
  <2>3. CASE Agents /\ UNCHANGED <<serverVars, webVars>>
    BY <2>3 DEF Agents, serverVars, webVars
  <2> QED BY <1>1, <2>1, <2>2, <2>3 DEF ServicesNext
<1>2. CASE UNCHANGED servicesVars
  BY <1>2 DEF servicesVars, serverVars, webVars
<1> QED BY <1>1, <1>2

-----------------------------------------------------------------------------
(* The hiring client. A settled, rejected or expired job is final, and an  *)
(* acceptance is on its way only after the deliverable was shown.          *)
HireInv ==
  /\ EndsAsTheJob
  /\ "complete" \in pending => deliverableShown /\ AUTO_APPROVE
  /\ deliverableShown \in BOOLEAN /\ AUTO_APPROVE \in BOOLEAN

(* A command adds one transaction to those pending, its own.               *)
LEMMA AcpSends ==
  ASSUME NEW command, acp(command), NEW other \in pending', other \notin pending
  PROVE  other = command
BY DEF acp

(* Every step of the hiring client keeps its invariant.                    *)
LEMMA HireStep == HireInv /\ [HireNext]_hireVars => HireInv'
<1> SUFFICES ASSUME HireInv, [HireNext]_hireVars PROVE HireInv'
  OBVIOUS
<1> USE DEF HireInv, EndsAsTheJob
<1>1. CASE Market
  <2>1. UNCHANGED <<AUTO_APPROVE, client, deliverableShown>>
    BY <1>1 DEF Market
  <2>2. CASE \E command \in {"fund", "complete"} :
                Confirms(command, IF command = "fund" THEN "budget.set" ELSE "job.submitted",
                         IF command = "fund" THEN "job.funded" ELSE "completed")
    <3>1. PICK command \in {"fund", "complete"} :
                Confirms(command, IF command = "fund" THEN "budget.set" ELSE "job.submitted",
                         IF command = "fund" THEN "job.funded" ELSE "completed")
      BY <2>2
    <3>2. CASE command = "fund"
      BY <2>1, <3>1, <3>2 DEF Confirms
    <3>3. CASE command = "complete"
      BY <2>1, <3>1, <3>3 DEF Confirms
    <3> QED BY <3>1, <3>2, <3>3
  <2>3. CASE \E s, t : Goes(s, t) /\ t # "completed" /\ s \notin {"completed", "rejected", "expired"}
    BY <2>1, <2>3 DEF Goes
  <2> QED BY <1>1, <2>2, <2>3 DEF Market
<1>2. CASE create_job
  BY <1>2 DEF create_job
<1>3. CASE Read
  BY <1>3 DEF Read, Ends, marketplaceVars
<1>4. CASE drive
  <2>1. /\ UNCHANGED <<AUTO_APPROVE, job>> /\ client' \in {"sleeping", "left"}
        /\ deliverableShown' = (deliverableShown \/ hist = "job.submitted")
    BY <1>4 DEF drive
  <2>2. "complete" \in pending' /\ "complete" \notin pending => hist = "job.submitted" /\ AUTO_APPROVE
    <3>1. CASE hist = "job.submitted"
      BY <1>4, <3>1 DEF drive
    <3>2. CASE hist # "job.submitted"
      BY <1>4, <3>2, AcpSends DEF drive
    <3> QED BY <3>1, <3>2
  <2> QED BY <2>1, <2>2
<1>5. CASE Sleeps
  BY <1>5 DEF Sleeps, marketplaceVars
<1>6. CASE UNCHANGED hireVars
  BY <1>6 DEF hireVars
<1> QED BY <1>1, <1>2, <1>3, <1>4, <1>5, <1>6 DEF HireNext

(* agent/src/acp-client.ts: the client ends as the job did, and the escrow *)
(* is released only for a deliverable that it showed.                      *)
THEOREM HireCorrect == ServicesSpec => []EndsAsTheJob
<1>1. ServicesInit => HireInv
  BY DEF ServicesInit, HireInit, HireInv, EndsAsTheJob
<1>2. HireInv => EndsAsTheJob
  BY DEF HireInv
<1> QED BY <1>1, <1>2, OwnSteps, HireStep, PTL DEF ServicesSpec

-----------------------------------------------------------------------------
(* The market data proxy. Who waits for the pump waits out the gap, and    *)
(* every url promised is in the queue once or with the pump.               *)
LEMMA MinOfTwo == ASSUME NEW a \in Nat, NEW b \in Nat
                  PROVE  Min({a, b}) = IF a <= b THEN a ELSE b
<1>1. Min({a, b}) = CHOOSE x \in {a, b} : \A y \in {a, b} : x <= y
  BY DEF Min
<1>2. CASE a <= b
  <2>1. \A x \in {a, b} : (\A y \in {a, b} : x <= y) => x = a
    BY <1>2
  <2>2. a \in {a, b} /\ \A y \in {a, b} : a <= y
    BY <1>2
  <2> QED BY <1>1, <1>2, <2>1, <2>2
<1>3. CASE ~(a <= b)
  <2>1. \A x \in {a, b} : (\A y \in {a, b} : x <= y) => x = b
    BY <1>3
  <2>2. b \in {a, b} /\ \A y \in {a, b} : b <= y
    BY <1>3
  <2> QED BY <1>1, <1>3, <2>1, <2>2
<1> QED BY <1>2, <1>3

Spaced ==
  /\ last = fetched /\ fetched \in Nat
  /\ pump.at = "pacing" => fetched + pump.wait >= GAP_MS
  /\ pump.at = "backoff" => fetched + pump.wait >= GAP_MS
QueuedOnce ==
  /\ \A i, k \in DOMAIN queue : queue[i] = queue[k] => i = k
  /\ \A i \in DOMAIN queue : queue[i] \in inflight
  /\ pump.at # "idle" => pump.url \in inflight /\ \A i \in DOMAIN queue : queue[i] # pump.url
GtTypes ==
  /\ queue \in Seq(Url)
  /\ pump \in [at : {"idle", "pacing", "fetching", "backoff"}, url : Url \cup {NoUrl}, wait : Nat, tries : Nat]
GtInv == GtTypes /\ Spaced /\ QueuedOnce /\ fetched <= GAP_MS

(* Every step of the proxy keeps its invariant.                            *)
LEMMA GtStep == GtInv /\ [GtNext]_gtVars => GtInv'
<1> SUFFICES ASSUME GtInv, [GtNext]_gtVars PROVE GtInv'
  OBVIOUS
<1> USE GtProxyAssumption DEF GtInv, GtTypes, Spaced, QueuedOnce
<1>1. CASE TimePasses
  <2>1. /\ UNCHANGED <<inflight, queue, caller>>
        /\ pump' = [pump EXCEPT !.wait = IF @ > 0 THEN @ - 1 ELSE 0]
        /\ last' = Aged(last, GAP_MS) /\ fetched' = Aged(fetched, GAP_MS)
    BY <1>1 DEF TimePasses
  <2>2. fetched' = IF fetched + 1 <= GAP_MS THEN fetched + 1 ELSE GAP_MS
    <3>1. fetched' = Min({fetched + 1, GAP_MS}) /\ fetched + 1 \in Nat /\ GAP_MS \in Nat
      BY <2>1 DEF Aged
    <3> QED BY ONLY <3>1, MinOfTwo
  <2>3. pump'.wait = (IF pump.wait > 0 THEN pump.wait - 1 ELSE 0) /\ pump'.at = pump.at /\ pump'.url = pump.url
    BY <2>1
  <2>4. GtTypes'
    <3> HIDE DEF Spaced, QueuedOnce
    <3>1. pump.wait \in Nat /\ pump.tries \in Nat /\ (pump.wait > 0 => pump.wait - 1 \in Nat)
      OBVIOUS
    <3>2. pump' = [at |-> pump.at, url |-> pump.url, tries |-> pump.tries,
                   wait |-> IF pump.wait > 0 THEN pump.wait - 1 ELSE 0]
      BY <2>1
    <3> QED BY <2>1, <3>1, <3>2
  <2>5. Spaced'
    BY <2>1, <2>2, <2>3
  <2>6. QueuedOnce'
    BY <2>1, <2>3
  <2> QED BY <2>2, <2>4, <2>5, <2>6
<1>2. CASE Take
  <2>1. /\ pump.at = "idle" /\ queue # << >> /\ queue' = Tail(queue) /\ UNCHANGED <<inflight, last, fetched>>
        /\ pump' = [at |-> "pacing", url |-> Head(queue), wait |-> GAP_MS - last, tries |-> 0]
    BY <1>2 DEF Take
  <2>2. GtTypes' /\ Spaced'
    BY <2>1
  <2>3. /\ Head(queue) = queue[1] /\ 1 \in DOMAIN queue
        /\ \A i \in DOMAIN queue' : queue'[i] = queue[i + 1] /\ i + 1 \in DOMAIN queue /\ i + 1 # 1 /\ i \in Nat
    BY <2>1
  <2>4. QueuedOnce'
    BY <2>1, <2>3
  <2> QED BY <2>1, <2>2, <2>4
<1>3. CASE Fetch
  BY <1>3 DEF Fetch, LastOnRetry
<1>4. CASE Throttled
  <2>1. /\ pump' = [pump EXCEPT !.at = "backoff", !.tries = @ + 1, !.wait = Backoff * (pump.tries + 1)]
        /\ pump.at = "fetching" /\ UNCHANGED <<inflight, queue, last, fetched>>
    BY <1>4 DEF Throttled
  <2>2. Backoff * (pump.tries + 1) \in Nat /\ Backoff * (pump.tries + 1) >= Backoff
    <3>1. pump.tries \in Nat
      OBVIOUS
    <3>2. ASSUME NEW t \in Nat PROVE Backoff * (t + 1) \in Nat /\ Backoff * (t + 1) >= Backoff
      BY <3>2, SMT
    <3> QED BY <3>1, <3>2
  <2> DEFINE b == Backoff * (pump.tries + 1)
  <2>3. pump' = [pump EXCEPT !.at = "backoff", !.tries = @ + 1, !.wait = b] /\ b \in Nat /\ b >= GAP_MS
    BY <2>1, <2>2
  <2> HIDE DEF b
  <2>4. pump.tries + 1 \in Nat /\ pump.url \in Url \cup {NoUrl}
    OBVIOUS
  <2>5. pump' = [at |-> "backoff", url |-> pump.url, wait |-> b, tries |-> pump.tries + 1]
    BY <2>3
  <2>6. QueuedOnce'
    BY <2>1, <2>5
  <2> QED BY <2>1, <2>3, <2>4, <2>5, <2>6
<1>5. CASE Resolve
  <2>1. /\ inflight' = inflight \ {pump.url} /\ pump' = Asleep /\ pump.at # "idle"
        /\ UNCHANGED <<queue, last, fetched>>
    BY <1>5 DEF Resolve
  <2> QED BY <2>1 DEF Asleep
<1>6. ASSUME NEW c \in Caller, Ask(c) PROVE GtInv'
  <2>1. PICK url \in Url : /\ inflight' = inflight \cup {url}
                           /\ queue' = IF url \in inflight THEN queue ELSE Append(queue, url)
    BY <1>6 DEF Ask, Shared
  <2>2. UNCHANGED <<pump, last, fetched>>
    BY <1>6 DEF Ask
  <2>3. CASE url \in inflight
    BY <2>1, <2>2, <2>3
  <2>4. CASE url \notin inflight
    <3>1. queue' \in Seq(Url) /\ \A i \in DOMAIN queue' : queue'[i] = (IF i \in DOMAIN queue THEN queue[i] ELSE url)
      BY <2>1, <2>4
    <3>2. \A i, k \in DOMAIN queue' : i \notin DOMAIN queue /\ k \notin DOMAIN queue => i = k
      BY <2>1, <2>4
    <3> QED BY <2>1, <2>2, <2>4, <3>1, <3>2
  <2> QED BY <2>3, <2>4
<1>7. CASE UNCHANGED gtVars
  BY <1>7 DEF gtVars
<1> QED BY <1>1, <1>2, <1>3, <1>4, <1>5, <1>6, <1>7 DEF GtNext

(* deploy/vps/gt-proxy.mjs: two fetches are a gap apart, whatever fails    *)
(* and however often it is tried again, and none is for a url in line.     *)
THEOREM PacedCorrect == ServicesSpec => Paced
<1> USE GtProxyAssumption
<1>1. ServicesInit => GtInv
  <2> SUFFICES ASSUME GtInit PROVE GtInv
    BY DEF ServicesInit
  <2>1. queue = << >> /\ pump = Asleep /\ last = GAP_MS /\ fetched = GAP_MS
    BY DEF GtInit
  <2> QED BY <2>1 DEF GtInv, GtTypes, Spaced, QueuedOnce, Asleep
<1>2. ASSUME GtInv, [GtNext]_gtVars, pump.at # "fetching", pump'.at = "fetching"
      PROVE  fetched >= GAP_MS /\ pump.url \notin Range(queue)
  <2>1. Fetch
    <3>1. ~ TimePasses
      BY <1>2 DEF TimePasses, GtInv, GtTypes
    <3>2. ~ Take /\ ~ Throttled /\ ~ Resolve
      BY <1>2 DEF Take, Throttled, Resolve, Asleep
    <3>3. pump' # pump
      BY <1>2
    <3>4. \A c \in Caller : ~ Ask(c)
      BY <3>3 DEF Ask
    <3> QED BY <1>2, <3>1, <3>2, <3>3, <3>4 DEF GtNext, gtVars
  <2> QED BY <1>2, <2>1 DEF Fetch, GtInv, GtTypes, Spaced, QueuedOnce, Range
<1>3. ASSUME GtInv, [GtNext]_gtVars
      PROVE  [pump.at # "fetching" /\ pump'.at = "fetching" =>
                fetched >= GAP_MS /\ pump.url \notin Range(queue)]_gtVars
  BY <1>2, <1>3
<1> QED BY <1>1, <1>3, OwnSteps, GtStep, PTL DEF ServicesSpec, Paced

-----------------------------------------------------------------------------
(* The agent's provider. What was begun in this life of the process is     *)
(* remembered, and sends at most once.                                     *)
Phases == {"absent", "open", "budget_set", "funded", "submitted", "expired"}
Entry == [id : Job, phase : Phases]
Outcomes == {"pending", "done", "reverted"}
AcpTypes ==
  /\ phase \in [Job -> Phases] /\ asRead = [j \in Job |-> asRead[j]]
  /\ sent \in [Job -> Seq(Outcomes)]
  /\ jobs \in Seq(Entry)
  /\ lives \in Nat \ {0} /\ handling \in {"key", "execute", "await", "submit"}

Begun(j) == [id |-> j, phase |-> "funded"] \in seen
Unsent(j) == ~ Begun(j) \/ (jobs # << >> /\ Head(jobs).id = j /\ handling = "execute")

OncePerLife == \A j \in Job : Len(sent[j]) <= lives /\ (Unsent(j) => Len(sent[j]) < lives)
HandlesFirst ==
  handling # "key" =>
    /\ jobs # << >> /\ Head(jobs).phase = "funded" /\ Head(jobs) \in seen
    /\ handling # "execute" => asRead[Head(jobs).id] = "answer" \/ sent[Head(jobs).id] # << >>
ListedOnce ==
  /\ \A i, k \in DOMAIN jobs : jobs[i].id = jobs[k].id => i = k
  /\ \A i \in DOMAIN jobs : phase[jobs[i].id] = "submitted" => jobs[i].phase = "submitted"
PaidFor == \A j \in Job : asRead[j] # "answer" /\ phase[j] = "submitted" => sent[j] # << >>

AcpInv == AcpTypes /\ OncePerLife /\ HandlesFirst /\ ListedOnce /\ PaidFor

(* Elements of sequences.                                                  *)
LEMMA Elements ==
  ASSUME NEW S, NEW s \in Seq(S)
  PROVE  /\ \A i \in DOMAIN s : s[i] \in S
         /\ s # << >> => Head(s) \in S /\ Head(s) = s[1] /\ 1 \in DOMAIN s
  OBVIOUS

(* Entries of the provider's job list.                                     *)
LEMMA JobsListed ==
  ASSUME jobs \in Seq(Entry)
  PROVE  /\ \A i \in DOMAIN jobs : jobs[i] \in Entry /\ jobs[i].id \in Job
         /\ jobs # << >> => Head(jobs) \in Entry /\ Head(jobs).id \in Job
<1>1. /\ \A i \in DOMAIN jobs : jobs[i] \in Entry
      /\ jobs # << >> => Head(jobs) \in Entry
  BY Elements
<1>2. \A e \in Entry : e.id \in Job
  BY DEF Entry
<1> QED BY <1>1, <1>2

(* Going on to the next job of the list.                                   *)
LEMMA NextInList ==
  ASSUME AcpTypes, ListedOnce, jobs # << >>, jobs' = Tail(jobs),
         \A j \in Job : phase'[j] = "submitted" => phase[j] = "submitted" \/ j = Head(jobs).id
  PROVE  /\ jobs' \in Seq(Entry) /\ ListedOnce'
         /\ Head(jobs) \in Entry /\ Head(jobs) = jobs[1] /\ 1 \in DOMAIN jobs
<1>1. jobs \in Seq(Entry)
  BY DEF AcpTypes
<1>2. \A i \in DOMAIN jobs' : jobs'[i] = jobs[i + 1] /\ i + 1 \in DOMAIN jobs /\ i + 1 # 1 /\ i \in Nat
  BY <1>1
<1>3. Head(jobs) = jobs[1] /\ 1 \in DOMAIN jobs /\ jobs' \in Seq(Entry)
  BY <1>1
<1>4. \A i \in DOMAIN jobs : jobs[i] \in Entry /\ jobs[i].id \in Job
  BY <1>1, JobsListed
<1>5. ASSUME NEW i \in DOMAIN jobs', NEW k \in DOMAIN jobs', jobs'[i].id = jobs'[k].id PROVE i = k
  BY <1>2, <1>5 DEF ListedOnce
<1>6. ASSUME NEW i \in DOMAIN jobs', phase'[jobs'[i].id] = "submitted" PROVE jobs'[i].phase = "submitted"
  <2>1. jobs'[i] = jobs[i + 1] /\ i + 1 \in DOMAIN jobs /\ i + 1 # 1
    BY <1>2
  <2>2. jobs'[i].id \in Job /\ jobs'[i].id # Head(jobs).id
    BY <1>3, <1>4, <2>1 DEF ListedOnce
  <2> QED BY <1>6, <2>1, <2>2 DEF ListedOnce
<1> QED BY <1>3, <1>4, <1>5, <1>6 DEF ListedOnce

(* Every step of the provider keeps its invariant.                         *)
LEMMA AcpStep == AcpInv /\ [AcpNext]_acpVars => AcpInv'
<1> SUFFICES ASSUME AcpInv, [AcpNext]_acpVars PROVE AcpInv'
  OBVIOUS
<1>0. AcpTypes /\ OncePerLife /\ HandlesFirst /\ ListedOnce /\ PaidFor
  BY DEF AcpInv
<1>t. /\ phase \in [Job -> Phases] /\ asRead = [j \in Job |-> asRead[j]]
      /\ sent \in [Job -> Seq(Outcomes)]
      /\ jobs \in Seq(Entry)
      /\ lives \in Nat \ {0} /\ handling \in {"key", "execute", "await", "submit"}
  BY <1>0 DEF AcpTypes
<1>1. CASE Client
  <2>1. UNCHANGED <<asRead, sent, jobs, seen, handling, lives>>
    BY <1>1 DEF Client
  <2>2. PICK j \in Job, p \in Phases : phase' = [phase EXCEPT ![j] = p] /\ p # "submitted"
    BY <1>1 DEF Client, Moves, Phases
  <2>3. phase' \in [Job -> Phases] /\ \A i \in Job : phase'[i] = "submitted" => phase[i] = "submitted"
    BY <1>t, <2>2
  <2>4. AcpTypes'
    BY <1>t, <2>1, <2>3 DEF AcpTypes
  <2>5. OncePerLife' /\ HandlesFirst'
    BY <1>0, <2>1 DEF OncePerLife, HandlesFirst, Unsent, Begun
  <2>6. ListedOnce'
    <3>1. \A i \in DOMAIN jobs : jobs[i].id \in Job
      BY <1>t, JobsListed
    <3> QED BY <1>0, <2>1, <2>3, <3>1 DEF ListedOnce
  <2>7. PaidFor'
    BY <1>0, <2>1, <2>3 DEF PaidFor
  <2> QED BY <2>4, <2>5, <2>6, <2>7 DEF AcpInv
<1>2. CASE TxMined
  <2>1. UNCHANGED <<phase, action, asRead, jobs, seen, handling, lives>>
    BY <1>2 DEF TxMined
  <2>2. PICK j, i, outcome :
            /\ j \in Job /\ i \in DOMAIN sent[j] /\ outcome \in {"done", "reverted"}
            /\ sent' = [sent EXCEPT ![j] = [sent[j] EXCEPT ![i] = outcome]]
    <3>1. PICK j \in Job : \E i \in DOMAIN sent[j], outcome \in {"done", "reverted"} :
                             sent' = [sent EXCEPT ![j] = [sent[j] EXCEPT ![i] = outcome]]
      BY <1>2 DEF TxMined
    <3> QED BY <3>1
  <2>3. /\ [sent[j] EXCEPT ![i] = outcome] \in Seq(Outcomes)
        /\ Len([sent[j] EXCEPT ![i] = outcome]) = Len(sent[j]) /\ sent[j] # << >>
        /\ [sent[j] EXCEPT ![i] = outcome] # << >>
    <3> DEFINE was == sent[j]
    <3>1. was \in Seq(Outcomes) /\ i \in DOMAIN was /\ outcome \in Outcomes
      BY <1>t, <2>2 DEF Outcomes
    <3> HIDE DEF was
    <3>2. /\ [was EXCEPT ![i] = outcome] \in Seq(Outcomes) /\ Len([was EXCEPT ![i] = outcome]) = Len(was)
          /\ was # << >>
      BY <3>1
    <3>3. [was EXCEPT ![i] = outcome] # << >>
      BY <3>1, <3>2
    <3> QED BY <3>2, <3>3 DEF was
  <2>4. /\ sent' \in [Job -> Seq(Outcomes)]
        /\ \A k \in Job : Len(sent'[k]) = Len(sent[k]) /\ (sent'[k] = << >> => sent[k] = << >>)
    BY <1>t, <2>2, <2>3
  <2>5. AcpTypes' /\ ListedOnce' /\ PaidFor'
    BY <1>0, <1>t, <2>1, <2>4 DEF AcpTypes, ListedOnce, PaidFor
  <2>6. OncePerLife'
    BY <1>0, <2>1, <2>4 DEF OncePerLife, Unsent, Begun
  <2>7. HandlesFirst'
    <3>1. jobs # << >> => Head(jobs).id \in Job
      BY <1>t, JobsListed
    <3> QED BY <1>0, <2>1, <2>4, <3>1 DEF HandlesFirst
  <2> QED BY <2>5, <2>6, <2>7 DEF AcpInv
<1>3. CASE pass
  <2> DEFINE n == Cardinality(Listed)
  <2>1. /\ jobs = << >> /\ jobs' = [i \in 1 .. n |-> [id |-> i, phase |-> phase[i]]]
        /\ UNCHANGED <<phase, action, asRead, sent, seen, handling, lives>>
    BY <1>3 DEF pass
  <2>2. n \in Nat /\ n <= Jobs
    <3>1. Jobs \in Nat /\ Listed \subseteq 1 .. Jobs
      BY AcpAssumption DEF Listed, Job
    <3>2. IsFiniteSet(1 .. Jobs) /\ Cardinality(1 .. Jobs) = Jobs
      BY <3>1, FS_Interval
    <3> QED BY <3>1, <3>2, FS_Subset, FS_CardinalityType
  <2> HIDE DEF n
  <2>3. \A i \in 1 .. n : i \in Job /\ phase[i] \in Phases
    BY <1>t, <2>2, AcpAssumption DEF Job
  <2>4. jobs' \in Seq(Entry) /\ DOMAIN jobs' = 1 .. n
    <3>1. \A i \in 1 .. n : [id |-> i, phase |-> phase[i]] \in Entry
      BY <2>3 DEF Entry
    <3> QED BY <2>1, <2>2, <3>1
  <2>5. AcpTypes' /\ PaidFor'
    BY <1>0, <1>t, <2>1, <2>4 DEF AcpTypes, PaidFor
  <2>6. ListedOnce'
    BY <2>1, <2>3, <2>4 DEF ListedOnce
  <2>7. handling = "key"
    BY <1>0, <2>1 DEF HandlesFirst
  <2>8. HandlesFirst' /\ OncePerLife'
    BY <1>0, <2>1, <2>7 DEF HandlesFirst, OncePerLife, Unsent, Begun
  <2> QED BY <2>5, <2>6, <2>8 DEF AcpInv
<1>4. CASE handle
  <2> DEFINE front == Head(jobs)
  <2>1. jobs # << >> /\ handling = "key" /\ UNCHANGED <<action, sent, lives>>
    BY <1>4 DEF handle
  <2>2. front \in Entry /\ front = jobs[1] /\ 1 \in DOMAIN jobs
    BY <1>t, <2>1, Elements
  <2>3. front = [id |-> front.id, phase |-> front.phase] /\ front.id \in Job
    BY <2>2 DEF Entry
  <2>4. \A j \in Job : Unsent(j) <=> ~ Begun(j)
    BY <2>1 DEF Unsent
  <2>5. CASE front \in seen
    <3>1. jobs' = Tail(jobs) /\ handling' = "key" /\ UNCHANGED <<phase, asRead, seen>>
      BY <1>4, <2>5 DEF handle, NextJob
    <3>2. jobs' \in Seq(Entry) /\ ListedOnce'
      BY <1>0, <2>1, <3>1, NextInList
    <3> QED BY <1>0, <1>t, <2>1, <2>4, <3>1, <3>2
            DEF AcpInv, AcpTypes, OncePerLife, Unsent, Begun, HandlesFirst, PaidFor
  <2>6. CASE front \notin seen /\ front.phase = "funded"
    <3>1. /\ seen' = seen \cup {front} /\ UNCHANGED <<phase, jobs>>
          /\ \E a \in extractReq(front.id) : asRead' = [asRead EXCEPT ![front.id] = a]
          /\ handling' = IF asRead'[front.id] = "answer" THEN "submit" ELSE "execute"
      BY <1>4, <2>6 DEF handle, Marked
    <3>2. asRead' = [j \in Job |-> asRead'[j]] /\ \A j \in Job \ {front.id} : asRead'[j] = asRead[j]
      <4>1. PICK a : asRead' = [asRead EXCEPT ![front.id] = a]
        BY <3>1
      <4>2. asRead' = [j \in Job |-> IF j = front.id THEN a ELSE asRead[j]]
        BY <1>t, <2>3, <4>1
      <4> QED BY <2>3, <4>2
    <3>3. phase[front.id] # "submitted"
      BY <1>0, <2>2, <2>6 DEF ListedOnce
    <3>4. PaidFor'
      BY <1>0, <2>1, <3>1, <3>2, <3>3 DEF PaidFor
    <3>5. \A j \in Job : Unsent(j)' => Unsent(j)
      BY <2>1, <2>3, <2>4, <2>6, <3>1 DEF Unsent, Begun
    <3>6. OncePerLife'
      BY <1>0, <2>1, <3>5 DEF OncePerLife
    <3>7. HandlesFirst'
      BY <2>1, <2>6, <3>1 DEF HandlesFirst
    <3>8. AcpTypes' /\ ListedOnce'
      BY <1>0, <1>t, <2>1, <3>1, <3>2 DEF AcpTypes, ListedOnce
    <3> QED BY <3>4, <3>6, <3>7, <3>8 DEF AcpInv
  <2>7. CASE front \notin seen /\ front.phase # "funded"
    <3>1. seen' = seen \cup {front} /\ jobs' = Tail(jobs) /\ handling' = "key"
      BY <1>4, <2>7 DEF handle, NextJob
    <3>2. \/ UNCHANGED <<phase, asRead>>
          \/ /\ front.phase = "open" /\ \E a : asRead' = [asRead EXCEPT ![front.id] = a]
             /\ phase' = phase \/ phase' = [phase EXCEPT ![front.id] = "budget_set"]
      BY <1>4, <2>7 DEF handle, Moves
    <3>3. /\ phase' \in [Job -> Phases] /\ \A j \in Job : phase'[j] = "submitted" => phase[j] = "submitted"
          /\ asRead' = [j \in Job |-> asRead'[j]]
          /\ \A j \in Job : asRead'[j] = asRead[j] \/ (j = front.id /\ front.phase = "open")
      <4>1. CASE UNCHANGED <<phase, asRead>>
        BY <1>t, <4>1
      <4>2. CASE /\ front.phase = "open" /\ \E a : asRead' = [asRead EXCEPT ![front.id] = a]
                 /\ phase' = phase \/ phase' = [phase EXCEPT ![front.id] = "budget_set"]
        <5>1. PICK a : asRead' = [asRead EXCEPT ![front.id] = a]
          BY <4>2
        <5>2. asRead' = [j \in Job |-> IF j = front.id THEN a ELSE asRead[j]]
          BY <1>t, <2>3, <5>1
        <5>3. "budget_set" \in Phases
          BY DEF Phases
        <5>4. phase' \in [Job -> Phases] /\ \A j \in Job : phase'[j] = "submitted" => phase[j] = "submitted"
          <6>1. phase \in [Job -> Phases]
            BY <1>t
          <6>2. CASE phase' = phase
            BY <6>1, <6>2
          <6>3. CASE phase' = [phase EXCEPT ![front.id] = "budget_set"]
            BY <5>3, <6>1, <6>3
          <6> QED BY <4>2, <6>2, <6>3
        <5> QED BY <2>3, <4>2, <5>2, <5>4
      <4> QED BY <3>2, <4>1, <4>2
    <3>4. jobs' \in Seq(Entry) /\ ListedOnce'
      BY <1>0, <2>1, <3>1, <3>3, NextInList
    <3>5. front.phase = "open" => phase[front.id] # "submitted"
      BY <1>0, <2>2 DEF ListedOnce
    <3>6. PaidFor'
      BY <1>0, <2>1, <3>3, <3>5 DEF PaidFor
    <3>7. OncePerLife'
      <4>1. \A j \in Job : Unsent(j)' => Unsent(j)
        BY <2>4, <3>1 DEF Unsent, Begun
      <4> QED BY <1>0, <2>1, <4>1 DEF OncePerLife
    <3>8. AcpTypes' /\ HandlesFirst'
      BY <1>t, <2>1, <3>1, <3>3, <3>4 DEF AcpTypes, HandlesFirst
    <3> QED BY <3>4, <3>6, <3>7, <3>8 DEF AcpInv
  <2> QED BY <2>5, <2>6, <2>7
<1>5. CASE Execute
  <2> DEFINE id == Head(jobs).id
  <2>1. jobs # << >> /\ handling = "execute" /\ UNCHANGED <<phase, action, asRead, seen, lives>>
    BY <1>5 DEF Execute
  <2>2. Head(jobs) \in Entry /\ Head(jobs).phase = "funded" /\ Head(jobs) \in seen
    BY <1>0, <1>t, <2>1, Elements DEF HandlesFirst
  <2>3. id \in Job /\ Begun(id)
    <3>1. Head(jobs) = [id |-> id, phase |-> "funded"]
      BY <2>2 DEF Entry
    <3> QED BY <2>2, <3>1 DEF Begun, Entry
  <2>4. Len(sent[id]) < lives
    BY <1>0, <2>1, <2>3 DEF OncePerLife, Unsent
  <2>5. \/ jobs' = Tail(jobs) /\ handling' = "key"
        \/ jobs' = jobs /\ handling' \in {"await", "submit"} /\ sent' = [sent EXCEPT ![id] = Append(@, "pending")]
    BY <1>5 DEF Execute, NextJob
  <2>6. sent' = sent \/ sent' = [sent EXCEPT ![id] = Append(@, "pending")]
    BY <1>5 DEF Execute
  <2>7. /\ Append(sent[id], "pending") \in Seq(Outcomes)
        /\ Len(Append(sent[id], "pending")) = Len(sent[id]) + 1 /\ Append(sent[id], "pending") # << >>
        /\ Len(sent[id]) \in Nat
    <3>1. sent[id] \in Seq(Outcomes) /\ "pending" \in Outcomes
      BY <1>t, <2>3 DEF Outcomes
    <3> QED BY <3>1
  <2>8. /\ sent' \in [Job -> Seq(Outcomes)]
        /\ \A j \in Job \ {id} : sent'[j] = sent[j]
        /\ sent'[id] = sent[id] \/ (Len(sent'[id]) = Len(sent[id]) + 1 /\ sent'[id] # << >>)
        /\ handling' # "key" => sent'[id] # << >>
    <3> HIDE DEF id
    <3> QED BY <1>t, <2>3, <2>5, <2>6, <2>7
  <2>9. jobs' \in Seq(Entry) /\ ListedOnce'
    <3>1. CASE jobs' = Tail(jobs)
      BY <1>0, <2>1, <3>1, NextInList
    <3>2. CASE jobs' = jobs
      BY <1>0, <1>t, <2>1, <3>2 DEF ListedOnce
    <3> QED BY <2>5, <3>1, <3>2
  <2>10. OncePerLife'
    <3>1. handling' # "execute" /\ \A j \in Job : Unsent(j)' => j # id /\ Unsent(j)
      BY <2>1, <2>3, <2>5 DEF Unsent, Begun
    <3>2. Len(sent'[id]) <= lives
      BY <1>t, <2>4, <2>7, <2>8
    <3> QED BY <1>0, <2>1, <2>8, <3>1, <3>2 DEF OncePerLife
  <2>11. PaidFor'
    BY <1>0, <2>1, <2>8 DEF PaidFor
  <2>12. HandlesFirst'
    BY <2>1, <2>2, <2>5, <2>8 DEF HandlesFirst
  <2>13. AcpTypes'
    BY <1>t, <2>1, <2>5, <2>8, <2>9 DEF AcpTypes
  <2> QED BY <2>9, <2>10, <2>11, <2>12, <2>13 DEF AcpInv
<1>6. CASE Await
  <2>1. handling = "await" /\ handling' = "submit" /\ UNCHANGED <<phase, action, asRead, sent, jobs, seen, lives>>
    BY <1>6 DEF Await
  <2> QED BY <1>0, <1>t, <2>1 DEF AcpInv, AcpTypes, OncePerLife, Unsent, Begun, HandlesFirst, ListedOnce, PaidFor
<1>7. CASE Submit
  <2> DEFINE id == Head(jobs).id
  <2>1. /\ jobs # << >> /\ handling = "submit" /\ jobs' = Tail(jobs) /\ handling' = "key"
        /\ UNCHANGED <<action, asRead, sent, seen, lives>>
        /\ phase' = phase \/ phase' = [phase EXCEPT ![id] = "submitted"]
    BY <1>7 DEF Submit, NextJob, Moves
  <2>2. id \in Job /\ "submitted" \in Phases
    BY <1>t, <2>1, JobsListed DEF Phases
  <2>3. phase' \in [Job -> Phases] /\ \A j \in Job : phase'[j] = "submitted" => phase[j] = "submitted" \/ j = id
    <3> HIDE DEF id
    <3> QED BY <1>t, <2>1, <2>2
  <2>4. jobs' \in Seq(Entry) /\ ListedOnce'
    BY <1>0, <2>1, <2>3, NextInList
  <2>5. asRead[id] = "answer" \/ sent[id] # << >>
    BY <1>0, <2>1 DEF HandlesFirst
  <2>6. PaidFor'
    BY <1>0, <2>1, <2>3, <2>5 DEF PaidFor
  <2>7. OncePerLife'
    <3>1. \A j \in Job : Unsent(j)' => Unsent(j)
      BY <2>1 DEF Unsent, Begun
    <3> QED BY <1>0, <2>1, <3>1 DEF OncePerLife
  <2>8. AcpTypes' /\ HandlesFirst'
    BY <1>t, <2>1, <2>3, <2>4 DEF AcpTypes, HandlesFirst
  <2> QED BY <2>4, <2>6, <2>7, <2>8 DEF AcpInv
<1>8. CASE Restart
  <2>1. /\ lives' = lives + 1 /\ jobs' = << >> /\ seen' = {} /\ handling' = "key"
        /\ UNCHANGED <<phase, action, asRead, sent>>
    BY <1>8 DEF Restart
  <2>2. OncePerLife'
    <3>1. \A j \in Job : Len(sent[j]) \in Nat
      BY <1>t
    <3> QED BY <1>0, <1>t, <2>1, <3>1 DEF OncePerLife
  <2>3. AcpTypes'
    BY <1>t, <2>1 DEF AcpTypes
  <2>4. HandlesFirst' /\ ListedOnce' /\ PaidFor'
    BY <1>0, <2>1 DEF HandlesFirst, ListedOnce, PaidFor
  <2> QED BY <2>2, <2>3, <2>4 DEF AcpInv
<1>9. CASE UNCHANGED acpVars
  BY <1>0, <1>t, <1>9 DEF AcpInv, AcpTypes, OncePerLife, Unsent, Begun, HandlesFirst, ListedOnce, PaidFor, acpVars
<1> QED BY <1>1, <1>2, <1>3, <1>4, <1>5, <1>6, <1>7, <1>8, <1>9 DEF AcpNext

(* agent/src/acp-provider.ts: one run of the process sends at most once    *)
(* for a job, however lists, failures and restarts fall, and submits for a *)
(* swap or payment it read only when something was sent.                   *)
THEOREM ProviderCorrect == ServicesSpec => []SentOncePerLife
<1>1. ServicesInit => AcpInv
  <2> SUFFICES ASSUME AcpInit PROVE AcpInv
    BY DEF ServicesInit
  <2>1. /\ phase = [j \in Job |-> "absent"] /\ asRead = [j \in Job |-> "answer"]
        /\ sent = [j \in Job |-> << >>] /\ jobs = << >> /\ seen = {} /\ handling = "key" /\ lives = 1
    BY DEF AcpInit
  <2>2. "absent" \in Phases /\ << >> \in Seq(Outcomes) /\ Len(<< >>) = 0
        /\ << >> \in Seq(Entry)
    BY DEF Phases
  <2>3. AcpTypes
    BY <2>1, <2>2 DEF AcpTypes
  <2>4. OncePerLife
    BY <2>1, <2>2 DEF OncePerLife
  <2>5. HandlesFirst /\ ListedOnce /\ PaidFor
    BY <2>1 DEF HandlesFirst, ListedOnce, PaidFor
  <2> QED BY <2>3, <2>4, <2>5 DEF AcpInv
<1>2. AcpInv => SentOncePerLife
  BY DEF AcpInv, OncePerLife, PaidFor, SentOncePerLife
<1> QED BY <1>1, <1>2, OwnSteps, AcpStep, PTL DEF ServicesSpec

-----------------------------------------------------------------------------
(* The chat's cards. A step that is done was run by the desk or has a      *)
(* transaction, and none is confirmed beyond the one that comes next.      *)
Cards == [at : {"idle", "running", "signed"}, try : 1 .. MaxTries]
ChatTypes ==
  /\ \E S : log \in Seq(S)
  /\ done \in Seq(Nat) /\ card \in Seq(Cards)
  /\ Len(done) = Len(log) /\ Len(card) = Len(log)

RunOrSigned(n, j) ==
  log[n].steps[j] \in Desk \/ \E t \in 1 .. MaxTries : <<n, j, t>> \in signed
DoneWereRun == \A n \in Replies : \A j \in 1 .. done[n] : RunOrSigned(n, j)
StartedInOrder ==
  \A s \in started : s[1] \in Replies /\ s[2] \in Nat /\ s[2] <= done[s[1]] + 1
CardSigned == \A n \in Replies : card[n].at = "signed" => <<n, Step(n), card[n].try>> \in signed

ChatInv == ChatTypes /\ DoneWereRun /\ StartedInOrder /\ CardSigned

(* A reply of the log has a count of steps done and a card.                *)
LEMMA OfReply ==
  ASSUME ChatTypes, NEW n, n \in Replies
  PROVE  /\ n \in 1 .. Len(log) /\ Len(log) \in Nat /\ Replies = 1 .. Len(log)
         /\ done[n] \in Nat /\ card[n] \in Cards /\ n \in DOMAIN done /\ n \in DOMAIN card
<1>1. PICK S : log \in Seq(S)
  BY DEF ChatTypes
<1>2. n \in 1 .. Len(log) /\ Len(log) \in Nat /\ Replies = 1 .. Len(log)
  BY <1>1 DEF Replies
<1>3. done \in Seq(Nat) /\ card \in Seq(Cards) /\ Len(done) = Len(log) /\ Len(card) = Len(log)
  BY DEF ChatTypes
<1> QED BY <1>2, <1>3

(* A step of one card, in general: its reply may be done with its step.    *)
LEMMA CardStep ==
  ASSUME ChatInv, NEW n, NEW was, n \in Replies, was \in Cards,
         UNCHANGED log, signed \subseteq signed',
         card' = [card EXCEPT ![n] = was],
         \/ UNCHANGED done
         \/ done' = [done EXCEPT ![n] = @ + 1] /\ was.at = "idle" /\ RunOrSigned(n, Step(n)),
         was.at = "signed" => <<n, Step(n), was.try>> \in signed',
         \/ UNCHANGED started
         \/ started' = started \cup {<<n, Step(n)>>}
  PROVE  ChatInv'
<1>1. /\ done \in Seq(Nat) /\ card \in Seq(Cards) /\ Len(done) = Len(log) /\ Len(card) = Len(log)
      /\ Replies = 1 .. Len(log) /\ n \in 1 .. Len(log) /\ Len(log) \in Nat /\ done[n] \in Nat
  <2>1. ChatTypes
    BY DEF ChatInv
  <2>2. /\ n \in 1 .. Len(log) /\ Len(log) \in Nat /\ Replies = 1 .. Len(log) /\ done[n] \in Nat
    BY <2>1, OfReply
  <2> QED BY <2>1, <2>2 DEF ChatTypes
<1>2. Replies' = Replies
  BY DEF Replies
<1>3. /\ card' \in Seq(Cards) /\ Len(card') = Len(card)
      /\ \A m \in Replies : card'[m] = IF m = n THEN was ELSE card[m]
  <2>1. DOMAIN card = 1 .. Len(card)
    BY <1>1
  <2>2. card' \in Seq(Cards) /\ Len(card') = Len(card)
    BY <1>1
  <2> QED BY <1>1, <2>1, <2>2
<1>4. /\ done' \in Seq(Nat) /\ Len(done') = Len(done)
      /\ \A m \in Replies \ {n} : done'[m] = done[m]
      /\ done'[n] = done[n] \/ (done'[n] = done[n] + 1 /\ was.at = "idle" /\ RunOrSigned(n, Step(n)))
  <2>1. CASE UNCHANGED done
    BY <1>1, <2>1
  <2>2. CASE done' = [done EXCEPT ![n] = @ + 1] /\ was.at = "idle" /\ RunOrSigned(n, Step(n))
    BY <1>1, <2>2
  <2> QED BY <2>1, <2>2
<1>10. \A m \in Replies : done[m] \in Nat /\ done'[m] \in Nat
  <2>1. DOMAIN done = Replies /\ DOMAIN done' = Replies
    BY <1>1, <1>4
  <2>2. \A m \in DOMAIN done : done[m] \in Nat
    BY <1>1
  <2>3. \A m \in DOMAIN done' : done'[m] \in Nat
    BY <1>4
  <2> QED BY <2>1, <2>2, <2>3
<1>5. ChatTypes'
  BY <1>1, <1>3, <1>4 DEF ChatInv, ChatTypes
<1>6. \A m, j : RunOrSigned(m, j) => RunOrSigned(m, j)'
  BY DEF RunOrSigned, Desk
<1>7. DoneWereRun'
  <2> SUFFICES ASSUME NEW m \in Replies, NEW j \in 1 .. done'[m] PROVE RunOrSigned(m, j)'
    BY <1>2 DEF DoneWereRun
  <2>1. CASE j \in 1 .. done[m]
    BY <1>6, <2>1 DEF ChatInv, DoneWereRun
  <2>2. CASE j \notin 1 .. done[m]
    <3>1. done[m] \in Nat /\ done'[m] \in Nat
      BY <1>10
    <3>2. m = n
      BY <1>4, <2>2
    <3>3. done'[n] = done[n] + 1 /\ RunOrSigned(n, Step(n))
      BY <1>1, <1>4, <2>2, <3>2
    <3>4. j = done[n] + 1
      BY <2>2, <3>1, <3>2, <3>3
    <3>5. RunOrSigned(m, j)
      BY <3>2, <3>3, <3>4 DEF Step
    <3> QED BY <1>6, <3>5
  <2> QED BY <2>1, <2>2
<1>8. StartedInOrder'
  <2> SUFFICES ASSUME NEW s \in started' PROVE s[1] \in Replies /\ s[2] \in Nat /\ s[2] <= done'[s[1]] + 1
    BY <1>2 DEF StartedInOrder
  <2>1. ASSUME NEW m \in Replies PROVE done[m] \in Nat /\ done'[m] \in Nat /\ done[m] <= done'[m]
    <3>1. done[m] \in Nat /\ done'[m] \in Nat
      BY <1>10
    <3>2. CASE m = n
      BY <1>1, <1>4, <3>1, <3>2
    <3>3. CASE m # n
      BY <1>4, <3>1, <3>3
    <3> QED BY <3>1, <3>2, <3>3
  <2>2. CASE s \in started
    BY <2>1, <2>2 DEF ChatInv, StartedInOrder
  <2>3. CASE s = <<n, Step(n)>>
    BY <1>1, <2>1, <2>3 DEF Step
  <2> QED BY <2>2, <2>3
<1>9. CardSigned'
  <2> SUFFICES ASSUME NEW m \in Replies, card'[m].at = "signed"
               PROVE  <<m, done'[m] + 1, card'[m].try>> \in signed'
    BY <1>2 DEF CardSigned, Step
  <2>1. CASE m = n
    BY <1>3, <1>4, <2>1 DEF Step
  <2>2. CASE m # n
    BY <1>3, <1>4, <2>2 DEF ChatInv, CardSigned, Step
  <2> QED BY <2>1, <2>2
<1> QED BY <1>5, <1>7, <1>8, <1>9 DEF ChatInv

(* A reply keeps the chat's invariant.                                     *)
LEMMA ReplyStep ==
  ASSUME ChatInv, NEW steps, NEW by, Reply(steps, by)
  PROVE  ChatInv'
<1> DEFINE r == [steps |-> steps, by |-> by]
           idle == [at |-> "idle", try |-> 1]
<1>1. /\ log' = Append(log, r) /\ done' = Append(done, 0) /\ card' = Append(card, idle)
      /\ UNCHANGED <<started, signed>>
  BY DEF Reply
<1>2. PICK S : log \in Seq(S)
  BY DEF ChatInv, ChatTypes
<1>3. idle \in Cards /\ idle.at # "signed"
  BY WoodieAssumption DEF Cards
<1>4. done \in Seq(Nat) /\ card \in Seq(Cards) /\ Len(done) = Len(log) /\ Len(card) = Len(log)
  BY DEF ChatInv, ChatTypes
<1> HIDE DEF r, idle
<1>5. log \in Seq(S \cup {r})
  <2>1. \A i \in 1 .. Len(log) : log[i] \in S \cup {r}
    BY <1>2
  <2>2. log = [i \in 1 .. Len(log) |-> log[i]] /\ Len(log) \in Nat
    BY <1>2
  <2> QED BY <2>1, <2>2
<1>6. /\ Len(log') = Len(log) + 1 /\ Len(log) \in Nat /\ log' \in Seq(S \cup {r})
      /\ \A n \in 1 .. Len(log) : log'[n] = log[n]
      /\ Replies = 1 .. Len(log) /\ Replies' = 1 .. Len(log) + 1
  BY <1>1, <1>2, <1>5 DEF Replies
<1>7. /\ done' \in Seq(Nat) /\ card' \in Seq(Cards) /\ Len(done') = Len(log) + 1 /\ Len(card') = Len(log) + 1
      /\ \A n \in 1 .. Len(log) : done'[n] = done[n] /\ card'[n] = card[n]
      /\ done'[Len(log) + 1] = 0 /\ card'[Len(log) + 1] = idle
  BY <1>1, <1>3, <1>4, <1>6
<1>8. ChatTypes'
  BY <1>6, <1>7 DEF ChatTypes
<1>9. ASSUME NEW n \in Replies' PROVE n \in Replies \/ n = Len(log) + 1
  BY <1>6
<1>10. DoneWereRun'
  <2> SUFFICES ASSUME NEW n \in Replies', NEW j \in 1 .. done'[n] PROVE RunOrSigned(n, j)'
    BY DEF DoneWereRun
  <2>1. n # Len(log) + 1
    BY <1>7
  <2> QED BY <1>1, <1>6, <1>7, <1>9, <2>1 DEF ChatInv, DoneWereRun, RunOrSigned, Desk
<1>11. StartedInOrder'
  BY <1>1, <1>6, <1>7 DEF ChatInv, StartedInOrder
<1>12. CardSigned'
  <2> SUFFICES ASSUME NEW n \in Replies', card'[n].at = "signed"
               PROVE  <<n, done'[n] + 1, card'[n].try>> \in signed'
    BY DEF CardSigned, Step
  <2>1. n # Len(log) + 1
    BY <1>3, <1>7
  <2> QED BY <1>1, <1>6, <1>7, <1>9, <2>1 DEF ChatInv, CardSigned, Step
<1> QED BY <1>8, <1>10, <1>11, <1>12 DEF ChatInv

(* Every step of the chat keeps its invariant.                             *)
LEMMA ChatStep == ChatInv /\ [WoodieNext]_chatVars => ChatInv'
<1> SUFFICES ASSUME ChatInv, [WoodieNext]_chatVars PROVE ChatInv'
  OBVIOUS
<1>1. ASSUME UNCHANGED <<log, done, card, started, signed>> PROVE ChatInv'
  BY <1>1 DEF ChatInv, ChatTypes, DoneWereRun, RunOrSigned, StartedInOrder, CardSigned, Replies, Step, Desk
<1>2. CASE Say \/ AccountChanges \/ UNCHANGED chatVars
  BY <1>1, <1>2 DEF Say, AccountChanges, chatVars
<1>3. CASE chat
  <2>1. PICK steps, by : Reply(steps, by)
    BY <1>3 DEF chat
  <2> QED BY <2>1, ReplyStep
<1>4. ASSUME NEW n, n \in Replies, confirm(n) \/ Mined(n) \/ Returns(n) \/ CardThrows(n) PROVE ChatInv'
  <2>1. card[n] \in Cards /\ MaxTries \in Nat \ {0}
    BY <1>4, OfReply, WoodieAssumption DEF ChatInv
  <2>2. card[n].try \in 1 .. MaxTries
    BY <2>1 DEF Cards
  <2>3. CASE confirm(n)
    <3> DEFINE was == [card[n] EXCEPT !.at = "running"]
    <3>1. was \in Cards /\ was.at = "running"
      BY <2>1 DEF Cards
    <3>2. /\ card' = [card EXCEPT ![n] = was] /\ started' = started \cup {<<n, Step(n)>>}
          /\ UNCHANGED <<log, done, signed>>
      BY <2>3 DEF confirm
    <3> HIDE DEF was
    <3> QED BY <1>4, <3>1, <3>2, CardStep
  <2>4. CASE Mined(n)
    <3> DEFINE was == [card[n] EXCEPT !.at = "signed"]
    <3>1. was \in Cards /\ was.try = card[n].try
      BY <2>1 DEF Cards
    <3>2. /\ card' = [card EXCEPT ![n] = was] /\ signed' = signed \cup {<<n, Step(n), card[n].try>>}
          /\ UNCHANGED <<log, done, started>>
      BY <2>4 DEF Mined
    <3> HIDE DEF was
    <3> QED BY <1>4, <3>1, <3>2, CardStep
  <2>5. CASE Returns(n)
    <3> DEFINE was == [at |-> "idle", try |-> 1]
    <3>1. was \in Cards /\ was.at = "idle"
      BY <2>1 DEF Cards
    <3>2. /\ card' = [card EXCEPT ![n] = was] /\ done' = [done EXCEPT ![n] = @ + 1]
          /\ UNCHANGED <<log, started, signed>>
      BY <2>5 DEF Returns
    <3>3. RunOrSigned(n, Step(n))
      BY <1>4, <2>2, <2>5 DEF Returns, RunOrSigned, StepAction, ChatInv, CardSigned
    <3> HIDE DEF was
    <3> QED BY <1>4, <3>1, <3>2, <3>3, CardStep
  <2>6. CASE CardThrows(n)
    <3> DEFINE was == [at |-> "idle", try |-> card[n].try + 1]
    <3>1. was \in Cards /\ was.at = "idle"
      BY <2>1, <2>2, <2>6 DEF Cards, CardThrows
    <3>2. /\ card' = [card EXCEPT ![n] = was] /\ UNCHANGED <<log, done, started, signed>>
      BY <2>6 DEF CardThrows, Advance
    <3> HIDE DEF was
    <3> QED BY <1>4, <3>1, <3>2, CardStep
  <2> QED BY <1>4, <2>3, <2>4, <2>5, <2>6
<1> QED BY <1>2, <1>3, <1>4 DEF WoodieNext

(* web/app/src/Woodie.tsx: the steps of a plan are confirmed in order,     *)
(* each after those before it returned, with their transactions mined,     *)
(* for any plans, any number of replies and retries.                       *)
THEOREM PlansCorrect == ServicesSpec => []StepsInOrder
<1>1. ServicesInit => ChatInv
  <2> SUFFICES ASSUME WoodieInit PROVE ChatInv
    BY DEF ServicesInit
  <2>1. log = << >> /\ done = << >> /\ card = << >> /\ started = {} /\ signed = {}
    BY DEF WoodieInit
  <2>2. ChatTypes
    <3>1. log \in Seq(Nat)
      BY <2>1
    <3> QED BY <2>1, <3>1 DEF ChatTypes
  <2> QED BY <2>1, <2>2 DEF ChatInv, DoneWereRun, StartedInOrder, CardSigned, Replies
<1>2. ChatInv => StepsInOrder
  <2> SUFFICES ASSUME ChatInv, NEW s \in started, NEW j \in 1 .. s[2] - 1
               PROVE  j <= done[s[1]] /\ RunOrSigned(s[1], j)
    BY DEF StepsInOrder, RunOrSigned
  <2>1. s[1] \in Replies /\ s[2] \in Nat /\ s[2] <= done[s[1]] + 1 /\ done[s[1]] \in Nat
    BY OfReply DEF ChatInv, StartedInOrder
  <2>2. j \in 1 .. done[s[1]]
    BY <2>1
  <2> QED BY <2>1, <2>2 DEF ChatInv, DoneWereRun
<1> QED BY <1>1, <1>2, OwnSteps, ChatStep, PTL DEF ServicesSpec

-----------------------------------------------------------------------------
(* The sheet: what is drawn or on its way is of the sheet's token, unless  *)
(* the sheet has turned; what was kept with a known price is of the token  *)
(* in its key.                                                             *)
Attempt == [at : {"start", "rows"}, pool : Pool, token : Coin, ref : Coin \cup {NoCoin},
            side : {"base", "quote"}, left : {0, 1}, alive : BOOLEAN]
SheetTypes ==
  /\ sheet = [token |-> sheet.token, detail |-> sheet.detail, pool |-> sheet.pool, candles |-> sheet.candles,
              trades |-> sheet.trades, turned |-> sheet.turned]
  /\ {sheet.token, sheet.detail} \subseteq Coin \cup {NoCoin}
  /\ sheet.pool # NoPool \/ looking # {} => sheet.token \in Coin
  /\ sheet.pool \in Pool \cup {NoPool}
  /\ charts \subseteq Attempt
ChartsAreTheSheets == sheet.turned \/ \A c \in charts : c.alive => c.token = sheet.token
KeptByToken == \A r \in rows : r.known => r.leg = r.key[2]
SheetInv == SheetTypes /\ ChartsAreTheSheets /\ KeptByToken /\ ChartIsItsToken

(* A closed sheet has no chart on its way.                                 *)
LEMMA NothingOfTheClosed ==
  ASSUME SheetInv, sheet = Closed, NEW c, c \in charts
  PROVE  ~ c.alive
<1>1. c.token \in Coin /\ c.alive \in BOOLEAN
  BY DEF SheetInv, SheetTypes, Attempt
<1>2. sheet.token = NoCoin /\ ~ sheet.turned
  BY DEF Closed
<1> QED BY <1>1, <1>2, MarketDataAssumption DEF SheetInv, ChartsAreTheSheets

(* Attempts that were dropped are dead.                                    *)
LEMMA DroppedAreDead ==
  ASSUME charts \subseteq Attempt
  PROVE  Dropped(charts) \subseteq Attempt /\ \A c \in Dropped(charts) : ~ c.alive
<1> SUFFICES ASSUME NEW c, c \in Dropped(charts) PROVE c \in Attempt /\ ~ c.alive
  OBVIOUS
<1>1. PICK d \in charts : c = [d EXCEPT !.alive = FALSE]
  BY DEF Dropped
<1> QED BY <1>1 DEF Attempt

(* After charts are asked for, the only one alive is of the token asked.   *)
LEMMA AskedForSheet ==
  ASSUME SheetInv, NEW p, NEW t, NEW detail, p \in Pool, t \in Coin, detail \in Coin \cup {NoCoin},
         AskCharts(p, t, detail)
  PROVE  charts' \subseteq Attempt /\ \A c \in charts' : c.alive => c.token = t
<1>1. PICK ref \in Reference(detail, t) :
        charts' = Dropped(charts) \cup
          {[at |-> "start", pool |-> p, token |-> t, ref |-> ref, side |-> "base", left |-> 1, alive |-> TRUE]}
  BY DEF AskCharts
<1> DEFINE asked == [at |-> "start", pool |-> p, token |-> t, ref |-> ref, side |-> "base", left |-> 1, alive |-> TRUE]
<1>2. asked \in Attempt /\ asked.token = t
  BY DEF Attempt, Reference
<1>3. charts' = Dropped(charts) \cup {asked}
  BY <1>1
<1>4. charts \subseteq Attempt
  BY DEF SheetInv, SheetTypes
<1> HIDE DEF asked
<1> QED BY <1>2, <1>3, <1>4, DroppedAreDead

(* An attempt that ends, with a chart of its token if that was checked, or *)
(* with none, may be shown.                                                *)
LEMMA OverShows ==
  ASSUME SheetInv, NEW c, c \in charts, NEW leg, NEW known, known => leg \in {NoCoin, c.token},
         Over(c, leg, known), UNCHANGED looking
  PROVE  SheetTypes' /\ ChartsAreTheSheets' /\ ChartIsItsToken'
<1> DEFINE again == [c EXCEPT !.at = "start", !.left = 0]
           drawn == Drawn(c, leg, known)
<1>1. c \in Attempt
  BY DEF SheetInv, SheetTypes
<1>2. again \in Attempt /\ again.token = c.token /\ again.alive = c.alive
  BY <1>1 DEF Attempt
<1>3. charts' \subseteq charts \cup {again}
  BY DEF Over
<1>4. (drawn.known => drawn.leg = drawn.token) /\ drawn.token \in {NoCoin, c.token}
  BY DEF Drawn, NoCandles
<1> HIDE DEF again, drawn
<1>5. charts' \subseteq Attempt /\ (sheet.turned \/ \A d \in charts' : d.alive => d.token = sheet.token)
  BY <1>2, <1>3 DEF SheetInv, SheetTypes, ChartsAreTheSheets
<1>6. CASE sheet' = sheet
  BY <1>5, <1>6 DEF SheetInv, SheetTypes, ChartsAreTheSheets, ChartIsItsToken
<1>7. CASE sheet' # sheet
  <2>1. sheet' = [sheet EXCEPT !.candles = drawn] /\ c.alive
    BY <1>7 DEF Over, drawn
  <2>2. sheet.turned \/ c.token = sheet.token
    BY <2>1 DEF SheetInv, ChartsAreTheSheets
  <2>3. sheet' = [token |-> sheet.token, detail |-> sheet.detail, pool |-> sheet.pool, candles |-> drawn,
                  trades |-> sheet.trades, turned |-> sheet.turned]
    BY <2>1 DEF SheetInv, SheetTypes
  <2>4. /\ sheet'.token = sheet.token /\ sheet'.detail = sheet.detail /\ sheet'.pool = sheet.pool
        /\ sheet'.trades = sheet.trades /\ sheet'.turned = sheet.turned /\ sheet'.candles = drawn
    BY <2>3
  <2>5. SheetTypes'
    BY <1>5, <2>3, <2>4 DEF SheetInv, SheetTypes
  <2> QED BY <1>4, <1>5, <2>2, <2>4, <2>5 DEF ChartsAreTheSheets, ChartIsItsToken
<1> QED BY <1>6, <1>7

(* A pool or details for the sheet: the chart asked for is its token's.    *)
LEMMA ChartedAsks ==
  ASSUME SheetInv, NEW p \in Pool, NEW detail \in Coin \cup {NoCoin}, Charted(p, detail), looking # {},
         looking' \in {looking, {}}, UNCHANGED rows
  PROVE  SheetInv'
<1>0. SheetTypes /\ ChartsAreTheSheets /\ KeptByToken /\ ChartIsItsToken /\ sheet.token \in Coin
  BY DEF SheetInv, SheetTypes
<1>1. CASE sheet' = [sheet EXCEPT !.detail = detail] /\ UNCHANGED charts
  <2>1. sheet' = [token |-> sheet.token, detail |-> detail, pool |-> sheet.pool, candles |-> sheet.candles,
                  trades |-> sheet.trades, turned |-> sheet.turned]
    BY <1>0, <1>1 DEF SheetTypes
  <2>2. /\ sheet'.token = sheet.token /\ sheet'.detail = detail /\ sheet'.pool = sheet.pool
        /\ sheet'.trades = sheet.trades /\ sheet'.turned = sheet.turned /\ sheet'.candles = sheet.candles
    BY <2>1
  <2>3. SheetTypes'
    BY <1>0, <1>1, <2>1, <2>2 DEF SheetTypes
  <2> QED BY <1>0, <1>1, <2>2, <2>3 DEF SheetInv, ChartsAreTheSheets, KeptByToken, ChartIsItsToken
<1>2. CASE sheet' = [sheet EXCEPT !.detail = detail, !.pool = p] /\ AskCharts(p, sheet.token, detail)
  <2>1. sheet' = [token |-> sheet.token, detail |-> detail, pool |-> p, candles |-> sheet.candles,
                  trades |-> sheet.trades, turned |-> sheet.turned]
    BY <1>0, <1>2 DEF SheetTypes
  <2>2. /\ sheet'.token = sheet.token /\ sheet'.detail = detail /\ sheet'.pool = p
        /\ sheet'.trades = sheet.trades /\ sheet'.turned = sheet.turned /\ sheet'.candles = sheet.candles
    BY <2>1
  <2>3. charts' \subseteq Attempt /\ \A c \in charts' : c.alive => c.token = sheet.token
    BY <1>0, <1>2, AskedForSheet
  <2>4. SheetTypes'
    BY <1>0, <2>1, <2>2, <2>3 DEF SheetTypes
  <2> QED BY <1>0, <2>2, <2>3, <2>4 DEF SheetInv, ChartsAreTheSheets, KeptByToken, ChartIsItsToken
<1> QED BY <1>1, <1>2 DEF Charted

(* What each step of the sheet and of the feed does to the invariant.      *)
LEMMA SheetStep ==
  ASSUME SheetInv, [SheetNext \/ FeedNext]_marketVars
  PROVE  SheetInv'
<1>0. /\ SheetTypes /\ ChartsAreTheSheets /\ KeptByToken /\ ChartIsItsToken
      /\ charts \subseteq Attempt /\ {sheet.token, sheet.detail} \subseteq Coin \cup {NoCoin}
  BY DEF SheetInv, SheetTypes
<1>1. ASSUME UNCHANGED <<rows, sheet, looking, charts>> PROVE SheetInv'
  BY <1>1 DEF SheetInv, SheetTypes, ChartsAreTheSheets, KeptByToken, ChartIsItsToken
<1>2. CASE FeedNext \/ UNCHANGED marketVars
  BY <1>1, <1>2 DEF FeedNext, Load, FeedShows, LoadFails, marketVars, sheetVars
<1>3. ASSUME NEW t \in Coin, Opens(t) PROVE SheetInv'
  <2>0. looking' = {t} /\ UNCHANGED <<rows, charts>>
    BY <1>3 DEF Opens
  <2>1. CASE sheet = Closed
    <3>1. PICK detail \in {t, NoCoin} : sheet' = [sheet EXCEPT !.token = t, !.detail = detail]
      BY <1>3, <2>1 DEF Opens
    <3>2. \A c \in charts : ~ c.alive
      BY <2>1, NothingOfTheClosed
    <3>3. sheet' = [token |-> t, detail |-> detail, pool |-> NoPool, candles |-> NoCandles,
                    trades |-> NoChart, turned |-> FALSE]
      BY <2>1, <3>1 DEF Closed
    <3> QED BY <1>0, <2>0, <3>2, <3>3
            DEF SheetInv, SheetTypes, ChartsAreTheSheets, KeptByToken, ChartIsItsToken, NoCandles
  <2>2. CASE sheet # Closed
    <3>1. sheet' = [sheet EXCEPT !.token = t, !.turned = TRUE]
      BY <1>3, <2>2 DEF Opens
    <3>2. sheet' = [token |-> t, detail |-> sheet.detail, pool |-> sheet.pool, candles |-> sheet.candles,
                    trades |-> sheet.trades, turned |-> TRUE]
      BY <1>0, <3>1 DEF SheetTypes
    <3>3. /\ sheet'.token = t /\ sheet'.detail = sheet.detail /\ sheet'.pool = sheet.pool
          /\ sheet'.trades = sheet.trades /\ sheet'.turned = TRUE /\ sheet'.candles = sheet.candles
      BY <3>2
    <3>4. SheetTypes'
      BY <1>0, <2>0, <3>2, <3>3 DEF SheetTypes
    <3> QED BY <1>0, <2>0, <3>3, <3>4 DEF SheetInv, ChartsAreTheSheets, KeptByToken, ChartIsItsToken
  <2> QED BY <2>1, <2>2
<1>4. CASE closeToken
  <2>1. sheet' = Closed /\ looking' = {} /\ charts' = Dropped(charts) /\ UNCHANGED rows
    BY <1>4 DEF closeToken
  <2>2. charts' \subseteq Attempt /\ \A c \in charts' : ~ c.alive
    BY <1>0, <2>1, DroppedAreDead
  <2> QED BY <1>0, <2>1, <2>2
          DEF SheetInv, SheetTypes, ChartsAreTheSheets, KeptByToken, ChartIsItsToken, Closed, NoCandles
<1>5. CASE Timeframe
  <2>1. sheet.pool \in Pool /\ sheet.token \in Coin
    BY <1>0, <1>5 DEF Timeframe, SheetTypes
  <2>2. AskCharts(sheet.pool, sheet.token, sheet.detail) /\ UNCHANGED <<rows, sheet, looking>>
    BY <1>5 DEF Timeframe
  <2>3. charts' \subseteq Attempt /\ \A c \in charts' : c.alive => c.token = sheet.token
    BY <1>0, <2>1, <2>2, AskedForSheet
  <2> QED BY <1>0, <2>2, <2>3 DEF SheetInv, SheetTypes, ChartsAreTheSheets, KeptByToken, ChartIsItsToken
<1>6. CASE Expire
  <2>1. rows' = {} /\ UNCHANGED <<sheet, looking, charts>>
    BY <1>6 DEF Expire
  <2> QED BY <1>0, <2>1 DEF SheetInv, SheetTypes, ChartsAreTheSheets, KeptByToken, ChartIsItsToken
<1>7. ASSUME NEW p \in Pool, KnownPool(p) PROVE SheetInv'
  BY <1>0, <1>7, ChartedAsks DEF KnownPool
<1>8. ASSUME NEW p \in Pool, DexPool(p) PROVE SheetInv'
  BY <1>0, <1>8, ChartedAsks DEF DexPool
<1>9. ASSUME NEW p \in Pool, NEW withSides \in BOOLEAN, GtPool(p, withSides) PROVE SheetInv'
  BY <1>0, <1>9, ChartedAsks DEF GtPool
<1>10. ASSUME NEW c \in charts, fetchOhlcv(c) PROVE SheetInv'
  <2> DEFINE kept == { r \in rows : r.key = ChartKey(c.pool, c.token) }
  <2>0. UNCHANGED <<rows, looking>> /\ KeptByToken'
    BY <1>0, <1>10 DEF fetchOhlcv, KeptByToken
  <2>1. CASE kept # {}
    <3>1. PICK r \in kept : Over(c, r.leg, r.known)
      BY <1>10, <2>1 DEF fetchOhlcv
    <3>2. r.known => r.leg = c.token
      BY <1>0 DEF KeptByToken, ChartKey
    <3> QED BY <2>0, <3>1, <3>2, OverShows DEF SheetInv
  <2>2. CASE kept = {}
    <3>1. PICK side \in {"base", "quote"} : charts' = (charts \ {c}) \cup {[c EXCEPT !.at = "rows", !.side = side]}
      BY <1>10, <2>2 DEF fetchOhlcv
    <3> DEFINE next == [c EXCEPT !.at = "rows", !.side = side]
    <3>2. next \in Attempt /\ next.token = c.token /\ next.alive = c.alive
      BY <1>0 DEF Attempt
    <3>3. charts' = (charts \ {c}) \cup {next} /\ UNCHANGED sheet
      BY <1>10, <2>2, <3>1 DEF fetchOhlcv
    <3> HIDE DEF next
    <3>4. charts' \subseteq Attempt /\ (sheet.turned \/ \A d \in charts' : d.alive => d.token = sheet.token)
      BY <1>0, <3>2, <3>3 DEF ChartsAreTheSheets
    <3> QED BY <1>0, <2>0, <3>3, <3>4 DEF SheetInv, SheetTypes, ChartsAreTheSheets, ChartIsItsToken
  <2> QED BY <2>1, <2>2
<1>11. ASSUME NEW c \in charts, Rows(c) PROVE SheetInv'
  <2> DEFINE leg == Leg(c.pool, c.side)
             row == [key |-> ChartKey(c.pool, c.token), leg |-> leg, known |-> c.ref = c.token]
  <2>1. UNCHANGED looking /\ c.token \in Coin
    BY <1>0, <1>11 DEF Rows, Attempt
  <2>2. CASE Over(c, NoCoin, FALSE) /\ UNCHANGED rows
    BY <1>0, <2>1, <2>2, OverShows DEF SheetInv, KeptByToken
  <2>3. CASE ~ Disagrees(c, leg) /\ rows' = Filed(c, leg) /\ Over(c, leg, c.ref = c.token)
    <3>1. c.ref = c.token => leg = c.token
      BY <2>1, <2>3, MarketDataAssumption DEF Disagrees
    <3>2. (row.known => row.leg = row.key[2]) /\ rows' \subseteq rows \cup {row}
      BY <2>3, <3>1 DEF ChartKey, Filed
    <3> HIDE DEF row, leg
    <3>3. KeptByToken'
      BY <1>0, <3>2 DEF KeptByToken
    <3> QED BY <2>1, <2>3, <3>1, <3>3, OverShows DEF SheetInv
  <2> QED BY <1>11, <2>2, <2>3 DEF Rows
<1>12. ASSUME NEW r \in tradesOf, fetchTrades(r) PROVE SheetInv'
  <2>1. UNCHANGED <<rows, looking, charts>>
    BY <1>12 DEF fetchTrades
  <2>2. \E x : sheet' = [sheet EXCEPT !.trades = x]
    <3>1. CASE sheet' = sheet
      <4>1. sheet' = [sheet EXCEPT !.trades = sheet.trades]
        BY <1>0, <3>1 DEF SheetTypes
      <4> QED BY <4>1
    <3>2. CASE sheet' # sheet
      BY <1>12, <3>2 DEF fetchTrades
    <3> QED BY <3>1, <3>2
  <2>3. PICK x : sheet' = [sheet EXCEPT !.trades = x]
    BY <2>2
  <2>4. sheet' = [token |-> sheet.token, detail |-> sheet.detail, pool |-> sheet.pool, candles |-> sheet.candles,
                  trades |-> x, turned |-> sheet.turned]
    BY <1>0, <2>3 DEF SheetTypes
  <2>5. /\ sheet'.token = sheet.token /\ sheet'.detail = sheet.detail /\ sheet'.pool = sheet.pool
        /\ sheet'.trades = x /\ sheet'.turned = sheet.turned /\ sheet'.candles = sheet.candles
    BY <2>4
  <2>6. SheetTypes'
    BY <1>0, <2>1, <2>4, <2>5 DEF SheetTypes
  <2> QED BY <1>0, <2>1, <2>5, <2>6 DEF SheetInv, ChartsAreTheSheets, KeptByToken, ChartIsItsToken
<1> QED BY <1>2, <1>3, <1>4, <1>5, <1>6, <1>7, <1>8, <1>9, <1>10, <1>11, <1>12 DEF SheetNext

(* A chart that was fetched with its token's price known is that token's,  *)
(* and a sheet that did not turn shows one asked for its own: for any      *)
(* pools, tokens, failures, sheets and timeframes.                         *)
THEOREM ChartCorrect == ServicesSpec => []ChartIsItsToken
<1>1. ServicesInit => SheetInv
  BY MarketDataAssumption DEF ServicesInit, MarketDataInit, Closed, NoCandles, NoChart, SheetInv, SheetTypes,
     ChartsAreTheSheets, KeptByToken, ChartIsItsToken
<1>2. SheetInv /\ [ServicesNext]_servicesVars => SheetInv'
  BY OwnSteps, SheetStep
<1>3. SheetInv => ChartIsItsToken
  BY DEF SheetInv
<1> QED BY <1>1, <1>2, <1>3, PTL DEF ServicesSpec

-----------------------------------------------------------------------------
(* The form for swaps across chains. The quotes shown are for the tokens   *)
(* and the rate of the form unless they were asked for an older one, and an*)
(* address is valid on its chain unless the list of chains could not be    *)
(* loaded.                                                                 *)
Matches(asked, fm) == asked.from = fm.from /\ asked.to = fm.to /\ Fixed(asked) = Fixed(fm)
GoodAddresses(o) == o.dest = o.form.to /\ (Fixed(o.form) => o.refund = o.form.from)

RouteTypes ==
  /\ form = [from |-> form.from, to |-> form.to, options |-> form.options]
  /\ DOMAIN addr = Field
  /\ creating.at = "no" \/ creating = [at |-> creating.at, q |-> creating.q, late |-> creating.late,
                                       form |-> creating.form, dest |-> creating.dest, refund |-> creating.refund]
QuotesMatch == ~ lateQuotes => \A q \in quotes : Matches(q.asked, form)
VerdictsHold ==
  ~ failed => \A f \in Field : verdict[f] = "yes" => chains /\ addr[f] = ChainOf(f, form)
CreatingMatches ==
  creating.at # "no" => /\ ~ creating.late => Matches(creating.q.asked, creating.form)
                        /\ (~ failed => GoodAddresses(creating))
RouteInv == RouteTypes /\ QuotesMatch /\ VerdictsHold /\ CreatingMatches /\ PlacedAsShown

(* A check anew leaves the verdicts true of the form and addresses it is   *)
(* for.                                                                    *)
LEMMA RecheckHolds ==
  ASSUME VerdictsHold, NEW ad, NEW fm, NEW vd, recheck(ad, fm, vd), \A f \in Field : vd[f] = "yes" => verdict[f] = "yes",
         form' = fm, addr' = ad, UNCHANGED <<chains, failed>>
  PROVE  VerdictsHold'
<1> SUFFICES ASSUME ~ failed, NEW f \in Field, verdict'[f] = "yes"
             PROVE  chains /\ ad[f] = ChainOf(f, fm)
  BY DEF VerdictsHold, ChainOf
<1>1. verdict'[f] = IF ad[f] = Empty THEN "none" ELSE IF chains THEN Verdict(ad[f], ChainOf(f, fm)) ELSE vd[f]
  BY DEF recheck
<1>2. CASE chains
  BY <1>1, <1>2 DEF Verdict
<1>3. CASE ~ chains
  BY <1>1, <1>3 DEF VerdictsHold
<1> QED BY <1>2, <1>3

(* A change of the form drops its quotes.                                  *)
LEMMA AsksHolds ==
  ASSUME RouteInv, NEW fm, fm = [from |-> fm.from, to |-> fm.to, options |-> fm.options], Asks(fm)
  PROVE  RouteInv'
<1> DEFINE ad == IF fm.to # form.to THEN [addr EXCEPT !["dest"] = Empty] ELSE addr
           own == IF fm.to # form.to /\ chains /\ fm.to = Home THEN [ad EXCEPT !["dest"] = Home] ELSE ad
           vd == IF fm.to # form.to THEN [verdict EXCEPT !["dest"] = "none"] ELSE verdict
<1>1. /\ form' = fm /\ addr' = own /\ recheck(own, fm, vd) /\ quotes' = {}
      /\ UNCHANGED <<chains, failed, creating, placed>>
  BY DEF Asks, Requote
<1>2. \A f \in Field : vd[f] = "yes" => verdict[f] = "yes"
  <2> SUFFICES ASSUME NEW f \in Field, vd[f] = "yes" PROVE verdict[f] = "yes"
    OBVIOUS
  <2>1. CASE f = "dest" /\ fm.to # form.to
    <3>1. CASE "dest" \in DOMAIN verdict
      BY <2>1, <3>1
    <3>2. CASE "dest" \notin DOMAIN verdict
      BY <2>1, <3>2
    <3> QED BY <3>1, <3>2
  <2>2. CASE ~ (f = "dest" /\ fm.to # form.to)
    BY <2>2
  <2> QED BY <2>1, <2>2
<1>3. DOMAIN own = Field
  BY DEF RouteInv, RouteTypes
<1> HIDE DEF own, vd
<1>4. VerdictsHold'
  BY <1>1, <1>2, RecheckHolds DEF RouteInv
<1>5. RouteTypes' /\ QuotesMatch' /\ CreatingMatches' /\ PlacedAsShown'
  BY <1>1, <1>3 DEF RouteInv, RouteTypes, QuotesMatch, CreatingMatches, GoodAddresses, Matches, Fixed, PlacedAsShown, AsShown
<1> QED BY <1>4, <1>5 DEF RouteInv

(* What is placed has the tokens, the rate and the addresses of the order. *)
LEMMA PlacedHolds ==
  ASSUME RouteInv, NEW asked, NEW what, creating.at # "no", asked \in {creating.q.asked, creating.form},
         Placed(asked, what), UNCHANGED failed
  PROVE  PlacedAsShown'
<1> DEFINE new == [what |-> what, rail |-> creating.q.rail, asked |-> asked, late |-> creating.late,
                   form |-> creating.form, dest |-> creating.dest, refund |-> creating.refund]
<1>1. placed' = placed \cup {new}
  BY DEF Placed
<1>2. (~ new.late => Matches(new.asked, new.form)) /\ (~ failed => GoodAddresses(new))
  BY DEF RouteInv, CreatingMatches, Matches, GoodAddresses
<1> HIDE DEF new
<1> QED BY <1>1, <1>2 DEF RouteInv, PlacedAsShown, AsShown, Matches, GoodAddresses, Fixed

(* What each step of the form, the proxy and an order does to the          *)
(* invariant.                                                              *)
LEMMA RouteStep ==
  ASSUME RouteInv, [PrivateRouteNext]_routeVars
  PROVE  RouteInv'
<1>0. RouteTypes /\ QuotesMatch /\ VerdictsHold /\ CreatingMatches /\ PlacedAsShown
  BY DEF RouteInv
<1>1. ASSUME Picks \/ flip \/ Switches PROVE RouteInv'
  <2> DEFINE Proper(fm) == fm = [from |-> fm.from, to |-> fm.to, options |-> fm.options]
  <2>1. PICK f, t, o : form = [from |-> f, to |-> t, options |-> o]
    BY <1>0 DEF RouteTypes
  <2>2. ASSUME NEW x PROVE Proper([form EXCEPT !.from = x])
    BY <2>1
  <2>3. ASSUME NEW x PROVE Proper([form EXCEPT !.to = x])
    BY <2>1
  <2>4. ASSUME NEW x PROVE Proper([form EXCEPT !.options = x])
    BY <2>1
  <2>5. Proper([form EXCEPT !.from = form.to, !.to = form.from])
    <3>1. form.to = t /\ form.from = f
      BY <2>1
    <3>2. [form EXCEPT !.from = form.to] = [from |-> t, to |-> t, options |-> o]
      BY <2>1, <3>1
    <3>3. ASSUME NEW g, g = [from |-> t, to |-> t, options |-> o], NEW x
          PROVE  [g EXCEPT !.to = x] = [from |-> t, to |-> x, options |-> o]
      BY <3>3
    <3>4. [form EXCEPT !.from = form.to, !.to = form.from] = [from |-> t, to |-> f, options |-> o]
      BY <3>1, <3>2, <3>3, Zenon
    <3>5. ASSUME NEW g, g = [from |-> t, to |-> f, options |-> o] PROVE Proper(g)
      BY <3>5
    <3> QED BY <3>4, <3>5, Zenon
  <2>6. ASSUME NEW fm, Proper(fm), Asks(fm) PROVE RouteInv'
    BY <2>6, AsksHolds
  <2> HIDE DEF Proper
  <2>7. CASE Picks
    <3>1. PICK x : Asks([form EXCEPT !.from = x]) \/ Asks([form EXCEPT !.to = x])
      BY <2>7 DEF Picks
    <3> QED BY <2>2, <2>3, <2>6, <3>1
  <2>8. CASE flip
    BY <2>5, <2>6, <2>8 DEF flip
  <2>9. CASE Switches
    <3>1. PICK x \in Option : Asks([form EXCEPT !.options = IF x \in @ THEN @ \ {x} ELSE @ \cup {x}])
      BY <2>9 DEF Switches
    <3> QED BY <2>4, <2>6, <3>1
  <2> QED BY <1>1, <2>7, <2>8, <2>9
<1>2. ASSUME NEW f \in Field, Types(f) PROVE RouteInv'
  <2>1. PICK a \in Token : LET ad == [addr EXCEPT ![f] = a] IN addr' = ad /\ recheck(ad, form, verdict)
    BY <1>2 DEF Types
  <2>2. UNCHANGED <<form, prefill, chains, failed, quoteVars, creating, placed>>
    BY <1>2 DEF Types
  <2>3. VerdictsHold'
    BY <1>0, <2>1, <2>2, RecheckHolds
  <2>4. DOMAIN addr' = Field
    BY <1>0, <2>1 DEF RouteTypes
  <2> QED BY <1>0, <2>2, <2>3, <2>4 DEF RouteInv, RouteTypes, QuotesMatch, CreatingMatches, GoodAddresses,
          PlacedAsShown, AsShown, quoteVars
<1>3. ASSUME UNCHANGED formVars, RouteTypes', QuotesMatch', CreatingMatches', PlacedAsShown' PROVE RouteInv'
  BY <1>0, <1>3 DEF RouteInv, VerdictsHold, formVars, ChainOf
<1>4. CASE xchainChains
  <2>1. PICK ok \in BOOLEAN :
       LET own == prefill /\ (ok => form.to = Home)
           ad == IF own THEN [addr EXCEPT !["dest"] = Home] ELSE addr
           given(f, a) == IF ok THEN Verdict(a, ChainOf(f, form)) ELSE "yes"
       IN  /\ chains' = ok /\ failed' = (failed \/ ~ ok)
           /\ addr' = ad
           /\ verdict' = [f \in Field |-> IF f \in checking \/ ad[f] # addr[f] THEN given(f, ad[f]) ELSE verdict[f]]
    BY <1>4 DEF xchainChains
  <2>2. UNCHANGED <<form, quoteVars, creating, placed>>
    BY <1>4 DEF xchainChains
  <2>3. (~ failed' => ~ failed) /\ DOMAIN addr' = Field
    BY <1>0, <2>1 DEF RouteTypes
  <2>4. VerdictsHold'
    <3> SUFFICES ASSUME ~ failed', NEW f \in Field, verdict'[f] = "yes"
                 PROVE  chains' /\ addr'[f] = ChainOf(f, form)
      BY <2>2 DEF VerdictsHold, ChainOf
    <3>1. ok = TRUE /\ chains' = TRUE /\ ~ failed
      BY <2>1
    <3>2. verdict'[f] = IF f \in checking \/ addr'[f] # addr[f] THEN Verdict(addr'[f], ChainOf(f, form)) ELSE verdict[f]
      BY <2>1, <3>1
    <3> QED BY <1>0, <3>1, <3>2 DEF Verdict, VerdictsHold
  <2>5. RouteTypes' /\ QuotesMatch' /\ CreatingMatches' /\ PlacedAsShown'
    BY <1>0, <2>2, <2>3 DEF RouteTypes, QuotesMatch, CreatingMatches, GoodAddresses, PlacedAsShown, AsShown, quoteVars
  <2> QED BY <2>4, <2>5 DEF RouteInv
<1>5. CASE AskQuotes \/ QuotesArrive \/ CacheExpires
  <2>1. UNCHANGED <<formVars, creating, placed>> /\ UNCHANGED form
    BY <1>5 DEF AskQuotes, QuotesArrive, CacheExpires, formVars
  <2>3. ASSUME ~ lateQuotes', NEW q \in quotes' PROVE Matches(q.asked, form)
    <3>1. CASE QuotesArrive
      <4>1. PICK fm \in asking :
            /\ lateQuotes' = (fm # form)
            /\ \/ quotes' = {} /\ UNCHANGED quoteCache
               \/ \E x \in xchainQuotesAll(fm) : quotes' = {x} /\ quoteCache' = quoteCache \cup {x}
               \/ \E x \in zeroexPrice(fm) : quotes' = {x} /\ UNCHANGED quoteCache
        BY <3>1 DEF QuotesArrive
      <4>2. fm = form /\ q \in Cached(fm) \cup Offers(fm) \cup zeroexPrice(fm)
        BY <1>0, <2>3, <4>1 DEF QuotesMatch, xchainQuotesAll
      <4>3. q.asked = fm \/ CacheKey(q.asked) = CacheKey(fm)
        BY <4>2 DEF Cached, Offers, zeroexPrice
      <4> QED BY <4>2, <4>3 DEF Matches, Fixed, CacheKey
    <3>2. CASE AskQuotes \/ CacheExpires
      BY <1>0, <2>3, <3>2 DEF AskQuotes, CacheExpires, QuotesMatch
    <3> QED BY <1>5, <3>1, <3>2
  <2>4. QuotesMatch'
    BY <2>1, <2>3 DEF QuotesMatch, Matches, Fixed
  <2> QED BY <1>0, <1>3, <2>1, <2>4 DEF formVars, RouteTypes, CreatingMatches, GoodAddresses, PlacedAsShown, AsShown
<1>6. CASE create
  <2>1. PICK q \in quotes :
       /\ MayCreate(q)
       /\ creating' = [at |-> CASE q.rail = "private" -> "order" [] q.rail = "dex" -> "approve" [] OTHER -> "requote",
                       q |-> q, late |-> lateQuotes, form |-> form, dest |-> addr["dest"], refund |-> addr["refund"]]
    BY <1>6 DEF create
  <2>2. UNCHANGED <<formVars, quoteVars, placed>>
    BY <1>6 DEF create
  <2>3. RouteTypes'
    BY <1>0, <2>1, <2>2 DEF RouteTypes, formVars
  <2>4. /\ creating'.q = q /\ creating'.form = form /\ creating'.late = lateQuotes
        /\ creating'.dest = addr["dest"] /\ creating'.refund = addr["refund"]
    BY <2>1
  <2>5. ~ lateQuotes => Matches(q.asked, form)
    BY <1>0 DEF QuotesMatch
  <2>6. ASSUME ~ failed PROVE addr["dest"] = form.to /\ (Fixed(form) => addr["refund"] = form.from)
    <3>1. \A f \in Field : verdict[f] = "yes" => addr[f] = ChainOf(f, form)
      BY <1>0, <2>6 DEF VerdictsHold
    <3>2. verdict["dest"] = "yes" /\ (Fixed(form) => verdict["refund"] = "yes")
      BY <2>1 DEF MayCreate, needRefund, Fixed
    <3> QED BY <3>1, <3>2 DEF Field, ChainOf
  <2>7. CreatingMatches'
    BY <2>2, <2>4, <2>5, <2>6 DEF CreatingMatches, Matches, GoodAddresses, Fixed, formVars
  <2> QED BY <1>0, <1>3, <2>2, <2>3, <2>7 DEF QuotesMatch, Matches, Fixed, PlacedAsShown, AsShown, formVars, quoteVars
<1>7. CASE CreateStep
  <2>1. UNCHANGED <<formVars, quoteVars>> /\ UNCHANGED failed
    BY <1>7 DEF CreateStep, formVars
  <2>2. creating.at # "no" /\ \E step : creating' = [creating EXCEPT !.at = step]
    BY <1>7 DEF CreateStep, xchainDexApprove, zeroexQuote, zeroexCrossQuotes, Allow, xchainCreate, Executed,
       xchainDexConfirm, Sent, Received, AtStep, GoesTo
  <2>3. PICK step : creating' = [creating EXCEPT !.at = step]
    BY <2>2
  <2>4. creating' = [at |-> step, q |-> creating.q, late |-> creating.late, form |-> creating.form, dest |-> creating.dest, refund |-> creating.refund]
    BY <1>0, <2>2, <2>3 DEF RouteTypes
  <2>5. /\ creating'.at = step /\ creating'.q = creating.q /\ creating'.late = creating.late /\ creating'.form = creating.form
        /\ creating'.dest = creating.dest /\ creating'.refund = creating.refund
    BY <2>4
  <2>6. RouteTypes' /\ CreatingMatches'
    <3>1. RouteTypes'
      BY <1>0, <2>1, <2>4, <2>5 DEF RouteTypes, formVars
    <3>2. (~ creating.late => Matches(creating.q.asked, creating.form)) /\ (~ failed => GoodAddresses(creating))
      BY <1>0, <2>2 DEF CreatingMatches
    <3>3. (~ creating'.late => Matches(creating'.q.asked, creating'.form)) /\ (~ failed => GoodAddresses(creating'))
      BY <2>5, <3>2 DEF Matches, GoodAddresses
    <3>4. CreatingMatches'
      BY <2>1, <3>3 DEF CreatingMatches, Matches, GoodAddresses, Fixed
    <3> QED BY <3>1, <3>4
  <2>7. UNCHANGED placed \/ \E asked \in {creating.q.asked, creating.form} : \E what : Placed(asked, what)
    BY <1>7 DEF CreateStep, xchainDexApprove, zeroexQuote, zeroexCrossQuotes, Allow, xchainCreate, Executed,
       xchainDexConfirm, Sent, Received, GoesTo
  <2>8. PlacedAsShown'
    <3>1. CASE UNCHANGED placed
      BY <1>0, <2>1, <3>1 DEF PlacedAsShown, AsShown
    <3>2. CASE \E asked \in {creating.q.asked, creating.form} : \E what : Placed(asked, what)
      BY <2>1, <2>2, <3>2, PlacedHolds
    <3> QED BY <2>7, <3>1, <3>2
  <2> QED BY <1>0, <1>3, <2>1, <2>6, <2>8 DEF QuotesMatch, Matches, Fixed, formVars, quoteVars
<1>8. CASE CreateFails
  BY <1>0, <1>3, <1>8 DEF CreateFails, Nobody, formVars, quoteVars, RouteTypes, QuotesMatch, CreatingMatches, PlacedAsShown, AsShown,
     Matches, Fixed
<1>9. CASE UNCHANGED routeVars
  BY <1>0, <1>3, <1>9 DEF routeVars, formVars, quoteVars, RouteTypes, QuotesMatch, CreatingMatches, GoodAddresses,
     PlacedAsShown, AsShown, Matches, Fixed
<1> QED BY <1>1, <1>2, <1>4, <1>5, <1>6, <1>7, <1>8, <1>9 DEF PrivateRouteNext

(* However the form changes while quotes are on their way: what is ordered *)
(* or sent is for what the form showed, unless the quotes shown had been   *)
(* asked for an older form, and goes to addresses of the right chains      *)
(* unless the list of chains failed to load.                               *)
THEOREM RouteCorrect == ServicesSpec => []PlacedAsShown
<1>1. ServicesInit => RouteInv
  <2> SUFFICES ASSUME PrivateRouteInit PROVE RouteInv
    BY DEF ServicesInit
  <2>1. PICK f, t \in Token : form = [from |-> f, to |-> t, options |-> {}]
    BY DEF PrivateRouteInit
  <2> QED BY <2>1 DEF PrivateRouteInit, Nobody, RouteInv, RouteTypes, QuotesMatch, VerdictsHold, CreatingMatches, PlacedAsShown
<1>2. RouteInv /\ [ServicesNext]_servicesVars => RouteInv'
  BY OwnSteps, RouteStep
<1>3. RouteInv => PlacedAsShown
  BY DEF RouteInv
<1> QED BY <1>1, <1>2, <1>3, PTL DEF ServicesSpec

-----------------------------------------------------------------------------
(* The relayer's answers. A note that a request spent is the one it asked  *)
(* for, and then it is answered so, or not at all; a receipt of success    *)
(* has spent it.                                                           *)
Stages == {"new", "429", "checking", "400", "preparing", "sending", "waiting",
           "success", "reverted", "502", "funded before"}
HandlerState ==
  [at : Stages, ip : Ip \cup {"none"}, to : Note \cup Fresh \cup {"none"}, age : Nat, nonce : Nat,
   receipt : {"none", "success", "reverted"}]
RelayerTypes ==
  /\ handler \in [Id -> HandlerState] /\ nonce \in Nat
  /\ spentBy \in [Note -> Id \cup {Unspent, Stranger}]
HasSpent(r) == HandlerAt(r, "success") \/ (HandlerAt(r, "waiting") /\ handler[r].receipt = "success")
SpentAsAsked ==
  \A r \in Id, n \in Note : spentBy[n] = r => handler[r].to = n /\ (HasSpent(r) \/ HandlerAt(r, "502"))
ReceiptsTrue ==
  \A r \in Id :
    /\ HandlerAt(r, "waiting") => handler[r].receipt # "none"
    /\ IsTransact(r) /\ HasSpent(r) => spentBy[handler[r].to] = r
RelayerInv == RelayerTypes /\ SpentAsAsked /\ ReceiptsTrue

(* An age stays a number.                                                  *)
LEMMA OlderNat == ASSUME NEW age, age \in Nat PROVE Older(age) \in Nat
BY RelayerAssumption, MinOfTwo DEF Older

(* A request whose answer is no conclusion yet changes its own record, and *)
(* no note changes hands.                                                  *)
LEMMA HandlerStep ==
  ASSUME RelayerInv, NEW r, r \in Id, NEW h, h \in HandlerState, handler' = [handler EXCEPT ![r] = h],
         UNCHANGED <<nonce, spentBy>>,
         \A n \in Note : spentBy[n] # r \/ (h.to = n /\ (h.at = "502" \/ h.at = "success")),
         h.at # "waiting",
         h.to \in Note /\ h.at = "success" => spentBy[h.to] = r
  PROVE  RelayerInv'
<1>1. RelayerTypes' /\ \A q \in Id : handler'[q] = IF q = r THEN h ELSE handler[q]
  BY DEF RelayerInv, RelayerTypes
<1>2. SpentAsAsked'
  BY <1>1 DEF RelayerInv, SpentAsAsked, HasSpent, HandlerAt
<1>3. ReceiptsTrue'
  BY <1>1 DEF RelayerInv, ReceiptsTrue, HasSpent, HandlerAt, IsTransact
<1> QED BY <1>1, <1>2, <1>3 DEF RelayerInv

(* What each step of the relayer and of the chain does to the invariant.   *)
LEMMA RelayerStep == RelayerInv /\ [RelayerNext]_relayerVars => RelayerInv'
<1> SUFFICES ASSUME RelayerInv, [RelayerNext]_relayerVars PROVE RelayerInv'
  OBVIOUS
<1>0. RelayerTypes /\ SpentAsAsked /\ ReceiptsTrue
  BY DEF RelayerInv
<1>1. CASE RelayerTick
  <2>1. handler' = [r \in Id |-> IF r \in Passed THEN [handler[r] EXCEPT !.age = Older(@)] ELSE handler[r]]
        /\ UNCHANGED <<nonce, spentBy>>
    BY <1>1 DEF RelayerTick
  <2>2. ASSUME NEW r \in Id PROVE /\ handler'[r] \in HandlerState /\ handler'[r].at = handler[r].at
                                  /\ handler'[r].to = handler[r].to /\ handler'[r].receipt = handler[r].receipt
    <3>1. handler[r] \in HandlerState /\ Older(handler[r].age) \in Nat
      BY <1>0, OlderNat DEF RelayerTypes, HandlerState
    <3>2. CASE r \in Passed
      <4>1. handler'[r] = [handler[r] EXCEPT !.age = Older(handler[r].age)]
        BY <2>1, <3>2
      <4> QED BY <3>1, <4>1 DEF HandlerState
    <3>3. CASE r \notin Passed
      BY <2>1, <3>1, <3>3
    <3> QED BY <3>2, <3>3
  <2>3. RelayerTypes'
    BY <1>0, <2>1, <2>2 DEF RelayerTypes
  <2> QED BY <1>0, <2>1, <2>2, <2>3 DEF RelayerInv, SpentAsAsked, ReceiptsTrue, HasSpent, HandlerAt, IsTransact
<1>2. CASE SpentElsewhere
  <2>1. CASE \E n \in Note : spentBy[n] = Unspent /\ spentBy' = [spentBy EXCEPT ![n] = Stranger]
                             /\ UNCHANGED <<handler, nonce>>
    <3>1. PICK n \in Note : spentBy[n] = Unspent /\ spentBy' = [spentBy EXCEPT ![n] = Stranger] /\ UNCHANGED <<handler, nonce>>
      BY <2>1
    <3>2. RelayerTypes' /\ \A m \in Note : spentBy'[m] = IF m = n THEN Stranger ELSE spentBy[m]
      BY <1>0, <3>1 DEF RelayerTypes
    <3>3. \A r \in Id : r # Unspent /\ r # Stranger
      BY RelayerAssumption DEF Id, Unspent, Stranger
    <3>4. Stranger # Unspent
      BY DEF Unspent, Stranger
    <3>5. SpentAsAsked'
      BY <1>0, <3>1, <3>2, <3>3 DEF SpentAsAsked, HasSpent, HandlerAt
    <3>6. ReceiptsTrue'
      BY <1>0, <3>1, <3>2, <3>3, <3>4 DEF ReceiptsTrue, HasSpent, HandlerAt, IsTransact
    <3> QED BY <3>2, <3>5, <3>6 DEF RelayerInv
  <2>2. CASE UNCHANGED <<handler, nonce, spentBy>>
    BY <1>0, <2>2 DEF RelayerInv, RelayerTypes, SpentAsAsked, ReceiptsTrue, HasSpent, HandlerAt, IsTransact
  <2> QED BY <1>2, <2>1, <2>2 DEF SpentElsewhere
<1>3. ASSUME NEW r \in Id PROVE handler[r] \in HandlerState /\ r # Unspent /\ r # Stranger
  BY <1>0, RelayerAssumption DEF RelayerTypes, Id, Unspent, Stranger
<1>4. ASSUME NEW r \in Id, Receive(r) PROVE RelayerInv'
  <2>1. PICK ip \in Ip, to \in Note \cup Fresh : rateLimit(r, ip, to)
    BY <1>4 DEF Receive
  <2>2. PICK at \in {"checking", "429"} : handler' = [handler EXCEPT ![r] = [NewRequest EXCEPT !.at = at, !.ip = ip, !.to = to]]
    BY <2>1 DEF rateLimit
  <2> DEFINE h == [NewRequest EXCEPT !.at = at, !.ip = ip, !.to = to]
  <2>3. h \in HandlerState /\ h.at \notin {"waiting", "success", "reverted"}
    BY DEF NewRequest, HandlerState, Stages
  <2>4. \A n \in Note : spentBy[n] # r
    BY <1>0, <1>4 DEF Receive, SpentAsAsked, HasSpent, HandlerAt
  <2>5. UNCHANGED <<nonce, spentBy>>
    BY <1>4 DEF Receive
  <2>6. handler' = [handler EXCEPT ![r] = h]
    BY <2>2
  <2> HIDE <2>2 DEF h
  <2> QED BY <2>3, <2>4, <2>5, <2>6, HandlerStep
<1>5. ASSUME NEW r \in Id, CheckRequest(r) \/ PrepareFor(r) PROVE RelayerInv'
  <2>1. \A n \in Note : spentBy[n] # r
    BY <1>0, <1>5 DEF CheckRequest, PrepareFor, SpentAsAsked, HasSpent, HandlerAt
  <2>2. UNCHANGED <<nonce, spentBy>>
    BY <1>5 DEF CheckRequest, PrepareFor
  <2>3. PICK h \in HandlerState : handler' = [handler EXCEPT ![r] = h] /\ h.at \notin {"waiting", "success", "reverted"}
    <3>1. CASE CheckRequest(r)
      <4>1. PICK stage \in {"preparing", "400", "funded before", "502"} : handler' = [handler EXCEPT ![r].at = stage]
        BY <3>1 DEF CheckRequest, HandlerTo
      <4>2. [handler[r] EXCEPT !.at = stage] \in HandlerState
        BY <1>3 DEF HandlerState, Stages
      <4>3. [handler[r] EXCEPT !.at = stage].at = stage
        BY <1>3 DEF HandlerState
      <4> QED BY <4>1, <4>2, <4>3
    <3>2. CASE PrepareFor(r)
      <4>1. CASE handler' = [handler EXCEPT ![r].at = "sending", ![r].nonce = nonce + 1]
        <5> DEFINE h == [handler[r] EXCEPT !.at = "sending", !.nonce = nonce + 1]
        <5>0. nonce + 1 \in Nat
          BY <1>0 DEF RelayerTypes
        <5>1. h \in HandlerState /\ h.at = "sending"
          BY <1>3, <5>0 DEF HandlerState, Stages
        <5>2. handler' = [handler EXCEPT ![r] = h]
          BY <1>0, <4>1 DEF RelayerTypes
        <5> HIDE DEF h
        <5> QED BY <5>1, <5>2
      <4>2. CASE Answered(r, "502")
        <5> DEFINE h == [handler[r] EXCEPT !.at = "502", !.nonce = 0, !.receipt = "none"]
        <5>1. h \in HandlerState /\ h.at = "502"
          BY <1>3 DEF HandlerState, Stages
        <5>2. handler' = [handler EXCEPT ![r] = h]
          BY <1>0, <4>2 DEF RelayerTypes, Answered
        <5> HIDE DEF h
        <5> QED BY <5>1, <5>2
      <4> QED BY <3>2, <4>1, <4>2 DEF PrepareFor
    <3> QED BY <1>5, <3>1, <3>2
  <2> QED BY <2>1, <2>2, <2>3, HandlerStep
<1>6. ASSUME NEW r \in Id, SendFor(r) PROVE RelayerInv'
  <2>1. \A n \in Note : spentBy[n] # r
    BY <1>0, <1>6 DEF SendFor, SpentAsAsked, HasSpent, HandlerAt
  <2>2. CASE Answered(r, "502") /\ UNCHANGED <<nonce, spentBy, balance>>
    <3> DEFINE h == [handler[r] EXCEPT !.at = "502", !.nonce = 0, !.receipt = "none"]
    <3>1. h \in HandlerState /\ h.at = "502"
      BY <1>3 DEF HandlerState, Stages
    <3>2. handler' = [handler EXCEPT ![r] = h]
      BY <1>0, <2>2 DEF RelayerTypes, Answered
    <3> HIDE DEF h
    <3> QED BY <2>1, <2>2, <3>1, <3>2, HandlerStep
  <2>3. ASSUME NEW good \in BOOLEAN, ExecuteFor(r, good) PROVE RelayerInv'
    <3> DEFINE to == handler[r].to
               h == [handler[r] EXCEPT !.at = "waiting", !.receipt = IF good THEN "success" ELSE "reverted"]
    <3>1. /\ h \in HandlerState /\ h.at = "waiting" /\ h.to = to
          /\ h.receipt = IF good THEN "success" ELSE "reverted"
      BY <1>3 DEF HandlerState, Stages
    <3>2. handler' = [handler EXCEPT ![r] = h]
      BY <1>0, <2>3 DEF RelayerTypes, ExecuteFor
    <3>3. /\ nonce' = nonce + 1
          /\ spentBy' = IF IsTransact(r) /\ good THEN [spentBy EXCEPT ![to] = r] ELSE spentBy
      BY <2>3 DEF ExecuteFor
    <3>4. (h.to \in Note <=> IsTransact(r)) /\ (IsTransact(r) => (good => spentBy[to] = Unspent)) /\ (IsTransact(r) \/ good)
      BY <2>3, <3>1 DEF ExecuteFor, IsTransact
    <3> HIDE DEF h
    <3>5. RelayerTypes' /\ \A q \in Id : handler'[q] = IF q = r THEN h ELSE handler[q]
      BY <1>0, <3>1, <3>2, <3>3 DEF RelayerTypes, IsTransact
    <3>6. \A n \in Note : spentBy'[n] = IF IsTransact(r) /\ good /\ n = to THEN r ELSE spentBy[n]
      BY <1>0, <3>3 DEF RelayerTypes, IsTransact
    <3>7. SpentAsAsked'
      <4> SUFFICES ASSUME NEW q \in Id, NEW n \in Note, spentBy'[n] = q
                   PROVE  handler'[q].to = n /\ (HasSpent(q) \/ HandlerAt(q, "502"))'
        BY DEF SpentAsAsked
      <4>1. CASE q = r
        BY <2>1, <3>1, <3>5, <3>6, <4>1 DEF HasSpent, HandlerAt
      <4>2. CASE q # r
        BY <1>0, <3>5, <3>6, <4>2 DEF SpentAsAsked, HasSpent, HandlerAt
      <4> QED BY <4>1, <4>2
    <3>8. ReceiptsTrue'
      <4> SUFFICES ASSUME NEW q \in Id
                   PROVE  /\ handler'[q].at = "waiting" => handler'[q].receipt # "none"
                          /\ handler'[q].to \in Note /\ HasSpent(q)' => spentBy'[handler'[q].to] = q
        BY DEF ReceiptsTrue, HandlerAt, IsTransact
      <4>1. CASE q = r
        BY <2>1, <3>1, <3>4, <3>5, <3>6, <4>1 DEF HasSpent, HandlerAt
      <4>2. CASE q # r
        <5>1. handler'[q] = handler[q]
          BY <3>5, <4>2
        <5>2. \A n \in Note : spentBy[n] # Unspent => spentBy'[n] = spentBy[n]
          BY <3>4, <3>6
        <5>3. \A n \in Note : spentBy'[n] = spentBy[n] \/ spentBy'[n] = r
          BY <3>6
        <5>4. r # Unspent /\ q # Unspent
          BY <1>3
        <5> QED BY <1>0, <4>2, <5>1, <5>2, <5>3, <5>4 DEF ReceiptsTrue, HasSpent, HandlerAt, IsTransact
      <4> QED BY <4>1, <4>2
    <3> QED BY <3>5, <3>7, <3>8 DEF RelayerInv
  <2> QED BY <1>6, <2>2, <2>3 DEF SendFor
<1>7. ASSUME NEW r \in Id, AnswerTo(r) PROVE RelayerInv'
  <2>1. PICK code : code \in {handler[r].receipt, "502"} /\ Answered(r, code)
    BY <1>7 DEF AnswerTo, Status
  <2>2. /\ HandlerAt(r, "waiting") /\ handler[r].receipt \in {"success", "reverted"}
        /\ UNCHANGED <<nonce, spentBy>>
    BY <1>0, <1>3, <1>7 DEF AnswerTo, ReceiptsTrue, HandlerState
  <2> DEFINE h == [handler[r] EXCEPT !.at = code, !.nonce = 0, !.receipt = "none"]
  <2>3. h \in HandlerState /\ h.at = code /\ h.to = handler[r].to
    BY <1>3, <2>1, <2>2 DEF HandlerState, Stages
  <2>4. handler' = [handler EXCEPT ![r] = h]
    BY <1>0, <2>1 DEF RelayerTypes, Answered
  <2> HIDE DEF h
  <2>5. \A n \in Note : spentBy[n] # r \/ (h.to = n /\ (h.at = "502" \/ h.at = "success"))
    BY <1>0, <2>1, <2>2, <2>3 DEF SpentAsAsked, HasSpent, HandlerAt
  <2>6. h.to \in Note /\ h.at = "success" => spentBy[h.to] = r
    BY <1>0, <2>1, <2>2, <2>3 DEF ReceiptsTrue, HasSpent, HandlerAt, IsTransact
  <2> QED BY <2>1, <2>2, <2>3, <2>4, <2>5, <2>6, HandlerStep
<1>8. CASE UNCHANGED relayerVars
  BY <1>0, <1>8 DEF relayerVars, RelayerInv, RelayerTypes, SpentAsAsked, ReceiptsTrue, HasSpent, HandlerAt, IsTransact
<1> QED BY <1>1, <1>2, <1>4, <1>5, <1>6, <1>7, <1>8 DEF RelayerNext

(* At first no request has come in.                                        *)
LEMMA RelayerStarts == ServicesInit => RelayerInv
<1> SUFFICES ASSUME RelayerInit PROVE RelayerInv
  BY DEF ServicesInit
<1>1. NewRequest \in HandlerState /\ NewRequest.at = "new"
  BY DEF NewRequest, HandlerState, Stages
<1>2. \A r \in Id : r # Unspent
  BY DEF Id, Unspent
<1>3. handler = [r \in Id |-> NewRequest] /\ nonce = 0 /\ spentBy = [n \in Note |-> Unspent]
  BY DEF RelayerInit
<1>4. RelayerTypes
  BY <1>1, <1>3 DEF RelayerTypes
<1> QED BY <1>1, <1>2, <1>3, <1>4 DEF RelayerInv, SpentAsAsked, ReceiptsTrue, HasSpent, HandlerAt

(* However many requests race for however many notes: what a client may    *)
(* conclude from its answer is so.                                         *)
THEOREM AnswersCorrect == ServicesSpec => []AnswersTrue
<1>1. ServicesInit => RelayerInv
  BY RelayerStarts
<1>2. RelayerInv => AnswersTrue
  BY DEF RelayerInv, RelayerTypes, SpentAsAsked, ReceiptsTrue, AnswersTrue, HasSpent, HandlerAt, IsTransact
<1> QED BY <1>1, <1>2, OwnSteps, RelayerStep, PTL DEF ServicesSpec

-----------------------------------------------------------------------------
(* The limiter. Each request let through whose age is within the window    *)
(* has an entry of its own, of its age, among the hits it was noted in.    *)
NotedIn(ages, set, age) ==
  \E f \in [set -> 1 .. Len(ages)] :
    /\ \A q, r \in set : f[q] = f[r] => q = r
    /\ \A r \in set : ages[f[r]] = age[r]

(* So there are no more of them than entries.                              *)
LEMMA NotedBound ==
  ASSUME NEW ages, NEW set, NEW age, ages \in Seq(Nat), NotedIn(ages, set, age)
  PROVE  IsFiniteSet(set) /\ Cardinality(set) <= Len(ages)
<1>1. PICK f \in [set -> 1 .. Len(ages)] : \A q, r \in set : f[q] = f[r] => q = r
  BY DEF NotedIn
<1>2. f \in Injection(set, 1 .. Len(ages))
  BY <1>1 DEF Injection, IsInjective
<1>3. IsFiniteSet(1 .. Len(ages)) /\ Cardinality(1 .. Len(ages)) = Len(ages)
  <2>1. Len(ages) \in Nat /\ Len(ages) \in Int /\ 1 \in Int
    OBVIOUS
  <2>2. IsFiniteSet(1 .. Len(ages)) /\ Cardinality(1 .. Len(ages)) = IF 1 > Len(ages) THEN 0 ELSE Len(ages) - 1 + 1
    BY <2>1, FS_Interval
  <2> QED BY <2>1, <2>2
<1> QED BY <1>2, <1>3, FS_Injection

(* What is pruned is out of the window.                                    *)
LEMMA PruneShifts ==
  ASSUME NEW ages, ages \in Seq(Nat)
  PROVE  \E n \in 0 .. Len(ages) :
           /\ \A i \in 1 .. n : ages[i] >= WINDOW
           /\ prune(ages) = SubSeq(ages, n + 1, Len(ages))
<1> DEFINE old == Outdated(ages, WINDOW)
           left == { k \in Nat : Len(ages) - k \in old }
<1>1. Len(ages) \in Nat /\ 0 \in old
  BY DEF Outdated
<1>2. Len(ages) \in left
  BY <1>1
<1>3. left \subseteq Nat /\ left # {}
  BY <1>2
<1> HIDE DEF left
<1>4. PICK k \in left : k \in Nat /\ \A j \in left : k <= j
  BY <1>3, LeastNatural
<1>5. \A n \in old : n \in Nat /\ n <= Len(ages) /\ Len(ages) - n \in left
  <2> SUFFICES ASSUME NEW n \in old PROVE n \in Nat /\ n <= Len(ages) /\ Len(ages) - n \in left
    OBVIOUS
  <2>1. n \in Nat /\ n <= Len(ages)
    BY <1>1 DEF Outdated
  <2>2. Len(ages) - n \in Nat /\ Len(ages) - (Len(ages) - n) = n
    BY <1>1, <2>1
  <2> HIDE DEF old
  <2> QED BY <2>1, <2>2 DEF left
<1>6. Len(ages) - k \in old
  BY DEF left
<1> HIDE DEF old
<1>7. \A n \in old : Len(ages) - k >= n
  BY <1>1, <1>4, <1>5
<1>8. Max(old) \in old
  BY <1>6, <1>7 DEF Max
<1> QED BY <1>8 DEF prune, Outdated, old

(* Pruning forgets no request within the window.                           *)
LEMMA NotedPruned ==
  ASSUME NEW ages, NEW set, NEW age, ages \in Seq(Nat), NotedIn(ages, set, age), \A r \in set : age[r] < WINDOW
  PROVE  NotedIn(prune(ages), set, age) /\ prune(ages) \in Seq(Nat) /\ Len(prune(ages)) <= Len(ages)
<1>1. PICK n \in 0 .. Len(ages) : /\ \A i \in 1 .. n : ages[i] >= WINDOW
                                  /\ prune(ages) = SubSeq(ages, n + 1, Len(ages))
  BY PruneShifts
<1>2. PICK f \in [set -> 1 .. Len(ages)] : /\ \A q, r \in set : f[q] = f[r] => q = r
                                           /\ \A r \in set : ages[f[r]] = age[r]
  BY DEF NotedIn
<1>3. /\ Len(ages) \in Nat /\ WINDOW \in Nat
      /\ prune(ages) \in Seq(Nat) /\ Len(prune(ages)) = Len(ages) - n
      /\ \A i \in 1 .. Len(ages) - n : prune(ages)[i] = ages[n + i]
  <2>1. Len(ages) \in Nat /\ WINDOW \in Nat /\ n \in Nat
    BY RelayerAssumption
  <2>2. /\ SubSeq(ages, n + 1, Len(ages)) \in Seq(Nat)
        /\ Len(SubSeq(ages, n + 1, Len(ages))) = IF n + 1 <= Len(ages) THEN Len(ages) - (n + 1) + 1 ELSE 0
        /\ \A i \in 1 .. Len(ages) - (n + 1) + 1 : SubSeq(ages, n + 1, Len(ages))[i] = ages[(n + 1) + i - 1]
    BY <2>1, SubSeqProperties
  <2> QED BY <1>1, <2>1, <2>2
<1>4. ASSUME NEW r \in set PROVE f[r] - n \in 1 .. Len(ages) - n /\ n + (f[r] - n) = f[r]
  <2>1. f[r] \in 1 .. Len(ages) /\ ages[f[r]] \in Nat /\ ages[f[r]] < WINDOW
    BY <1>2
  <2>2. f[r] \notin 1 .. n
    BY <1>1, <1>3, <2>1
  <2> QED BY <1>3, <2>1, <2>2
<1> DEFINE g == [r \in set |-> f[r] - n]
<1>5. g \in [set -> 1 .. Len(prune(ages))]
  BY <1>3, <1>4
<1>6. \A q, r \in set : g[q] = g[r] => q = r
  <2> SUFFICES ASSUME NEW q \in set, NEW r \in set, g[q] = g[r] PROVE q = r
    OBVIOUS
  <2>1. f[q] = f[r]
    BY <1>4
  <2> QED BY <1>2, <2>1
<1>7. ASSUME NEW r \in set PROVE prune(ages)[g[r]] = age[r]
  <2>1. prune(ages)[f[r] - n] = ages[n + (f[r] - n)]
    BY <1>3, <1>4
  <2> QED BY <1>2, <1>4, <2>1
<1> HIDE DEF g
<1>8. NotedIn(prune(ages), set, age)
  BY <1>5, <1>6, <1>7 DEF NotedIn
<1> QED BY <1>3, <1>8

(* A request is noted with the age 0.                                      *)
LEMMA NotedOne ==
  ASSUME NEW ages, NEW set, NEW age, NEW now, NEW r, ages \in Seq(Nat), NotedIn(ages, set, age),
         r \notin set, \A q \in set : now[q] = age[q], now[r] = 0
  PROVE  NotedIn(Append(ages, 0), set \cup {r}, now)
<1>1. PICK f \in [set -> 1 .. Len(ages)] : /\ \A q, p \in set : f[q] = f[p] => q = p
                                           /\ \A q \in set : ages[f[q]] = age[q]
  BY DEF NotedIn
<1>2. /\ Len(ages) \in Nat /\ Len(Append(ages, 0)) = Len(ages) + 1
      /\ Append(ages, 0)[Len(ages) + 1] = 0
      /\ \A i \in 1 .. Len(ages) : Append(ages, 0)[i] = ages[i]
  OBVIOUS
<1> DEFINE g == [q \in set \cup {r} |-> IF q = r THEN Len(ages) + 1 ELSE f[q]]
<1>3. \A q \in set : g[q] = f[q] /\ g[q] \in 1 .. Len(ages)
  OBVIOUS
<1>4. g[r] = Len(ages) + 1
  OBVIOUS
<1>5. g \in [set \cup {r} -> 1 .. Len(Append(ages, 0))]
  BY <1>2, <1>3, <1>4
<1> HIDE DEF g
<1>6. \A q, p \in set \cup {r} : g[q] = g[p] => q = p
  BY <1>1, <1>2, <1>3, <1>4
<1>7. \A q \in set \cup {r} : Append(ages, 0)[g[q]] = now[q]
  BY <1>1, <1>2, <1>3, <1>4
<1> QED BY <1>5, <1>6, <1>7 DEF NotedIn

(* A tick makes all of them older; fewer may stay within the window.       *)
AllOlder(ages) == [i \in DOMAIN ages |-> Older(ages[i])]
(* The ages, a tick later.                                                 *)
LEMMA AllOlderTypes ==
  ASSUME NEW ages, ages \in Seq(Nat)
  PROVE  /\ AllOlder(ages) \in Seq(Nat) /\ Len(AllOlder(ages)) = Len(ages)
         /\ \A i \in 1 .. Len(ages) : AllOlder(ages)[i] = Older(ages[i])
<1>1. Len(ages) \in Nat /\ DOMAIN ages = 1 .. Len(ages) /\ \A i \in 1 .. Len(ages) : Older(ages[i]) \in Nat
  <2>1. Len(ages) \in Nat /\ DOMAIN ages = 1 .. Len(ages) /\ \A i \in 1 .. Len(ages) : ages[i] \in Nat
    OBVIOUS
  <2> QED BY ONLY <2>1, OlderNat
<1> QED BY <1>1 DEF AllOlder

(* Requests stay noted while they age.                                     *)
LEMMA NotedOlder ==
  ASSUME NEW ages, NEW set, NEW age, NEW now, NEW fewer, ages \in Seq(Nat), NotedIn(ages, set, age),
         \A r \in fewer : r \in set /\ now[r] = Older(age[r])
  PROVE  NotedIn(AllOlder(ages), fewer, now)
<1>1. PICK f \in [set -> 1 .. Len(ages)] : /\ \A q, r \in set : f[q] = f[r] => q = r
                                           /\ \A r \in set : ages[f[r]] = age[r]
  BY DEF NotedIn
<1> DEFINE g == [r \in fewer |-> f[r]]
<1>2. g \in [fewer -> 1 .. Len(AllOlder(ages))] /\ \A r \in fewer : g[r] = f[r]
  BY AllOlderTypes
<1> HIDE DEF g
<1>3. \A q, r \in fewer : g[q] = g[r] => q = r
  BY <1>1, <1>2
<1>4. \A r \in fewer : AllOlder(ages)[g[r]] = now[r]
  <2> SUFFICES ASSUME NEW r \in fewer PROVE AllOlder(ages)[g[r]] = now[r]
    OBVIOUS
  <2>1. g[r] = f[r] /\ f[r] \in 1 .. Len(ages) /\ ages[f[r]] = age[r]
    BY <1>1, <1>2
  <2> QED BY <2>1, AllOlderTypes
<1> QED BY <1>2, <1>3, <1>4 DEF NotedIn

InWindow == { r \in Passed : handler[r].age < WINDOW }
OwnWindow(ip) == { r \in InWindow : handler[r].ip = ip }
Ages == [r \in Id |-> handler[r].age]
HitTypes ==
  /\ hits \in [Ip -> Seq(Nat)] /\ globalHits \in Seq(Nat)
  /\ Len(globalHits) <= rateGlobalPerMin /\ \A ip \in Ip : Len(hits[ip]) <= ratePerMin
AllNoted == NotedIn(globalHits, InWindow, Ages) /\ \A ip \in Ip : NotedIn(hits[ip], OwnWindow(ip), Ages)
LimitInv == RelayerInv /\ HitTypes /\ AllNoted

(* Requests within the window are younger than it.                         *)
LEMMA WindowAges ==
  ASSUME RelayerTypes
  PROVE  /\ InWindow \subseteq Id /\ \A r \in InWindow : Ages[r] < WINDOW
         /\ \A ip : OwnWindow(ip) \subseteq InWindow
BY DEF InWindow, OwnWindow, Ages, Passed

(* A handler that goes on is as old as before, and its client's.           *)
LEMMA GoingOn ==
  ASSUME LimitInv, NEW r, r \in Id, NEW h, handler' = [handler EXCEPT ![r] = h],
         h.age = handler[r].age, h.ip = handler[r].ip,
         h.at \notin {"new", "429"} <=> handler[r].at \notin {"new", "429"},
         UNCHANGED <<hits, globalHits>>, RelayerInv'
  PROVE  LimitInv'
<1>1. handler \in [Id -> HandlerState]
  BY DEF LimitInv, RelayerInv, RelayerTypes
<1>2. \A q \in Id : /\ handler'[q].age = handler[q].age /\ handler'[q].ip = handler[q].ip
                    /\ handler'[q].at \notin {"new", "429"} <=> handler[q].at \notin {"new", "429"}
  BY <1>1
<1>3. Passed' = Passed
  BY <1>2 DEF Passed
<1>4. Passed \subseteq Id
  BY DEF Passed
<1>5. InWindow' = InWindow
  BY <1>2, <1>3, <1>4 DEF InWindow
<1>6. InWindow \subseteq Id
  BY <1>4 DEF InWindow
<1>7. \A ip : OwnWindow(ip)' = OwnWindow(ip)
  BY <1>2, <1>5, <1>6 DEF OwnWindow
<1>8. Ages' = Ages
  BY <1>2 DEF Ages
<1> QED BY <1>5, <1>7, <1>8 DEF LimitInv, HitTypes, AllNoted

(* Every step of the relayer keeps the invariant of its limits.            *)
LEMMA LimitStep == LimitInv /\ [RelayerNext]_relayerVars => LimitInv'
<1> SUFFICES ASSUME LimitInv, [RelayerNext]_relayerVars PROVE LimitInv'
  OBVIOUS
<1>0. /\ RelayerInv /\ RelayerTypes /\ HitTypes /\ AllNoted /\ RelayerInv'
      /\ handler \in [Id -> HandlerState]
  BY RelayerStep DEF LimitInv, RelayerInv, RelayerTypes
<1>1. CASE RelayerTick
  <2>1. /\ hits' = [ip \in Ip |-> [i \in DOMAIN hits[ip] |-> Older(hits[ip][i])]]
        /\ globalHits' = [i \in DOMAIN globalHits |-> Older(globalHits[i])]
        /\ handler' = [r \in Id |-> IF r \in Passed THEN [handler[r] EXCEPT !.age = Older(@)] ELSE handler[r]]
    BY <1>1 DEF RelayerTick
  <2>2. ASSUME NEW r \in Id PROVE /\ handler'[r].at = handler[r].at /\ handler'[r].ip = handler[r].ip
                                  /\ r \in Passed => handler'[r].age = Older(handler[r].age)
    <3>1. handler[r] \in HandlerState
      BY <1>0
    <3> HIDE <1>0
    <3> QED BY <2>1, <3>1 DEF HandlerState
  <2>3. Passed' = Passed /\ Passed \subseteq Id
    BY <2>2 DEF Passed
  <2>4. ASSUME NEW r \in InWindow' PROVE r \in InWindow /\ Ages'[r] = Older(Ages[r])
    <3>1. r \in Passed /\ r \in Id /\ handler'[r].age = Older(handler[r].age) /\ handler'[r].age < WINDOW
      BY <2>2, <2>3 DEF InWindow
    <3>2. handler[r].age \in Nat /\ WINDOW \in Nat
      BY <1>0, <3>1, RelayerAssumption DEF HandlerState
    <3>3. Older(handler[r].age) = IF handler[r].age + 1 <= WINDOW THEN handler[r].age + 1 ELSE WINDOW
      BY <3>2, MinOfTwo DEF Older
    <3>4. handler[r].age < WINDOW
      BY <3>1, <3>2, <3>3
    <3> QED BY <3>1, <3>4 DEF InWindow, Ages
  <2>5. NotedIn(globalHits', InWindow', Ages') /\ globalHits' \in Seq(Nat) /\ Len(globalHits') = Len(globalHits)
    <3>1. globalHits' = AllOlder(globalHits)
      BY <2>1 DEF AllOlder
    <3>2. globalHits \in Seq(Nat) /\ NotedIn(globalHits, InWindow, Ages)
      BY <1>0 DEF HitTypes, AllNoted
    <3>3. NotedIn(AllOlder(globalHits), InWindow', Ages')
      BY <2>4, <3>2, NotedOlder
    <3> QED BY <3>1, <3>2, <3>3, AllOlderTypes
  <2>6. ASSUME NEW ip \in Ip
        PROVE  NotedIn(hits'[ip], OwnWindow(ip)', Ages') /\ hits'[ip] \in Seq(Nat) /\ Len(hits'[ip]) = Len(hits[ip])
    <3>1. hits'[ip] = AllOlder(hits[ip])
      BY <2>1 DEF AllOlder
    <3>2. hits[ip] \in Seq(Nat) /\ NotedIn(hits[ip], OwnWindow(ip), Ages)
      BY <1>0 DEF HitTypes, AllNoted
    <3>3. OwnWindow(ip)' \subseteq OwnWindow(ip) /\ \A r \in OwnWindow(ip)' : Ages'[r] = Older(Ages[r])
      <4> SUFFICES ASSUME NEW r \in OwnWindow(ip)' PROVE r \in OwnWindow(ip) /\ Ages'[r] = Older(Ages[r])
        OBVIOUS
      <4>1. r \in InWindow' /\ handler'[r].ip = ip
        BY DEF OwnWindow
      <4>2. r \in Id
        BY <2>3, <4>1 DEF InWindow
      <4> QED BY <2>2, <2>4, <4>1, <4>2 DEF OwnWindow
    <3>4. NotedIn(AllOlder(hits[ip]), OwnWindow(ip)', Ages')
      BY <3>2, <3>3, NotedOlder
    <3> QED BY <3>1, <3>2, <3>4, AllOlderTypes
  <2>7. HitTypes'
    <3>1. hits' \in [Ip -> Seq(Nat)]
      BY <2>1, <2>6
    <3> QED BY <1>0, <2>5, <2>6, <3>1 DEF HitTypes
  <2> QED BY <1>0, <2>5, <2>6, <2>7 DEF LimitInv, AllNoted
<1>2. ASSUME UNCHANGED <<hits, globalHits, handler>> PROVE LimitInv'
  <2>1. InWindow' = InWindow /\ Ages' = Ages /\ \A ip : OwnWindow(ip)' = OwnWindow(ip)
    BY <1>2 DEF InWindow, OwnWindow, Ages, Passed
  <2> QED BY <1>0, <1>2, <2>1 DEF LimitInv, HitTypes, AllNoted
<1>3. CASE SpentElsewhere \/ UNCHANGED relayerVars
  BY <1>2, <1>3 DEF SpentElsewhere, relayerVars
<1>4. ASSUME NEW r \in Id PROVE handler[r] \in HandlerState
  BY <1>0
<1>5. ASSUME NEW r \in Id, NEW h, handler' = [handler EXCEPT ![r] = h],
             h.age = handler[r].age, h.ip = handler[r].ip, h.at \notin {"new", "429"},
             handler[r].at \notin {"new", "429"}, UNCHANGED <<hits, globalHits>>
      PROVE  LimitInv'
  BY <1>0, <1>5, GoingOn
<1>6. ASSUME NEW r \in Id, CheckRequest(r) PROVE LimitInv'
  <2>1. PICK stage \in {"preparing", "400", "funded before", "502"} : handler' = [handler EXCEPT ![r].at = stage]
    BY <1>6 DEF CheckRequest, HandlerTo
  <2> DEFINE h == [handler[r] EXCEPT !.at = stage]
  <2>2. h.at = stage /\ h.age = handler[r].age /\ h.ip = handler[r].ip
    BY <1>4 DEF HandlerState
  <2>3. handler' = [handler EXCEPT ![r] = h]
    BY <2>1
  <2> HIDE DEF h
  <2> QED BY <1>5, <1>6, <2>2, <2>3 DEF CheckRequest, HandlerAt
<1>7. ASSUME NEW r \in Id, NEW code, Answered(r, code), code \notin {"new", "429"}, handler[r].at \notin {"new", "429"},
             UNCHANGED <<hits, globalHits>>
      PROVE  LimitInv'
  <2> DEFINE h == [handler[r] EXCEPT !.at = code, !.nonce = 0, !.receipt = "none"]
  <2>1. h.at = code /\ h.age = handler[r].age /\ h.ip = handler[r].ip
    BY <1>4 DEF HandlerState
  <2>2. handler' = [handler EXCEPT ![r] = h]
    BY <1>0, <1>7 DEF Answered
  <2> HIDE DEF h
  <2> QED BY <1>5, <1>7, <2>1, <2>2
<1>8. ASSUME NEW r \in Id, PrepareFor(r) PROVE LimitInv'
  <2>1. CASE handler' = [handler EXCEPT ![r].at = "sending", ![r].nonce = nonce + 1]
    <3> DEFINE h == [handler[r] EXCEPT !.at = "sending", !.nonce = nonce + 1]
    <3>1. h.at = "sending" /\ h.age = handler[r].age /\ h.ip = handler[r].ip
      BY <1>4 DEF HandlerState
    <3>2. handler' = [handler EXCEPT ![r] = h]
      BY <1>0, <2>1
    <3> HIDE DEF h
    <3> QED BY <1>5, <1>8, <3>1, <3>2 DEF PrepareFor, HandlerAt
  <2> QED BY <1>7, <1>8, <2>1 DEF PrepareFor, HandlerAt
<1>9. ASSUME NEW r \in Id, SendFor(r) PROVE LimitInv'
  <2>1. ASSUME NEW good \in BOOLEAN, ExecuteFor(r, good) PROVE LimitInv'
    <3> DEFINE receipt == IF good THEN "success" ELSE "reverted"
               h == [handler[r] EXCEPT !.at = "waiting", !.receipt = receipt]
    <3>1. h.at = "waiting" /\ h.age = handler[r].age /\ h.ip = handler[r].ip
      BY <1>4 DEF HandlerState
    <3>2. handler' = [handler EXCEPT ![r] = h]
      BY <1>0, <2>1 DEF ExecuteFor
    <3> HIDE DEF h
    <3> QED BY <1>5, <1>9, <3>1, <3>2 DEF SendFor, HandlerAt
  <2> QED BY <1>7, <1>9, <2>1 DEF SendFor, HandlerAt
<1>10. ASSUME NEW r \in Id, AnswerTo(r) PROVE LimitInv'
  <2>1. PICK code : code \in {handler[r].receipt, "502"} /\ Answered(r, code)
    BY <1>10 DEF AnswerTo, Status
  <2>2. code \notin {"new", "429"}
    BY <1>4, <2>1 DEF HandlerState
  <2> QED BY <1>7, <1>10, <2>1, <2>2 DEF AnswerTo, HandlerAt
<1>11. ASSUME NEW r \in Id, Receive(r) PROVE LimitInv'
  <2>1. PICK ip \in Ip, to \in Note \cup Fresh : rateLimit(r, ip, to)
    BY <1>11 DEF Receive
  <2> DEFINE global == prune(globalHits)
             own == prune(hits[ip])
             lets == Len(global) < rateGlobalPerMin /\ Len(own) < ratePerMin
             h == [NewRequest EXCEPT !.at = IF lets THEN "checking" ELSE "429", !.ip = ip, !.to = to]
  <2>2. h.at = (IF lets THEN "checking" ELSE "429") /\ h.ip = ip /\ h.age = 0
    BY DEF NewRequest
  <2>3. handler' = [handler EXCEPT ![r] = h]
    BY <2>1 DEF rateLimit
  <2>4. IF lets THEN hits' = [hits EXCEPT ![ip] = Append(own, 0)] /\ globalHits' = Append(global, 0)
        ELSE hits' \in {hits, [hits EXCEPT ![ip] = own]} /\ globalHits' = global
    BY <2>1 DEF rateLimit
  <2>5. \A q \in Id : handler'[q] = IF q = r THEN h ELSE handler[q]
    BY <1>0, <2>3
  <2>6. handler[r].at = "new" /\ r \notin Passed /\ r \notin InWindow
    BY <1>11 DEF Receive, HandlerAt, Passed, InWindow
  <2>7. InWindow \subseteq Id /\ (\A q \in InWindow : Ages[q] < WINDOW) /\ \A x : OwnWindow(x) \subseteq InWindow
    BY <1>0, WindowAges
  <2>8. NotedIn(global, InWindow, Ages) /\ global \in Seq(Nat) /\ Len(global) <= Len(globalHits)
    BY <1>0, <2>7, NotedPruned DEF HitTypes, AllNoted
  <2>9. NotedIn(own, OwnWindow(ip), Ages) /\ own \in Seq(Nat) /\ Len(own) <= Len(hits[ip])
    <3>1. hits[ip] \in Seq(Nat) /\ NotedIn(hits[ip], OwnWindow(ip), Ages) /\ \A q \in OwnWindow(ip) : Ages[q] < WINDOW
      BY <1>0, <2>7 DEF HitTypes, AllNoted
    <3> QED BY <3>1, NotedPruned
  <2> HIDE DEF h, global, own
  <2>10. \A q \in InWindow : q # r /\ q \in Id /\ Ages'[q] = Ages[q] /\ handler'[q] = handler[q]
    BY <2>5, <2>6, <2>7 DEF Ages
  <2>11. WINDOW \in Nat /\ 0 < WINDOW /\ rateGlobalPerMin \in Nat /\ ratePerMin \in Nat
    BY RelayerAssumption
  <2>12. hits \in [Ip -> Seq(Nat)] /\ globalHits \in Seq(Nat) /\ Len(globalHits) <= rateGlobalPerMin
         /\ \A x \in Ip : Len(hits[x]) <= ratePerMin
    BY <1>0 DEF HitTypes
  <2>13. CASE ~ lets
    <3>1. Passed' = Passed
      BY <2>2, <2>5, <2>6, <2>13 DEF Passed
    <3>2. InWindow' = InWindow
      <4>1. \A q \in Passed : handler'[q] = handler[q]
        BY <2>5, <2>6 DEF Passed
      <4> QED BY <3>1, <4>1 DEF InWindow
    <3>3. \A x : OwnWindow(x)' = OwnWindow(x)
      BY <2>10, <3>2 DEF OwnWindow
    <3>4. ASSUME NEW ages, NEW set, set \subseteq InWindow, NotedIn(ages, set, Ages) PROVE NotedIn(ages, set, Ages')
      BY <2>10, <3>4 DEF NotedIn
    <3>5. globalHits' = global /\ (hits' = hits \/ hits' = [hits EXCEPT ![ip] = own])
      BY <2>4, <2>13
    <3>6. AllNoted'
      <4>1. NotedIn(globalHits', InWindow', Ages')
        BY <2>8, <3>2, <3>4, <3>5
      <4>2. ASSUME NEW x \in Ip PROVE NotedIn(hits'[x], OwnWindow(x)', Ages')
        <5>1. NotedIn(hits[x], OwnWindow(x), Ages) /\ OwnWindow(x) \subseteq InWindow
          BY <1>0, <2>7 DEF AllNoted
        <5>2. hits'[x] = hits[x] \/ (x = ip /\ hits'[x] = own)
          BY <2>12, <3>5
        <5> QED BY <2>9, <3>3, <3>4, <5>1, <5>2
      <4> QED BY <4>1, <4>2 DEF AllNoted
    <3>7. HitTypes'
      <4>1. Len(own) \in Nat /\ Len(global) \in Nat /\ Len(hits[ip]) \in Nat /\ Len(globalHits) \in Nat
        BY <2>8, <2>9, <2>12
      <4>2. hits' \in [Ip -> Seq(Nat)] /\ \A x \in Ip : hits'[x] = hits[x] \/ (x = ip /\ hits'[x] = own)
        BY <2>9, <2>12, <3>5
      <4>3. ASSUME NEW x \in Ip PROVE Len(hits'[x]) <= ratePerMin
        <5>1. CASE hits'[x] = hits[x]
          BY <2>12, <5>1
        <5>2. CASE x = ip /\ hits'[x] = own
          <6>1. Len(own) <= Len(hits[ip]) /\ Len(hits[ip]) <= ratePerMin
            BY <2>9, <2>12
          <6> QED BY <2>11, <4>1, <5>2, <6>1
        <5> QED BY <4>2, <5>1, <5>2
      <4> QED BY <2>8, <2>11, <2>12, <3>5, <4>1, <4>2, <4>3 DEF HitTypes
    <3> QED BY <1>0, <3>6, <3>7 DEF LimitInv
  <2>14. CASE lets
    <3>1. h.at = "checking" /\ hits' = [hits EXCEPT ![ip] = Append(own, 0)] /\ globalHits' = Append(global, 0)
      BY <2>2, <2>4, <2>14
    <3>2. Passed' = Passed \cup {r}
      BY <2>5, <2>6, <3>1 DEF Passed
    <3>3. InWindow' = InWindow \cup {r}
      <4>1. \A q \in Passed : handler'[q] = handler[q]
        BY <2>5, <2>6 DEF Passed
      <4>2. handler'[r].age < WINDOW
        BY <2>2, <2>5, <2>11
      <4> QED BY <3>2, <4>1, <4>2 DEF InWindow
    <3>4. Ages'[r] = 0 /\ handler'[r].ip = ip
      BY <2>2, <2>5 DEF Ages
    <3>5. \A x : OwnWindow(x)' = IF x = ip THEN OwnWindow(x) \cup {r} ELSE OwnWindow(x)
      BY <2>10, <3>3, <3>4 DEF OwnWindow
    <3>6. NotedIn(globalHits', InWindow', Ages')
      BY <2>6, <2>8, <2>10, <3>1, <3>3, <3>4, NotedOne
    <3>7. ASSUME NEW x \in Ip PROVE NotedIn(hits'[x], OwnWindow(x)', Ages')
      <4>1. CASE x = ip
        <5>1. hits'[x] = Append(own, 0) /\ OwnWindow(x)' = OwnWindow(ip) \cup {r}
          BY <2>12, <3>1, <3>5, <4>1
        <5>2. r \notin OwnWindow(ip) /\ \A q \in OwnWindow(ip) : Ages'[q] = Ages[q]
          BY <2>6, <2>7, <2>10
        <5> QED BY <2>9, <3>4, <5>1, <5>2, NotedOne
      <4>2. CASE x # ip
        <5>1. hits'[x] = hits[x] /\ OwnWindow(x)' = OwnWindow(x)
          BY <2>12, <3>1, <3>5, <4>2
        <5>2. NotedIn(hits[x], OwnWindow(x), Ages) /\ \A q \in OwnWindow(x) : Ages'[q] = Ages[q]
          BY <1>0, <2>7, <2>10 DEF AllNoted
        <5> QED BY <5>1, <5>2 DEF NotedIn
      <4> QED BY <4>1, <4>2
    <3>8. HitTypes'
      <4>1. /\ Append(own, 0) \in Seq(Nat) /\ Len(Append(own, 0)) = Len(own) + 1 /\ Len(own) \in Nat
            /\ Append(global, 0) \in Seq(Nat) /\ Len(Append(global, 0)) = Len(global) + 1 /\ Len(global) \in Nat
        BY <2>8, <2>9
      <4>2. hits' \in [Ip -> Seq(Nat)] /\ \A x \in Ip : hits'[x] = hits[x] \/ (x = ip /\ hits'[x] = Append(own, 0))
        BY <2>12, <3>1, <4>1
      <4>3. ASSUME NEW x \in Ip PROVE Len(hits'[x]) <= ratePerMin
        <5>1. CASE hits'[x] = hits[x]
          BY <2>12, <5>1
        <5>2. CASE hits'[x] = Append(own, 0)
          BY <2>11, <2>14, <4>1, <5>2
        <5> QED BY <4>2, <5>1, <5>2
      <4> QED BY <2>11, <2>14, <3>1, <4>1, <4>2, <4>3 DEF HitTypes
    <3> QED BY <1>0, <3>6, <3>7, <3>8 DEF LimitInv, AllNoted
  <2> QED BY <2>13, <2>14
<1> QED BY <1>1, <1>3, <1>6, <1>8, <1>9, <1>10, <1>11 DEF RelayerNext

(* Of all requests let through, and of those of one client, no more than   *)
(* allowed are within the window, wherever it lies.                        *)
THEOREM RateCorrect == ServicesSpec => []RateLimited
<1>1. ServicesInit => LimitInv
  <2> SUFFICES ASSUME ServicesInit PROVE LimitInv
    OBVIOUS
  <2>1. RelayerInv
    BY RelayerStarts
  <2>2. hits = [ip \in Ip |-> << >>] /\ globalHits = << >> /\ handler = [r \in Id |-> NewRequest]
    BY DEF ServicesInit, RelayerInit
  <2>3. << >> \in Seq(Nat) /\ Len(<< >>) = 0
    OBVIOUS
  <2>4. HitTypes
    BY <2>2, <2>3, RelayerAssumption DEF HitTypes
  <2>5. Passed = {}
    BY <2>2 DEF Passed, NewRequest
  <2>6. InWindow = {} /\ \A ip : OwnWindow(ip) = {}
    BY <2>5 DEF InWindow, OwnWindow
  <2>7. \A ages : NotedIn(ages, {}, Ages)
    <3> SUFFICES ASSUME NEW ages PROVE NotedIn(ages, {}, Ages)
      OBVIOUS
    <3>1. [q \in {} |-> 1] \in [{} -> 1 .. Len(ages)]
      OBVIOUS
    <3> QED BY <3>1 DEF NotedIn
  <2> QED BY <2>1, <2>4, <2>6, <2>7 DEF LimitInv, AllNoted
<1>2. LimitInv => RateLimited
  <2> SUFFICES ASSUME LimitInv PROVE RateLimited
    OBVIOUS
  <2>1. /\ globalHits \in Seq(Nat) /\ Len(globalHits) <= rateGlobalPerMin
        /\ \A ip \in Ip : hits[ip] \in Seq(Nat) /\ Len(hits[ip]) <= ratePerMin
    BY DEF LimitInv, HitTypes
  <2>2. IsFiniteSet(InWindow) /\ Cardinality(InWindow) <= Len(globalHits)
    BY <2>1, NotedBound DEF LimitInv, AllNoted
  <2>3. \A ip \in Ip : IsFiniteSet(OwnWindow(ip)) /\ Cardinality(OwnWindow(ip)) <= Len(hits[ip])
    BY <2>1, NotedBound DEF LimitInv, AllNoted
  <2>4. Cardinality(InWindow) <= rateGlobalPerMin
    <3>1. Cardinality(InWindow) \in Nat /\ Len(globalHits) \in Nat /\ rateGlobalPerMin \in Nat
      BY <2>1, <2>2, FS_CardinalityType, RelayerAssumption
    <3> QED BY <2>1, <2>2, <3>1
  <2>5. ASSUME NEW ip \in Ip PROVE Cardinality(OwnWindow(ip)) <= ratePerMin
    <3>1. Cardinality(OwnWindow(ip)) \in Nat /\ Len(hits[ip]) \in Nat /\ ratePerMin \in Nat
      BY <2>1, <2>3, FS_CardinalityType, RelayerAssumption
    <3> QED BY <2>1, <2>3, <3>1
  <2> QED BY <2>4, <2>5 DEF RateLimited, InWindow, OwnWindow
<1> QED BY <1>1, <1>2, OwnSteps, LimitStep, PTL DEF ServicesSpec

-----------------------------------------------------------------------------
(* The points. A ledger knows a referral from both sides, and only of a    *)
(* referee that has shielded; the ledger in memory and the one in the file *)
(* are both so.                                                            *)
LedgerTypes(L) ==
  /\ L = [lastBlock |-> L.lastBlock, known |-> L.known, shields |-> L.shields, days |-> L.days,
          referredBy |-> L.referredBy, referrals |-> L.referrals, pending |-> L.pending]
  /\ L.shields \in [Addr -> Nat] /\ L.referrals \in [Addr -> SUBSET Addr]
  /\ L.referredBy \in [Addr -> Addr \cup {None}] /\ L.pending \in [Addr -> Addr \cup {None}]
BothKnow(L) == \A a, b \in Addr : b \in L.referrals[a] <=> L.referredBy[b] = a
ShieldedFirst(L) == \A a \in Addr : L.referredBy[a] # None => L.shields[a] > 0
GoodLedger(L) == LedgerTypes(L) /\ BothKnow(L) /\ ShieldedFirst(L)

DepositEvent == [from : Shielder, kind : Kind, block : Nat]
IndexerTypes ==
  /\ indexer = [at |-> indexer.at, from |-> indexer.from, events |-> indexer.events, next |-> indexer.next]
  /\ indexer.at = "count" => indexer.events \in Seq(DepositEvent) /\ indexer.next \in 1 .. Len(indexer.events)
RequestTypes ==
  \A q \in Request : request[q].at = "verify" => request[q].referee \in Addr /\ request[q].referrer \in Addr
PointsInv ==
  /\ GoodLedger(state) /\ GoodLedger(disk)
  /\ state.lastBlock \in Nat /\ disk.lastBlock \in Nat
  /\ chain \in Seq(Seq(DepositEvent))
  /\ IndexerTypes /\ RequestTypes /\ DOMAIN request = Request

(* A ledger whose referrals are another's is as good.                      *)
LEMMA SameReferrals ==
  ASSUME NEW L, NEW M, GoodLedger(L), LedgerTypes(M), M.referrals = L.referrals, M.referredBy = L.referredBy,
         \A a \in Addr : L.shields[a] <= M.shields[a]
  PROVE  GoodLedger(M)
<1>1. BothKnow(M)
  BY DEF GoodLedger, BothKnow
<1>2. ShieldedFirst(M)
  <2> SUFFICES ASSUME NEW a \in Addr, L.referredBy[a] # None PROVE M.shields[a] > 0
    BY DEF ShieldedFirst
  <2>1. L.shields[a] \in Nat /\ M.shields[a] \in Nat /\ L.shields[a] > 0
    BY DEF GoodLedger, LedgerTypes, ShieldedFirst
  <2> QED BY <2>1
<1> QED BY <1>1, <1>2 DEF GoodLedger

(* What a ledger keeps when one of its fields changes.                     *)
WithKnown(L, x) == [L EXCEPT !.known = x]
WithCursor(L, x) == [L EXCEPT !.lastBlock = x]
WithPending(L, x) == [L EXCEPT !.pending = x]
SameAs(M, L) == M.shields = L.shields /\ M.referrals = L.referrals /\ M.referredBy = L.referredBy

(* Saving a field of the ledger leaves the others alone.                   *)
LEMMA OneField ==
  ASSUME NEW L, LedgerTypes(L), NEW x
  PROVE  /\ LedgerTypes(WithKnown(L, x)) /\ SameAs(WithKnown(L, x), L)
         /\ WithKnown(L, x).lastBlock = L.lastBlock /\ WithKnown(L, x).pending = L.pending
         /\ LedgerTypes(WithCursor(L, x)) /\ SameAs(WithCursor(L, x), L) /\ WithCursor(L, x).lastBlock = x
         /\ x \in [Addr -> Addr \cup {None}] =>
              LedgerTypes(WithPending(L, x)) /\ SameAs(WithPending(L, x), L) /\ WithPending(L, x).lastBlock = L.lastBlock
<1>1. PICK lb, kn, sh, da, by, rs, pe : L = [lastBlock |-> lb, known |-> kn, shields |-> sh, days |-> da,
                                             referredBy |-> by, referrals |-> rs, pending |-> pe]
  BY DEF LedgerTypes
<1>2. WithKnown(L, x) = [lastBlock |-> lb, known |-> x, shields |-> sh, days |-> da,
                         referredBy |-> by, referrals |-> rs, pending |-> pe]
  BY <1>1 DEF WithKnown
<1>3. WithCursor(L, x) = [lastBlock |-> x, known |-> kn, shields |-> sh, days |-> da,
                          referredBy |-> by, referrals |-> rs, pending |-> pe]
  BY <1>1 DEF WithCursor
<1>4. WithPending(L, x) = [lastBlock |-> lb, known |-> kn, shields |-> sh, days |-> da,
                           referredBy |-> by, referrals |-> rs, pending |-> x]
  BY <1>1 DEF WithPending
<1>5. /\ sh \in [Addr -> Nat] /\ rs \in [Addr -> SUBSET Addr]
      /\ by \in [Addr -> Addr \cup {None}] /\ pe \in [Addr -> Addr \cup {None}]
  BY <1>1 DEF LedgerTypes
<1> QED BY <1>1, <1>2, <1>3, <1>4, <1>5 DEF LedgerTypes, SameAs

(* An address that was not known is, and nothing else changes.             *)
LEMMA EnsureKeeps ==
  ASSUME NEW L, LedgerTypes(L), NEW a
  PROVE  /\ LedgerTypes(ensure(L, a)) /\ SameAs(ensure(L, a), L)
         /\ ensure(L, a).lastBlock = L.lastBlock /\ ensure(L, a).pending = L.pending
<1>1. \E x : ensure(L, a) = WithKnown(L, x)
  BY DEF ensure, WithKnown
<1> QED BY <1>1, OneField

(* A referral becomes known to both sides.                                 *)
LEMMA ReferKnown ==
  ASSUME NEW L, GoodLedger(L), NEW e, NEW r, e \in Addr, r \in Addr, L.referredBy[e] = None, L.shields[e] > 0
  PROVE  GoodLedger(Refer(L, e, r)) /\ Refer(L, e, r).lastBlock = L.lastBlock /\ Refer(L, e, r).pending = L.pending
<1> DEFINE K == ensure(L, r)
           M == Refer(L, e, r)
<1>1. LedgerTypes(K) /\ K.lastBlock = L.lastBlock /\ K.shields = L.shields /\ K.referrals = L.referrals
      /\ K.referredBy = L.referredBy /\ K.pending = L.pending
  BY EnsureKeeps DEF GoodLedger, SameAs
<1>2. M = [K EXCEPT !.referredBy[e] = r, !.referrals[r] = @ \cup {e}]
  BY DEF Refer
<1> HIDE DEF K, M
<1>3. PICK lb, kn, sh, da, by, rs, pe : K = [lastBlock |-> lb, known |-> kn, shields |-> sh, days |-> da,
                                             referredBy |-> by, referrals |-> rs, pending |-> pe]
  BY <1>1 DEF LedgerTypes
<1>4. M = [lastBlock |-> lb, known |-> kn, shields |-> sh, days |-> da,
           referredBy |-> [by EXCEPT ![e] = r], referrals |-> [rs EXCEPT ![r] = @ \cup {e}], pending |-> pe]
  BY <1>2, <1>3
<1>5. /\ sh \in [Addr -> Nat] /\ rs \in [Addr -> SUBSET Addr]
      /\ by \in [Addr -> Addr \cup {None}] /\ pe \in [Addr -> Addr \cup {None}]
      /\ sh = L.shields /\ by = L.referredBy /\ rs = L.referrals /\ pe = L.pending /\ lb = L.lastBlock
  BY <1>1, <1>3 DEF LedgerTypes
<1> DEFINE by2 == [by EXCEPT ![e] = r]
           rs2 == [rs EXCEPT ![r] = @ \cup {e}]
<1>6. /\ by2 \in [Addr -> Addr \cup {None}] /\ rs2 \in [Addr -> SUBSET Addr]
      /\ \A a \in Addr : by2[a] = IF a = e THEN r ELSE by[a]
      /\ \A a \in Addr : rs2[a] = IF a = r THEN rs[a] \cup {e} ELSE rs[a]
  BY <1>5
<1> HIDE DEF by2, rs2
<1>7. M = [lastBlock |-> lb, known |-> kn, shields |-> sh, days |-> da, referredBy |-> by2, referrals |-> rs2, pending |-> pe]
  BY <1>4 DEF by2, rs2
<1>8. LedgerTypes(M) /\ M.shields = sh /\ M.referredBy = by2 /\ M.referrals = rs2 /\ M.lastBlock = lb /\ M.pending = pe
  BY <1>5, <1>6, <1>7 DEF LedgerTypes
<1>9. BothKnow(M)
  <2> SUFFICES ASSUME NEW a \in Addr, NEW b \in Addr PROVE b \in rs2[a] <=> by2[b] = a
    BY <1>8 DEF BothKnow
  <2>1. b \in rs[a] <=> by[b] = a
    BY <1>5 DEF GoodLedger, BothKnow
  <2>2. by[e] = None /\ a # None
    BY <1>5, PointsAssumption
  <2> QED BY <1>6, <2>1, <2>2
<1>10. ShieldedFirst(M)
  BY <1>5, <1>6, <1>8 DEF GoodLedger, ShieldedFirst
<1> QED BY <1>5, <1>8, <1>9, <1>10 DEF GoodLedger, M

(* A deposit counts for its sender, and settles what was pending.          *)
LEMMA CountedKnown ==
  ASSUME NEW L, GoodLedger(L), NEW event, event.from \in Addr
  PROVE  GoodLedger(CountedFor(L, event)) /\ CountedFor(L, event).lastBlock = L.lastBlock
<1> DEFINE a == event.from
           K == ensure(L, a)
           C == [K EXCEPT !.shields[a] = @ + 1, !.days[a] = @ \cup {DayOf[event.block]}]
           ref == L.pending[a]
<1>1. LedgerTypes(K) /\ K.lastBlock = L.lastBlock /\ K.shields = L.shields /\ K.referrals = L.referrals
      /\ K.referredBy = L.referredBy /\ K.pending = L.pending
  BY EnsureKeeps DEF GoodLedger, SameAs
<1> HIDE DEF K
<1>2. PICK lb, kn, sh, da, by, rs, pe : K = [lastBlock |-> lb, known |-> kn, shields |-> sh, days |-> da,
                                             referredBy |-> by, referrals |-> rs, pending |-> pe]
  BY <1>1 DEF LedgerTypes
<1> DEFINE sh2 == [sh EXCEPT ![a] = @ + 1]
           da2 == [da EXCEPT ![a] = @ \cup {DayOf[event.block]}]
<1>3. C = [lastBlock |-> lb, known |-> kn, shields |-> sh2, days |-> da2, referredBy |-> by, referrals |-> rs, pending |-> pe]
  <2>1. K.shields = sh /\ K.days = da
    BY <1>2
  <2>2. C = [[K EXCEPT !.shields = sh2] EXCEPT !.days = da2]
    <3>1. [K EXCEPT !.shields = sh2].days = K.days
      BY <1>2
    <3> QED BY <2>1, <3>1
  <2> HIDE DEF C, sh2, da2
  <2>3. [K EXCEPT !.shields = sh2] = [lastBlock |-> lb, known |-> kn, shields |-> sh2, days |-> da,
                                      referredBy |-> by, referrals |-> rs, pending |-> pe]
    BY <1>2
  <2>4. ASSUME NEW J, J = [lastBlock |-> lb, known |-> kn, shields |-> sh2, days |-> da,
                           referredBy |-> by, referrals |-> rs, pending |-> pe]
        PROVE  [J EXCEPT !.days = da2] = [lastBlock |-> lb, known |-> kn, shields |-> sh2, days |-> da2,
                                          referredBy |-> by, referrals |-> rs, pending |-> pe]
    BY <2>4
  <2> QED BY <2>2, <2>3, <2>4, Zenon
<1>4. /\ sh \in [Addr -> Nat] /\ rs \in [Addr -> SUBSET Addr]
      /\ by \in [Addr -> Addr \cup {None}] /\ pe \in [Addr -> Addr \cup {None}]
      /\ sh = L.shields /\ by = L.referredBy /\ rs = L.referrals /\ pe = L.pending /\ lb = L.lastBlock
  BY <1>1, <1>2 DEF LedgerTypes
<1>5. sh2 \in [Addr -> Nat] /\ sh2[a] > 0 /\ \A b \in Addr : sh[b] <= sh2[b]
  BY <1>4
<1> HIDE DEF sh2, da2, C
<1>6. LedgerTypes(C) /\ C.shields = sh2 /\ C.referredBy = by /\ C.referrals = rs /\ C.lastBlock = lb /\ C.pending = pe
  BY <1>3, <1>4, <1>5 DEF LedgerTypes
<1>7. GoodLedger(C)
  BY <1>4, <1>5, <1>6, SameReferrals
<1>8. CASE ref # None /\ L.referredBy[a] = None /\ ref # a
  <2> DEFINE R == Refer(C, a, ref)
             Done == [R EXCEPT !.pending[a] = None]
  <2>1. ref \in Addr
    BY <1>4, <1>8
  <2>2. GoodLedger(R) /\ R.lastBlock = C.lastBlock /\ R.pending = C.pending
    BY <1>4, <1>5, <1>6, <1>7, <1>8, <2>1, ReferKnown
  <2>3. CountedFor(L, event) = Done
    BY <1>8 DEF CountedFor, C, K
  <2> HIDE DEF R
  <2> DEFINE pe2 == [R.pending EXCEPT ![a] = None]
  <2>4. pe2 \in [Addr -> Addr \cup {None}]
    BY <2>2 DEF GoodLedger, LedgerTypes
  <2>5. Done = WithPending(R, pe2)
    BY DEF WithPending
  <2> HIDE DEF Done, pe2
  <2>6. /\ LedgerTypes(Done) /\ Done.lastBlock = R.lastBlock /\ Done.shields = R.shields
        /\ Done.referrals = R.referrals /\ Done.referredBy = R.referredBy
    <3>1. LedgerTypes(R)
      BY <2>2 DEF GoodLedger
    <3>2. /\ LedgerTypes(WithPending(R, pe2)) /\ SameAs(WithPending(R, pe2), R)
          /\ WithPending(R, pe2).lastBlock = R.lastBlock
      BY <2>4, <3>1, OneField
    <3> QED BY <2>5, <3>2 DEF SameAs
  <2>7. \A b \in Addr : R.shields[b] <= Done.shields[b]
    BY <2>2, <2>6 DEF GoodLedger, LedgerTypes
  <2>8. GoodLedger(Done)
    BY <2>2, <2>6, <2>7, SameReferrals
  <2> QED BY <1>4, <1>6, <2>2, <2>3, <2>6, <2>8
<1>9. CASE ~ (ref # None /\ L.referredBy[a] = None /\ ref # a)
  <2>1. CountedFor(L, event) = C
    BY <1>9 DEF CountedFor, C, K
  <2> QED BY <1>4, <1>6, <1>7, <2>1
<1> QED BY <1>8, <1>9

(* A ledger whose cursor moves is as good.                                 *)
LEMMA ALedgerMoved ==
  ASSUME NEW L, GoodLedger(L), NEW x
  PROVE  GoodLedger(WithCursor(L, x)) /\ WithCursor(L, x).lastBlock = x
<1> DEFINE M == WithCursor(L, x)
<1>1. LedgerTypes(M) /\ M.lastBlock = x /\ M.shields = L.shields /\ M.referrals = L.referrals /\ M.referredBy = L.referredBy
  BY OneField DEF GoodLedger, SameAs
<1> HIDE DEF M
<1>2. \A a \in Addr : L.shields[a] <= M.shields[a]
  BY <1>1 DEF GoodLedger, LedgerTypes
<1>3. GoodLedger(M)
  BY <1>1, <1>2, SameReferrals
<1> QED BY <1>1, <1>3 DEF M

(* A ledger is as good when a referral waits in it.                        *)
LEMMA ParkedLedger ==
  ASSUME NEW L, GoodLedger(L), NEW x, x \in [Addr -> Addr \cup {None}]
  PROVE  GoodLedger(WithPending(L, x)) /\ WithPending(L, x).lastBlock = L.lastBlock
<1> DEFINE M == WithPending(L, x)
<1>1. LedgerTypes(M) /\ M.lastBlock = L.lastBlock /\ M.shields = L.shields /\ M.referrals = L.referrals /\ M.referredBy = L.referredBy
  BY OneField DEF GoodLedger, SameAs
<1> HIDE DEF M
<1>2. \A a \in Addr : L.shields[a] <= M.shields[a]
  BY <1>1 DEF GoodLedger, LedgerTypes
<1>3. GoodLedger(M)
  BY <1>1, <1>2, SameReferrals
<1> QED BY <1>1, <1>3 DEF M

(* The cursor of a scan is a block's number.                               *)
LEMMA CursorNat ==
  ASSUME NEW before \in Nat, NEW events, events \in Seq(DepositEvent)
  PROVE  Cursor(before, events) \in Nat
<1> DEFINE at == { events[i].block : i \in DOMAIN events }
           blocks == [i \in DOMAIN events |-> events[i].block]
<1>1. DOMAIN events = 1 .. Len(events) /\ Len(events) \in Nat
  OBVIOUS
<1>2. IsFiniteSet(DOMAIN events)
  BY <1>1, FS_Interval
<1>3. IsFiniteSet(at)
  <2>1. blocks \in Surjection(DOMAIN events, at)
    BY DEF Surjection
  <2> HIDE DEF at, blocks
  <2> QED BY <1>2, <2>1, FS_Surjection
<1>4. at \subseteq Nat
  <2> SUFFICES ASSUME NEW i \in 1 .. Len(events) PROVE events[i].block \in Nat
    BY <1>1
  <2>1. events[i] \in DepositEvent
    OBVIOUS
  <2> QED BY <2>1 DEF DepositEvent
<1> HIDE DEF at
<1>5. IsFiniteSet({before} \cup at)
  <2>1. IsFiniteSet(at \cup {before})
    BY <1>3, FS_AddElement
  <2>2. at \cup {before} = {before} \cup at
    OBVIOUS
  <2> QED BY <2>1, <2>2
<1>6. Max({before} \cup at) \in {before} \cup at
  <2> DEFINE all == {before} \cup at
  <2>1. all \subseteq Int /\ all # {}
    BY <1>4
  <2>2. IsFiniteSet(all)
    BY <1>5
  <2> HIDE DEF all
  <2>3. Max(all) \in all
    BY <2>1, <2>2, MaxOfFinite
  <2> QED BY <2>3 DEF all
<1> QED BY <1>4, <1>6 DEF Cursor, at

(* What each step of the service and of the chain does to the invariant.   *)
LEMMA PointsStep == PointsInv /\ [PointsNext]_pointsVars => PointsInv'
<1> SUFFICES ASSUME PointsInv, [PointsNext]_pointsVars PROVE PointsInv'
  OBVIOUS
<1>0. /\ GoodLedger(state) /\ GoodLedger(disk) /\ state.lastBlock \in Nat /\ disk.lastBlock \in Nat
      /\ chain \in Seq(Seq(DepositEvent)) /\ IndexerTypes /\ RequestTypes /\ DOMAIN request = Request
  BY DEF PointsInv
<1>1. CASE Mine
  <2>1. PICK n \in 0 .. 2 : \E block \in [1 .. n -> [from : Shielder, kind : Kind, block : {Len(chain) + 1}]] :
                               chain' = Append(chain, block)
    BY <1>1 DEF Mine
  <2>2. PICK block \in [1 .. n -> [from : Shielder, kind : Kind, block : {Len(chain) + 1}]] : chain' = Append(chain, block)
    BY <2>1
  <2>3. Len(chain) + 1 \in Nat
    BY <1>0
  <2>4. \A i \in 1 .. n : block[i] \in DepositEvent
    BY <2>3 DEF DepositEvent
  <2>5. block \in Seq(DepositEvent)
    BY <2>4
  <2>6. chain' \in Seq(Seq(DepositEvent))
    BY <1>0, <2>2, <2>5
  <2>7. UNCHANGED <<state, disk, indexer, request>>
    BY <1>1 DEF Mine
  <2> QED BY <1>0, <2>6, <2>7 DEF PointsInv, IndexerTypes, RequestTypes
<1>2. CASE Scan
  <2> DEFINE from == state.lastBlock + 1
             events == FlattenSeq(SubSeq(chain, from, Len(chain)))
  <2>1. /\ indexer' = [at |-> IF events = << >> THEN "bump" ELSE "count", from |-> from, events |-> events, next |-> 1]
        /\ UNCHANGED <<chain, state, disk, request>>
    BY <1>2 DEF Scan
  <2>2. SubSeq(chain, from, Len(chain)) \in Seq(Seq(DepositEvent))
    <3>1. from \in Nat /\ from >= 1 /\ Len(chain) \in Nat
      BY <1>0
    <3> HIDE DEF from
    <3>2. \A i \in from .. Len(chain) : chain[i] \in Seq(DepositEvent)
      BY <1>0, <3>1
    <3> QED BY <3>1, <3>2
  <2>3. events \in Seq(DepositEvent)
    BY <2>2, FlattenType
  <2> HIDE DEF events, from
  <2>4. events # << >> => 1 \in 1 .. Len(events)
    BY <2>3
  <2>5. IndexerTypes'
    BY <2>1, <2>3, <2>4 DEF IndexerTypes
  <2> QED BY <1>0, <2>1, <2>5 DEF PointsInv, RequestTypes
<1>3. CASE Count
  <2> DEFINE events == indexer.events
             next == indexer.next
             counted == CountedFor(state, events[next])
  <2>1. events \in Seq(DepositEvent) /\ next \in 1 .. Len(events) /\ Len(events) \in Nat
    BY <1>0, <1>3 DEF Count, IndexerTypes
  <2>2. events[next] \in DepositEvent
    BY <2>1
  <2>3. events[next].from \in Addr
    BY <2>2, PointsAssumption DEF DepositEvent
  <2>4. GoodLedger(counted) /\ counted.lastBlock = state.lastBlock
    BY <1>0, <2>3, CountedKnown
  <2>5. UNCHANGED <<chain, request>>
    BY <1>3 DEF Count
  <2>6. CASE next < Len(events)
    <3>1. state' = counted /\ indexer' = [indexer EXCEPT !.next = @ + 1] /\ UNCHANGED disk
      BY <1>3, <2>6 DEF Count
    <3> HIDE DEF counted, events, next
    <3>2. /\ indexer' = [at |-> indexer.at, from |-> indexer.from, events |-> events, next |-> next + 1]
          /\ indexer = [at |-> indexer.at, from |-> indexer.from, events |-> events, next |-> next]
      BY <1>0, <3>1 DEF IndexerTypes, events, next
    <3>3. next + 1 \in 1 .. Len(events)
      BY <2>1, <2>6
    <3>4. IndexerTypes'
      BY <2>1, <3>2, <3>3 DEF IndexerTypes
    <3> QED BY <1>0, <2>4, <2>5, <3>1, <3>4 DEF PointsInv, RequestTypes
  <2>7. CASE ~ (next < Len(events))
    <3> DEFINE x == Cursor(counted.lastBlock, events)
    <3>1. Save(WithCursor(counted, x)) /\ indexer' = IndexerResting
      BY <1>3, <2>7 DEF Count, WithCursor
    <3>2. x \in Nat
      BY <1>0, <2>1, <2>4, CursorNat
    <3> HIDE DEF counted, x
    <3>3. GoodLedger(WithCursor(counted, x)) /\ WithCursor(counted, x).lastBlock \in Nat
      BY <2>4, <3>2, ALedgerMoved
    <3> HIDE DEF events, next
    <3>4. IndexerTypes'
      BY <3>1 DEF IndexerTypes, IndexerResting
    <3> QED BY <1>0, <2>5, <3>1, <3>3, <3>4 DEF PointsInv, RequestTypes, Save
  <2> QED BY <2>6, <2>7
<1>4. CASE Bump
  <2>1. indexer' = IndexerResting /\ UNCHANGED <<chain, request>>
    BY <1>4 DEF Bump
  <2>2. \E L : Save(L) /\ GoodLedger(L) /\ L.lastBlock \in Nat
    <3>1. GoodLedger(WithCursor(state, Len(chain))) /\ WithCursor(state, Len(chain)).lastBlock = Len(chain)
      BY <1>0, ALedgerMoved
    <3>2. Len(chain) \in Nat
      BY <1>0
    <3>3. CASE Save([state EXCEPT !.lastBlock = Len(chain)])
      BY <3>1, <3>2, <3>3 DEF WithCursor
    <3>4. CASE Save(state)
      BY <1>0, <3>4
    <3> QED BY <1>4, <3>3, <3>4 DEF Bump
  <2>3. IndexerTypes'
    BY <2>1 DEF IndexerTypes, IndexerResting
  <2> QED BY <1>0, <2>1, <2>2, <2>3 DEF PointsInv, RequestTypes, Save
<1>5. CASE IndexFails
  <2>1. IndexerTypes'
    BY <1>5 DEF IndexFails, IndexerTypes, IndexerResting
  <2> QED BY <1>0, <1>5, <2>1 DEF IndexFails, PointsInv, RequestTypes
<1>6. CASE Crash
  <2>1. IndexerTypes'
    BY <1>6 DEF Crash, IndexerTypes, IndexerResting
  <2>2. RequestTypes' /\ DOMAIN request' = Request
    BY <1>6 DEF Crash, RequestTypes, NoRequest
  <2> QED BY <1>0, <1>6, <2>1, <2>2 DEF Crash, PointsInv
<1>7. ASSUME NEW q \in Request, handleReferral(q) PROVE PointsInv'
  <2>1. PICK referee \in Addr, referrer \in Addr :
          request' = [request EXCEPT ![q] = [at |-> "verify", referee |-> referee, referrer |-> referrer,
                                             seen |-> referee \in Range(state.known)]]
    BY <1>7 DEF handleReferral
  <2>2. RequestTypes' /\ DOMAIN request' = Request
    BY <1>0, <2>1 DEF RequestTypes
  <2> QED BY <1>0, <1>7, <2>2 DEF handleReferral, PointsInv, IndexerTypes
<1>8. ASSUME NEW q \in Request, Verified(q) \/ BadSignature(q) PROVE PointsInv'
  <2>1. request' = [request EXCEPT ![q] = NoRequest] /\ UNCHANGED <<chain, indexer>>
    BY <1>8 DEF Verified, BadSignature
  <2>2. RequestTypes' /\ DOMAIN request' = Request
    BY <1>0, <2>1 DEF RequestTypes, NoRequest
  <2>3. CASE UNCHANGED <<state, disk>>
    BY <1>0, <2>1, <2>2, <2>3 DEF PointsInv, IndexerTypes
  <2>4. CASE Verified(q)
    <3> DEFINE referee == request[q].referee
               referrer == request[q].referrer
    <3>1. referee \in Addr /\ referrer \in Addr
      BY <1>0, <2>4 DEF Verified, RequestTypes
    <3>2. CASE MaySettle(q)
      <4>1. Save(Refer(state, referee, referrer))
        BY <2>4, <3>2 DEF Verified
      <4>2. state.referredBy[referee] = None /\ state.shields[referee] > 0
        BY <3>2 DEF MaySettle
      <4>3. GoodLedger(Refer(state, referee, referrer)) /\ Refer(state, referee, referrer).lastBlock = state.lastBlock
        BY <1>0, <3>1, <4>2, ReferKnown
      <4> QED BY <1>0, <2>1, <2>2, <4>1, <4>3 DEF PointsInv, IndexerTypes, Save
    <3>3. CASE ~ MaySettle(q)
      <4> DEFINE parked == [state.pending EXCEPT ![referee] = referrer]
      <4>1. Save(WithPending(state, parked))
        BY <2>4, <3>3 DEF Verified, WithPending
      <4>2. parked \in [Addr -> Addr \cup {None}]
        BY <1>0, <3>1 DEF GoodLedger, LedgerTypes
      <4> HIDE DEF parked
      <4>3. GoodLedger(WithPending(state, parked)) /\ WithPending(state, parked).lastBlock = state.lastBlock
        BY <1>0, <4>2, ParkedLedger
      <4> QED BY <1>0, <2>1, <2>2, <4>1, <4>3 DEF PointsInv, IndexerTypes, Save
    <3> QED BY <3>2, <3>3
  <2> QED BY <1>8, <2>3, <2>4 DEF BadSignature
<1>9. CASE UNCHANGED pointsVars
  BY <1>0, <1>9 DEF pointsVars, PointsInv, IndexerTypes, RequestTypes
<1> QED BY <1>1, <1>2, <1>3, <1>4, <1>5, <1>6, <1>7, <1>8, <1>9 DEF PointsNext

(* What a ledger's referrals earn in all: each its two parts.              *)
LEMMA EarnedTogether ==
  ASSUME NEW L, GoodLedger(L)
  PROVE  LET settled == { a \in Addr : L.referredBy[a] # None }
             earned  == SumFunctionOnSet([a \in Addr |-> pointsFor(L, a).referral], Addr)
         IN  earned = Cardinality(settled) * (rules.referrer + rules.referee)
<1> DEFINE by == L.referredBy
           settled == { a \in Addr : by[a] # None }
           sentTo == { b \in Addr : by[b] \in Addr }
           Counted == [a \in Addr |-> Cardinality({ b \in Addr : by[b] = a })]
           Settled == [a \in Addr |-> IF a \in settled THEN 1 ELSE 0]
           zero == [a \in Addr |-> 0]
           p == rules.referrer
           q == rules.referee
           Referrers == [a \in Addr |-> p * Counted[a]]
           Earned == [a \in Addr |-> pointsFor(L, a).referral]
           n == Cardinality(settled)
<1>1. IsFiniteSet(Addr) /\ None \notin Addr /\ p \in Nat /\ q \in Nat
  BY PointsAssumption
<1>2. by \in [Addr -> Addr \cup {None}] /\ L.referrals \in [Addr -> SUBSET Addr]
  BY DEF GoodLedger, LedgerTypes
<1>3. settled = sentTo
  BY <1>1, <1>2
<1>4. n \in Nat
  BY <1>1, FS_Subset, FS_CardinalityType
<1>5. SumFunctionOnSet(Counted, Addr) = n
  BY <1>1, <1>3, SumClasses
<1>6. \A a \in Addr : Counted[a] \in Int /\ L.referrals[a] = { b \in Addr : by[b] = a }
  <2> SUFFICES ASSUME NEW a \in Addr
               PROVE  Counted[a] \in Int /\ L.referrals[a] = { b \in Addr : by[b] = a }
    OBVIOUS
  <2>1. IsFiniteSet({ b \in Addr : by[b] = a })
    BY <1>1, FS_Subset
  <2>2. Cardinality({ b \in Addr : by[b] = a }) \in Nat
    BY <2>1, FS_CardinalityType
  <2>3. L.referrals[a] = { b \in Addr : by[b] = a }
    BY <1>2 DEF GoodLedger, BothKnow
  <2> QED BY <2>2, <2>3
<1>7. \A a \in Addr : Settled[a] = (IF a \in settled THEN 1 ELSE 0) /\ Settled[a] \in Int
  OBVIOUS
<1>8. SumFunctionOnSet(Settled, Addr) = n
  <2>1. settled \subseteq Addr
    OBVIOUS
  <2> HIDE DEF Settled, settled
  <2> QED BY <1>1, <1>7, <2>1, SumOnes
<1>9. \A a \in Addr : pointsFor(L, a).referral = Counted[a] * p + (IF a \in settled THEN q ELSE 0)
  BY <1>6 DEF pointsFor
<1>10. \A a \in Addr : Earned[a] = pointsFor(L, a).referral
  OBVIOUS
<1>11. \A a \in Addr : zero[a] = 0 /\ Referrers[a] = p * Counted[a]
  OBVIOUS
<1> HIDE DEF Counted, Settled, settled, zero, p, q, Referrers, Earned, n, sentTo
<1>12. \A a \in Addr : zero[a] \in Int /\ Counted[a] \in Int /\ Referrers[a] = zero[a] + p * Counted[a]
  <2> SUFFICES ASSUME NEW a \in Addr
               PROVE  zero[a] \in Int /\ Counted[a] \in Int /\ Referrers[a] = zero[a] + p * Counted[a]
    OBVIOUS
  <2> DEFINE x == p * Counted[a]
  <2>1. x \in Int
    BY <1>1, <1>6
  <2>2. zero[a] = 0 /\ Referrers[a] = x
    BY <1>11
  <2> HIDE DEF x
  <2>3. Referrers[a] = zero[a] + x
    BY <2>1, <2>2
  <2> QED BY <1>6, <2>2, <2>3 DEF x
<1>13. SumFunctionOnSet(Referrers, Addr) = SumFunctionOnSet(zero, Addr) + p * SumFunctionOnSet(Counted, Addr)
  BY <1>1, <1>12, SumLinear
<1>14. \A a \in Addr : Referrers[a] \in Int /\ Settled[a] \in Int /\ Earned[a] = Referrers[a] + q * Settled[a]
  <2> SUFFICES ASSUME NEW a \in Addr
               PROVE  Referrers[a] \in Int /\ Settled[a] \in Int /\ Earned[a] = Referrers[a] + q * Settled[a]
    OBVIOUS
  <2> DEFINE x == p * Counted[a]
             y == Counted[a] * p
  <2>1. x \in Int /\ x = y /\ Referrers[a] = x
    BY <1>1, <1>6, <1>11
  <2>2. Earned[a] = y + (IF a \in settled THEN q ELSE 0)
    BY <1>9, <1>10
  <2>3. q * 1 = q /\ q * 0 = 0
    BY <1>1
  <2> HIDE DEF x, y
  <2>4. CASE a \in settled
    <3>1. Settled[a] = 1
      BY <1>7, <2>4
    <3>2. Earned[a] = x + q * 1
      BY <1>1, <2>1, <2>2, <2>3, <2>4
    <3> QED BY <2>1, <3>1, <3>2
  <2>5. CASE a \notin settled
    <3>1. Settled[a] = 0
      BY <1>7, <2>5
    <3>2. Earned[a] = x + q * 0
      BY <1>1, <2>1, <2>2, <2>3, <2>5
    <3> QED BY <2>1, <3>1, <3>2
  <2> QED BY <2>4, <2>5
<1>15. SumFunctionOnSet(Earned, Addr) = SumFunctionOnSet(Referrers, Addr) + q * SumFunctionOnSet(Settled, Addr)
  BY <1>1, <1>14, SumLinear
<1>16. SumFunctionOnSet(zero, Addr) = 0
  BY <1>1, <1>11, SumZero
<1>17. SumFunctionOnSet(Earned, Addr) = n * (p + q)
  <2>1. SumFunctionOnSet(Earned, Addr) = 0 + p * n + q * n
    BY <1>5, <1>8, <1>13, <1>15, <1>16
  <2>2. 0 + p * n + q * n = n * (p + q)
    BY <1>1, <1>4
  <2> QED BY <2>1, <2>2
<1> QED BY <1>17 DEF Earned, n, settled, p, q

(* At any time a referee has one referrer, both have earned for it exactly *)
(* once, and only after its first shield: a pending referral and a signed  *)
(* request settle the same one through any overlap, failure or restart.    *)
THEOREM ReferralsCorrect == ServicesSpec => []ReferralsAgree
<1>1. ServicesInit => PointsInv
  <2> SUFFICES ASSUME ServicesInit PROVE PointsInv
    OBVIOUS
  <2>1. PointsInit
    BY DEF ServicesInit
  <2>2. GoodLedger(emptyState)
    <3>1. LedgerTypes(emptyState)
      BY DEF LedgerTypes, emptyState, NoReferrers
    <3>2. BothKnow(emptyState) /\ ShieldedFirst(emptyState)
      BY PointsAssumption DEF BothKnow, ShieldedFirst, emptyState, NoReferrers
    <3> QED BY <3>1, <3>2 DEF GoodLedger
  <2>3. emptyState.lastBlock \in Nat
    BY DEF emptyState
  <2>4. IndexerTypes
    BY <2>1 DEF PointsInit, IndexerTypes, IndexerResting
  <2>5. RequestTypes /\ DOMAIN request = Request
    BY <2>1 DEF PointsInit, RequestTypes, NoRequest
  <2> QED BY <2>1, <2>2, <2>3, <2>4, <2>5 DEF PointsInit, PointsInv
<1>2. PointsInv => ReferralsAgree
  <2> SUFFICES ASSUME PointsInv, NEW L \in {state, disk}
               PROVE  LET settled == {a \in Addr : L.referredBy[a] # None}
                          earned  == SumFunctionOnSet([a \in Addr |-> pointsFor(L, a).referral], Addr)
                      IN  /\ \A a, b \in Addr : b \in L.referrals[a] <=> L.referredBy[b] = a
                          /\ \A a \in settled : L.shields[a] > 0
                          /\ earned = Cardinality(settled) * (rules.referrer + rules.referee)
    BY DEF ReferralsAgree
  <2>1. GoodLedger(L)
    BY DEF PointsInv
  <2> QED BY <2>1, EarnedTogether DEF GoodLedger, BothKnow, ShieldedFirst
<1> QED BY <1>1, <1>2, OwnSteps, PointsStep, PTL DEF ServicesSpec

-----------------------------------------------------------------------------
(* The pages of the bridge. A flow with an address whose key the user has  *)
(* not set aside is the only one that runs, or was the last to begin: its  *)
(* key is in the slot until it ends, and a cash-out's in the order after.  *)
FlowTypes ==
  /\ DOMAIN flow = Flow /\ DOMAIN funds = Flow
  /\ \A f \in Flow : flow[f] = [kind |-> flow[f].kind, at |-> flow[f].at, asked |-> flow[f].asked,
                                quote |-> flow[f].quote, before |-> flow[f].before, late |-> flow[f].late]
SlotTypes == {slot, stored, pendingEph, shown} \subseteq Flow \cup {NoKey}
QuoteFits == wanted \in Wants /\ (quoted # NoKey /\ ~ late => quoted = wanted)

NewInPool(f) == FlowAt(f, "new") => funds[f] = "pool"
Addressed(f) == AtAddress(f) => HasAddress(f)
OnExchange(f) == funds[f] \in {"exchange", "refunded"} => KindOf(f) = "cashout"
ArrivesIn(f) == FlowAt(f, "arriving") => KindOf(f) = "in"
KindKnown(f) == KindOf(f) \in {"bridge", "wallet", "in", "cashout"}
AsAsked(f) == ~ FlowAt(f, "new") /\ ~ flow[f].late => flow[f].quote = flow[f].asked
WellPlaced(f) == KindKnown(f) /\ NewInPool(f) /\ Addressed(f) /\ OnExchange(f) /\ ArrivesIn(f) /\ AsAsked(f)

HasKey(f) == f \notin crossed /\ HasAddress(f) /\ ~ FlowAt(f, "new")
InSlot(f) == HasKey(f) /\ ~ FlowAt(f, "done") =>
  slot = f /\ \A g \in Flow : HasAddress(g) /\ Running(g) => g = f
NoOrderYet(f) == HasKey(f) /\ KindOf(f) = "cashout" /\ Running(f) => stored = NoKey /\ shown = NoKey
InOrder(f) == HasKey(f) /\ KindOf(f) = "cashout" /\ FlowAt(f, "done") =>
  stored = f /\ shown \in {NoKey, f} /\ \A g \in Flow : Running(g) => OnCard(g)
Held(f) == InSlot(f) /\ NoOrderYet(f) /\ InOrder(f)

BridgeInv == FlowTypes /\ SlotTypes /\ QuoteFits /\ \A f \in Flow : WellPlaced(f) /\ Held(f)

(* What a step leaves of a flow.                                           *)
SameFlow(f) == /\ KindOf(f)' = KindOf(f) /\ flow'[f].asked = flow[f].asked
               /\ flow'[f].quote = flow[f].quote /\ flow'[f].late = flow[f].late
(* It ends or goes on, but does not begin; `done` is the card's end.       *)
GoesOn(f) == /\ SameFlow(f) /\ (FlowAt(f, "new")' <=> FlowAt(f, "new")) /\ (Running(f)' => Running(f))
             /\ HasAddress(f) => (FlowAt(f, "done")' <=> FlowAt(f, "done"))

(* A step of one flow leaves the others where they are.                    *)
LEMMA StageStep ==
  ASSUME FlowTypes, NEW f \in Flow, NEW stage, FlowTo(f, stage), DOMAIN funds' = Flow
  PROVE  /\ FlowTypes' /\ flow'[f].at = stage
         /\ \A g \in Flow : SameFlow(g) /\ (g # f => flow'[g].at = flow[g].at)
<1>1. flow' = [flow EXCEPT ![f].at = stage]
  BY DEF FlowTo
<1>2. DOMAIN flow' = Flow
  BY <1>1 DEF FlowTypes
<1>3. \A g \in Flow : g # f => flow'[g] = flow[g]
  BY <1>1 DEF FlowTypes
<1>4. flow'[f] = [flow[f] EXCEPT !.at = stage]
  BY <1>1 DEF FlowTypes
<1>5. flow[f] = [kind |-> flow[f].kind, at |-> flow[f].at, asked |-> flow[f].asked,
                 quote |-> flow[f].quote, before |-> flow[f].before, late |-> flow[f].late]
  BY DEF FlowTypes
<1>6. flow'[f] = [kind |-> flow[f].kind, at |-> stage, asked |-> flow[f].asked,
                  quote |-> flow[f].quote, before |-> flow[f].before, late |-> flow[f].late]
  BY <1>4, <1>5
<1>7. SameFlow(f) /\ flow'[f].at = stage
  BY <1>6 DEF SameFlow, KindOf
<1>8. ASSUME NEW g \in Flow, g # f PROVE SameFlow(g) /\ flow'[g].at = flow[g].at
  BY <1>3, <1>8 DEF SameFlow, KindOf
<1>9. FlowTypes'
  <2> SUFFICES ASSUME NEW g \in Flow
               PROVE  flow'[g] = [kind |-> flow'[g].kind, at |-> flow'[g].at, asked |-> flow'[g].asked,
                                  quote |-> flow'[g].quote, before |-> flow'[g].before, late |-> flow'[g].late]
    BY <1>2 DEF FlowTypes
  <2>1. CASE g = f
    BY <1>6, <2>1
  <2>2. CASE g # f
    BY <1>3, <2>2 DEF FlowTypes
  <2> QED BY <2>1, <2>2
<1> QED BY <1>7, <1>8, <1>9

(* While no flow begins and no key moves, what was held is held.           *)
LEMMA HeldStays ==
  ASSUME NEW f, f \in Flow, Held(f), \A g \in Flow : GoesOn(g), UNCHANGED <<slot, stored, shown, crossed>>
  PROVE  Held(f)'
<1>1. HasKey(f)' => HasKey(f)
  BY DEF HasKey, GoesOn, SameFlow, HasAddress
<1>2. \A g \in Flow : (HasAddress(g)' <=> HasAddress(g)) /\ (OnCard(g)' <=> OnCard(g)) /\ (Running(g)' => Running(g))
  BY DEF GoesOn, SameFlow, HasAddress, OnCard
<1>3. HasKey(f) => (FlowAt(f, "done")' <=> FlowAt(f, "done"))
  BY DEF HasKey, GoesOn
<1>4. InSlot(f)'
  BY <1>1, <1>2, <1>3 DEF Held, InSlot
<1>5. NoOrderYet(f)'
  BY <1>1, <1>2 DEF Held, NoOrderYet, GoesOn, SameFlow
<1>6. InOrder(f)'
  BY <1>1, <1>2, <1>3 DEF Held, InOrder, GoesOn, SameFlow
<1> QED BY <1>4, <1>5, <1>6 DEF Held

(* Where a flow's funds and its stage agree stays so while it rests.       *)
LEMMA PlacedStays ==
  ASSUME NEW f, f \in Flow, WellPlaced(f), SameFlow(f), flow'[f].at = flow[f].at, funds'[f] = funds[f]
  PROVE  WellPlaced(f)'
BY DEF WellPlaced, KindKnown, NewInPool, Addressed, OnExchange, ArrivesIn, AsAsked, SameFlow, FlowAt, AtAddress, HasAddress, KindOf

(* A step that changes nothing about the flows but what is shown.          *)
LEMMA FlowsRest ==
  ASSUME BridgeInv, flow' = flow, SlotTypes', QuoteFits', \A f \in Flow : Held(f)',
         DOMAIN funds' = Flow, \A f \in Flow : funds'[f] \in {funds[f], "wallet", "swept"} /\ (FlowAt(f, "new") => funds'[f] = "pool")
  PROVE  BridgeInv'
<1>1. FlowTypes' /\ \A f \in Flow : WellPlaced(f)
  BY DEF BridgeInv, FlowTypes
<1>2. ASSUME NEW f \in Flow PROVE WellPlaced(f)'
  BY <1>1 DEF WellPlaced, KindKnown, NewInPool, Addressed, OnExchange, ArrivesIn, AsAsked, FlowAt, AtAddress, HasAddress, KindOf
<1> QED BY <1>1, <1>2 DEF BridgeInv

(* The form and the mounting of a component: the key and the order in      *)
(* storage stay.                                                           *)
LEMMA FormStep ==
  ASSUME BridgeInv,
         \/ AskCard \/ UNCHANGED bridgeVars
         \/ \E c \in Wants : TypeCard(c) \/ QuoteCard(c) \/ Visit(c)
  PROVE  BridgeInv'
<1>1. UNCHANGED <<flow, funds, slot, stored, crossed>>
  BY DEF AskCard, TypeCard, QuoteCard, Visit, Mounted, bridgeVars, flowVars
<1>2. shown' \in {shown, stored, NoKey} /\ pendingEph' \in {pendingEph, slot, NoKey}
  BY DEF AskCard, TypeCard, QuoteCard, Visit, Mounted, bridgeVars, tabVars
<1>3. QuoteFits'
  <2>1. CASE AskCard \/ UNCHANGED bridgeVars
    BY <2>1 DEF AskCard, bridgeVars, askVars, BridgeInv, QuoteFits
  <2>2. ASSUME NEW c \in Wants, TypeCard(c) \/ QuoteCard(c) \/ Visit(c) PROVE QuoteFits'
    BY <2>2 DEF TypeCard, QuoteCard, Visit, Mounted, BridgeInv, QuoteFits
  <2> QED BY <2>1, <2>2
<1>4. SlotTypes'
  BY <1>1, <1>2 DEF BridgeInv, SlotTypes
<1>5. ASSUME NEW f \in Flow PROVE Held(f)'
  <2>1. Held(f) /\ (HasKey(f)' <=> HasKey(f))
    BY <1>1 DEF BridgeInv, HasKey, HasAddress, KindOf, FlowAt
  <2>2. InSlot(f)'
    BY <1>1, <2>1 DEF Held, InSlot, FlowAt, HasAddress, KindOf, Running
  <2>3. NoOrderYet(f)'
    BY <1>1, <1>2, <2>1 DEF Held, NoOrderYet, KindOf, Running
  <2>4. InOrder(f)'
    BY <1>1, <1>2, <2>1 DEF Held, InOrder, KindOf, Running, FlowAt, OnCard
  <2> QED BY <2>2, <2>3, <2>4 DEF Held
<1>6. \A f \in Flow : FlowAt(f, "new") => funds'[f] = "pool"
  BY <1>1 DEF BridgeInv, WellPlaced, NewInPool
<1> QED BY <1>1, <1>3, <1>4, <1>5, <1>6, FlowsRest DEF BridgeInv, FlowTypes

(* A reload ends every flow where it is.                                   *)
LEMMA ReloadStep ==
  ASSUME BridgeInv, NEW c \in Wants, Reload(c) PROVE BridgeInv'
<1>1. flow' = [f \in Flow |-> IF Running(f) THEN [flow[f] EXCEPT !.at = "gone"] ELSE flow[f]]
  BY DEF Reload
<1>2. /\ shown' \in {stored, NoKey} /\ pendingEph' \in {slot, NoKey} /\ quoted' = NoKey /\ wanted' = c
      /\ UNCHANGED <<funds, slot, stored, crossed>>
  BY DEF Reload, Mounted
<1>3. ASSUME NEW f \in Flow
      PROVE  /\ SameFlow(f) /\ flow'[f].at = (IF Running(f) THEN "gone" ELSE flow[f].at)
             /\ flow'[f] = [kind |-> flow'[f].kind, at |-> flow'[f].at, asked |-> flow'[f].asked,
                            quote |-> flow'[f].quote, before |-> flow'[f].before, late |-> flow'[f].late]
  <2>1. flow[f] = [kind |-> flow[f].kind, at |-> flow[f].at, asked |-> flow[f].asked,
                   quote |-> flow[f].quote, before |-> flow[f].before, late |-> flow[f].late]
    BY DEF BridgeInv, FlowTypes
  <2>2. CASE Running(f)
    <3>1. flow'[f] = [flow[f] EXCEPT !.at = "gone"]
      BY <1>1, <2>2
    <3>2. flow'[f] = [kind |-> flow[f].kind, at |-> "gone", asked |-> flow[f].asked,
                      quote |-> flow[f].quote, before |-> flow[f].before, late |-> flow[f].late]
      BY <2>1, <3>1
    <3> QED BY <2>2, <3>2 DEF SameFlow, KindOf
  <2>3. CASE ~ Running(f)
    <3>1. flow'[f] = flow[f]
      BY <1>1, <2>3
    <3> QED BY <2>1, <2>3, <3>1 DEF SameFlow, KindOf
  <2> QED BY <2>2, <2>3
<1>4. FlowTypes' /\ SlotTypes' /\ QuoteFits'
  <2>1. DOMAIN flow' = Flow
    BY <1>1
  <2>2. FlowTypes'
    BY <1>2, <1>3, <2>1 DEF BridgeInv, FlowTypes
  <2> QED BY <1>2, <2>2 DEF BridgeInv, SlotTypes, QuoteFits
<1>5. ASSUME NEW f \in Flow
      PROVE  /\ GoesOn(f) /\ ~ Running(f)' /\ (FlowAt(f, "done")' <=> FlowAt(f, "done"))
             /\ (FlowAt(f, "arriving")' => FlowAt(f, "arriving"))
  <2>1. CASE Running(f)
    BY <1>3, <2>1 DEF GoesOn, FlowAt, Running
  <2>2. CASE ~ Running(f)
    BY <1>3, <2>2 DEF GoesOn, FlowAt, Running
  <2> QED BY <2>1, <2>2
<1>6. ASSUME NEW f \in Flow PROVE WellPlaced(f)'
  <2>1. WellPlaced(f) /\ SameFlow(f)
    BY <1>3 DEF BridgeInv
  <2>2. KindKnown(f)' /\ NewInPool(f)' /\ ArrivesIn(f)' /\ AsAsked(f)'
    BY <1>2, <1>5, <2>1 DEF WellPlaced, KindKnown, NewInPool, ArrivesIn, AsAsked, GoesOn, SameFlow
  <2>3. Addressed(f)' /\ OnExchange(f)'
    BY <1>2, <2>1 DEF WellPlaced, Addressed, OnExchange, SameFlow, AtAddress, HasAddress
  <2> QED BY <2>2, <2>3 DEF WellPlaced
<1>7. ASSUME NEW f \in Flow PROVE Held(f)'
  <2>1. Held(f) /\ (HasKey(f)' => HasKey(f))
    BY <1>2, <1>5 DEF BridgeInv, HasKey, GoesOn, SameFlow, HasAddress
  <2>2. InSlot(f)'
    BY <1>2, <1>5, <2>1 DEF Held, InSlot
  <2>3. NoOrderYet(f)'
    BY <1>5 DEF NoOrderYet
  <2>4. InOrder(f)'
    BY <1>2, <1>5, <2>1 DEF Held, InOrder, GoesOn, SameFlow
  <2> QED BY <2>2, <2>3, <2>4 DEF Held
<1> QED BY <1>4, <1>6, <1>7 DEF BridgeInv

(* What the user does with a key or an order: the keys that leave storage  *)
(* are set aside.                                                          *)
LEMMA KeysStep ==
  ASSUME BridgeInv, recoverEph \/ Watched \/ sweepRefund \/ clearOrder PROVE BridgeInv'
<1>1. flow' = flow /\ crossed \subseteq crossed'
  BY DEF recoverEph, Watched, sweepRefund, clearOrder, flowVars
<1>2. QuoteFits'
  BY DEF recoverEph, Watched, sweepRefund, clearOrder, askVars, BridgeInv, QuoteFits
<1>3. SlotTypes'
  BY DEF recoverEph, Watched, sweepRefund, clearOrder, tabVars, BridgeInv, SlotTypes
<1>4. /\ DOMAIN funds' = Flow
      /\ \A f \in Flow : funds'[f] = funds[f] \/ (AtAddress(f) /\ funds'[f] = "wallet")
                         \/ (funds[f] = "refunded" /\ funds'[f] = "swept")
  <2>1. CASE recoverEph
    <3>1. funds' = [funds EXCEPT ![pendingEph] = IF AtAddress(pendingEph) THEN "wallet" ELSE @]
      BY <2>1 DEF recoverEph
    <3> QED BY <3>1 DEF BridgeInv, FlowTypes, AtAddress
  <2>2. CASE sweepRefund
    <3>1. funds[shown] = "refunded" /\ funds' = [funds EXCEPT ![shown] = "swept"]
      BY <2>2 DEF sweepRefund, Move
    <3> QED BY <3>1 DEF BridgeInv, FlowTypes
  <2>3. CASE Watched \/ clearOrder
    BY <2>3 DEF Watched, clearOrder, flowVars, BridgeInv, FlowTypes
  <2> QED BY <2>1, <2>2, <2>3
<1>5. ASSUME NEW f \in Flow PROVE Held(f)'
  <2>1. Held(f) /\ (HasKey(f)' => HasKey(f))
    BY <1>1 DEF BridgeInv, HasKey, HasAddress, KindOf, FlowAt
  <2>2. CASE sweepRefund
    BY <2>1, <2>2 DEF sweepRefund, tabVars, Held, InSlot, NoOrderYet, InOrder, HasKey, HasAddress, KindOf, FlowAt, Running, OnCard
  <2>3. CASE recoverEph
    <3>1. UNCHANGED <<flow, stored, shown>> /\ (HasKey(f)' => slot # f)
      <4>1. slot = f /\ slot # NoKey => f \in crossed'
        BY <2>3 DEF recoverEph
      <4> QED BY <2>3, <4>1, BridgeOutAssumption DEF recoverEph, HasKey
    <3> QED BY <2>1, <3>1 DEF Held, InSlot, NoOrderYet, InOrder, HasAddress, KindOf, FlowAt, Running, OnCard
  <2>4. CASE clearOrder
    <3>1. UNCHANGED <<flow, slot>> /\ stored' = NoKey /\ shown' = NoKey /\ (HasKey(f)' => stored # f)
      <4>1. stored = f /\ stored # NoKey => f \in crossed'
        BY <2>4 DEF clearOrder
      <4> QED BY <2>4, <4>1, BridgeOutAssumption DEF clearOrder, flowVars, HasKey
    <3> QED BY <2>1, <3>1 DEF Held, InSlot, NoOrderYet, InOrder, HasAddress, KindOf, FlowAt, Running, OnCard
  <2>5. CASE Watched
    <3>1. UNCHANGED <<flow, slot, shown>> /\ stored' = shown /\ shown # NoKey
      BY <2>5 DEF Watched, flowVars, tabVars
    <3> QED BY <2>1, <3>1 DEF Held, InSlot, NoOrderYet, InOrder, HasAddress, KindOf, FlowAt, Running, OnCard
  <2> QED BY <2>2, <2>3, <2>4, <2>5
<1>6. ASSUME NEW f \in Flow, FlowAt(f, "new") PROVE funds'[f] = "pool"
  BY <1>4, <1>6 DEF BridgeInv, WellPlaced, NewInPool, AtAddress
<1> QED BY <1>1, <1>2, <1>3, <1>4, <1>5, <1>6, FlowsRest

(* A flow that runs goes one stage on, and its funds may move.             *)
LEMMA RunsOn ==
  ASSUME BridgeInv, NEW f \in Flow, Running(f), NEW stage, FlowTo(f, stage), stage \notin {"new", "arriving"},
         stage = "done" => ~ HasAddress(f),
         DOMAIN funds' = Flow, \A g \in Flow : g # f => funds'[g] = funds[g],
         AtAddress(f)' => HasAddress(f), funds'[f] \in {"exchange", "refunded"} => funds'[f] = funds[f],
         UNCHANGED <<slot, stored, shown, crossed, pendingEph, askVars>>
  PROVE  BridgeInv'
<1>1. /\ FlowTypes' /\ flow'[f].at = stage
      /\ \A g \in Flow : SameFlow(g) /\ (g # f => flow'[g].at = flow[g].at)
  BY StageStep DEF BridgeInv
<1>2. SlotTypes' /\ QuoteFits'
  BY DEF BridgeInv, SlotTypes, QuoteFits, askVars
<1>3. ASSUME NEW g \in Flow PROVE GoesOn(g)
  <2>1. CASE g = f
    <3>1. FlowAt(f, "done")' => ~ HasAddress(f)
      BY <1>1 DEF FlowAt
    <3> QED BY <1>1, <2>1, <3>1 DEF GoesOn, FlowAt, Running
  <2>2. CASE g # f
    BY <1>1, <2>2 DEF GoesOn, FlowAt, Running
  <2> QED BY <2>1, <2>2
<1>4. \A g \in Flow : Held(g)'
  BY <1>3, HeldStays DEF BridgeInv
<1>5. WellPlaced(f)'
  <2>1. WellPlaced(f) /\ SameFlow(f) /\ ~ FlowAt(f, "new") /\ ~ FlowAt(f, "new")' /\ ~ FlowAt(f, "arriving")'
    BY <1>1 DEF BridgeInv, FlowAt, Running
  <2>2. KindKnown(f)' /\ NewInPool(f)' /\ ArrivesIn(f)' /\ AsAsked(f)'
    BY <2>1 DEF WellPlaced, KindKnown, NewInPool, ArrivesIn, AsAsked, SameFlow
  <2>3. Addressed(f)' /\ OnExchange(f)'
    BY <2>1 DEF WellPlaced, Addressed, OnExchange, SameFlow, HasAddress
  <2> QED BY <2>2, <2>3 DEF WellPlaced
<1>6. \A g \in Flow : g # f => WellPlaced(g)'
  BY <1>1, PlacedStays DEF BridgeInv
<1> QED BY <1>1, <1>2, <1>4, <1>5, <1>6 DEF BridgeInv

(* The relayer, the bridge and the exchange move funds while flows rest.   *)
LEMMA FundsStep ==
  ASSUME BridgeInv, NEW f \in Flow, UnshieldMined(f) \/ Relayed(f) \/ Exchanged(f) PROVE BridgeInv'
<1>1. UNCHANGED <<flow, slot, stored, pendingEph, shown, crossed, quoted, wanted, late>>
  BY DEF UnshieldMined, Relayed, Exchanged, tabVars, askVars
<1>2. PICK place : Move(f, place)
  BY DEF UnshieldMined, Relayed, Exchanged
<1>3. DOMAIN funds' = Flow /\ funds'[f] = place /\ \A g \in Flow : g # f => funds'[g] = funds[g]
  BY <1>2 DEF Move, BridgeInv, FlowTypes
<1>4. WellPlaced(f) /\ ~ FlowAt(f, "new")
  BY DEF UnshieldMined, Relayed, Exchanged, BridgeInv, WellPlaced, NewInPool
<1>5. /\ place \in {"token", "ether"} => HasAddress(f)
      /\ place \in {"exchange", "refunded"} => KindOf(f) = "cashout"
  <2>1. CASE UnshieldMined(f)
    BY <1>3, <2>1 DEF UnshieldMined, Move, BridgeInv, FlowTypes
  <2>2. CASE Relayed(f)
    <3>1. /\ place = "exchange" => KindOf(f) = "cashout"
          /\ place = "ether" => KindOf(f) \notin {"wallet", "in"}
          /\ place \notin {"token", "refunded"}
      BY <1>3, <2>2 DEF Relayed, Move, BridgeInv, FlowTypes
    <3> QED BY <1>4, <3>1 DEF WellPlaced, KindKnown, HasAddress
  <2>3. CASE Exchanged(f)
    <3>1. place \in {"delivered", "refunded"} /\ funds[f] = "exchange"
      BY <1>3, <2>3 DEF Exchanged, Move, BridgeInv, FlowTypes
    <3> QED BY <1>4, <3>1 DEF WellPlaced, OnExchange
  <2> QED BY <2>1, <2>2, <2>3
<1>6. WellPlaced(f)'
  BY <1>1, <1>3, <1>4, <1>5 DEF WellPlaced, KindKnown, NewInPool, Addressed, OnExchange, ArrivesIn, AsAsked,
     FlowAt, AtAddress, HasAddress, KindOf
<1>7. \A g \in Flow : SameFlow(g) /\ GoesOn(g)
  BY <1>1 DEF SameFlow, GoesOn, KindOf, FlowAt, Running, HasAddress
<1>8. \A g \in Flow : Held(g)'
  BY <1>1, <1>7, HeldStays DEF BridgeInv
<1>9. \A g \in Flow : g # f => WellPlaced(g)'
  BY <1>1, <1>3, <1>7, PlacedStays DEF BridgeInv
<1>10. FlowTypes' /\ SlotTypes' /\ QuoteFits'
  BY <1>1, <1>3 DEF BridgeInv, FlowTypes, SlotTypes, QuoteFits
<1> QED BY <1>6, <1>8, <1>9, <1>10 DEF BridgeInv

(* What arrived is shielded, and a bridge in ends.                         *)
LEMMA ArrivedStep ==
  ASSUME BridgeInv, NEW f \in Flow, ShieldArrived(f) PROVE BridgeInv'
<1>1. FlowTo(f, "done") /\ FlowAt(f, "arriving")
      /\ UNCHANGED <<slot, stored, pendingEph, shown, crossed, quoted, wanted, late>>
  BY DEF ShieldArrived, Ended, askVars
<1>2. DOMAIN funds' = Flow /\ \A g \in Flow : funds'[g] \in {funds[g], "pool"}
  BY DEF ShieldArrived, BridgeInv, FlowTypes
<1>3. /\ FlowTypes' /\ flow'[f].at = "done"
      /\ \A g \in Flow : SameFlow(g) /\ (g # f => flow'[g].at = flow[g].at)
  BY <1>1, <1>2, StageStep DEF BridgeInv
<1>4. KindOf(f) = "in"
  BY <1>1 DEF BridgeInv, WellPlaced, ArrivesIn
<1>5. ASSUME NEW g \in Flow PROVE GoesOn(g)
  <2>1. CASE g = f
    BY <1>1, <1>3, <1>4, <2>1 DEF GoesOn, FlowAt, Running, HasAddress
  <2>2. CASE g # f
    BY <1>3, <2>2 DEF GoesOn, FlowAt, Running
  <2> QED BY <2>1, <2>2
<1>6. \A g \in Flow : Held(g)'
  BY <1>1, <1>5, HeldStays DEF BridgeInv
<1>7. ASSUME NEW g \in Flow PROVE WellPlaced(g)'
  <2>1. WellPlaced(g) /\ SameFlow(g) /\ funds'[g] \in {funds[g], "pool"} /\ flow'[g].at \in {flow[g].at, "done"}
    BY <1>2, <1>3 DEF BridgeInv
  <2>2. KindKnown(g)' /\ NewInPool(g)' /\ ArrivesIn(g)' /\ AsAsked(g)'
    BY <1>5, <2>1 DEF WellPlaced, KindKnown, NewInPool, ArrivesIn, AsAsked, GoesOn, SameFlow, FlowAt
  <2>3. Addressed(g)' /\ OnExchange(g)'
    BY <2>1 DEF WellPlaced, Addressed, OnExchange, SameFlow, HasAddress, AtAddress
  <2> QED BY <2>2, <2>3 DEF WellPlaced
<1>8. SlotTypes' /\ QuoteFits'
  BY <1>1 DEF BridgeInv, SlotTypes, QuoteFits
<1> QED BY <1>3, <1>6, <1>7, <1>8 DEF BridgeInv

(* The end of tracking: a key leaves the slot, or goes into the order, only*)
(* for its own flow, if the user has not set it aside.                     *)
LEMMA TrackedStep ==
  ASSUME BridgeInv, NEW f \in Flow, Tracked(f) PROVE BridgeInv'
<1>1. UNCHANGED <<funds, pendingEph, crossed, quoted, wanted, late>> /\ FlowAt(f, "tracking") /\ Running(f)
  BY DEF Tracked, askVars, FlowAt, Running
<1>2. PICK s \in relayStatus(f) :
        LET refunded == s \in {"failure", "refund"}
            arriving == KindOf(f) = "in" /\ s = "success"
            ordered == ~ OnCard(f) /\ ~ refunded
        IN  /\ IF arriving THEN FlowTo(f, "arriving")
               ELSE Ended(f, IF refunded /\ ~ OnCard(f) THEN "failed" ELSE "done")
            /\ slot' = KeyAfter(f, refunded)
            /\ stored' = IF ordered THEN f ELSE stored
            /\ shown' = IF ordered /\ f \in waits THEN f ELSE shown
  BY DEF Tracked
<1> DEFINE refunded == s \in {"failure", "refund"}
<1>3. PICK stage : /\ FlowTo(f, stage)
                   /\ stage = (IF KindOf(f) = "in" /\ s = "success" THEN "arriving"
                               ELSE IF refunded /\ ~ OnCard(f) THEN "failed" ELSE "done")
  BY <1>2 DEF Ended
<1>4. /\ slot' = KeyAfter(f, refunded)
      /\ stored' = (IF ~ OnCard(f) /\ ~ refunded THEN f ELSE stored)
      /\ shown' = (IF ~ OnCard(f) /\ ~ refunded /\ f \in waits THEN f ELSE shown)
  BY <1>2
<1> HIDE DEF refunded
<1>5. DOMAIN funds' = Flow
  BY <1>1 DEF BridgeInv, FlowTypes
<1>6. /\ FlowTypes' /\ flow'[f].at = stage
      /\ \A g \in Flow : SameFlow(g) /\ (g # f => flow'[g].at = flow[g].at)
  BY <1>3, <1>5, StageStep DEF BridgeInv
<1>7. SlotTypes' /\ QuoteFits'
  BY <1>1, <1>4 DEF BridgeInv, SlotTypes, QuoteFits, KeyAfter
<1>8. stage \in {"arriving", "failed", "done"} /\ (HasAddress(f) => stage # "arriving")
  BY <1>3 DEF HasAddress
<1>9. ASSUME NEW g \in Flow PROVE WellPlaced(g)'
  <2>1. CASE g = f
    <3>1. WellPlaced(f) /\ SameFlow(f) /\ ~ FlowAt(f, "new") /\ ~ FlowAt(f, "new")'
          /\ (FlowAt(f, "arriving")' => KindOf(f) = "in")
      BY <1>1, <1>3, <1>6, <1>8 DEF BridgeInv, FlowAt
    <3>2. KindKnown(f)' /\ NewInPool(f)' /\ ArrivesIn(f)' /\ AsAsked(f)'
      BY <3>1 DEF WellPlaced, KindKnown, NewInPool, ArrivesIn, AsAsked, SameFlow
    <3>3. Addressed(f)' /\ OnExchange(f)'
      BY <1>1, <3>1 DEF WellPlaced, Addressed, OnExchange, SameFlow, HasAddress, AtAddress
    <3> QED BY <2>1, <3>2, <3>3 DEF WellPlaced
  <2>2. CASE g # f
    BY <1>1, <1>6, <2>2, PlacedStays DEF BridgeInv
  <2> QED BY <2>1, <2>2
<1>10. \A g \in Flow : /\ (HasAddress(g)' <=> HasAddress(g))
                       /\ (OnCard(g)' <=> OnCard(g))
                       /\ HasAddress(g) /\ Running(g)' => Running(g) /\ g # f
  <2> SUFFICES ASSUME NEW g \in Flow
               PROVE  /\ (HasAddress(g)' <=> HasAddress(g)) /\ (OnCard(g)' <=> OnCard(g))
                      /\ HasAddress(g) /\ Running(g)' => Running(g) /\ g # f
    OBVIOUS
  <2>1. (HasAddress(g)' <=> HasAddress(g)) /\ (OnCard(g)' <=> OnCard(g))
    BY <1>6 DEF SameFlow, HasAddress, OnCard
  <2>2. CASE g = f
    BY <1>6, <1>8, <2>1, <2>2 DEF Running
  <2>3. CASE g # f
    BY <1>6, <2>1, <2>3 DEF Running
  <2> QED BY <2>1, <2>2, <2>3
<1>11. ASSUME NEW g \in Flow, g # f PROVE Held(g)'
  <2>1. Held(g) /\ (HasKey(g)' <=> HasKey(g)) /\ (FlowAt(g, "done")' <=> FlowAt(g, "done"))
        /\ KindOf(g)' = KindOf(g) /\ (Running(g)' <=> Running(g))
    BY <1>1, <1>6, <1>11 DEF BridgeInv, HasKey, SameFlow, HasAddress, FlowAt, Running
  <2>2. HasAddress(f) => ~ (HasKey(g) /\ ~ FlowAt(g, "done"))
    BY <1>1, <1>11, <2>1 DEF Held, InSlot
  <2>3. ~ HasAddress(f) => slot' = slot
    BY <1>4 DEF KeyAfter
  <2>4. InSlot(g)'
    BY <1>10, <2>1, <2>2, <2>3 DEF Held, InSlot
  <2>5. OnCard(f) => stored' = stored /\ shown' = shown
    BY <1>4
  <2>6. ~ OnCard(f) => HasAddress(f)
    BY DEF OnCard, HasAddress
  <2>7. NoOrderYet(g)'
    <3>1. Running(g) => ~ FlowAt(g, "done")
      BY DEF Running, FlowAt
    <3> QED BY <2>1, <2>2, <2>5, <2>6, <3>1 DEF Held, NoOrderYet
  <2>8. InOrder(g)'
    <3> SUFFICES ASSUME HasKey(g), KindOf(g) = "cashout", FlowAt(g, "done")
                 PROVE  stored' = g /\ shown' \in {NoKey, g} /\ \A h \in Flow : Running(h)' => OnCard(h)'
      BY <2>1 DEF InOrder
    <3>1. stored = g /\ shown \in {NoKey, g} /\ \A h \in Flow : Running(h) => OnCard(h)
      BY <2>1 DEF Held, InOrder
    <3>2. OnCard(f)
      BY <1>1, <3>1
    <3>3. ASSUME NEW h \in Flow, Running(h)' PROVE OnCard(h)'
      BY <1>10, <3>1, <3>3 DEF OnCard, HasAddress
    <3> QED BY <2>5, <3>1, <3>2, <3>3
  <2> QED BY <2>4, <2>7, <2>8 DEF Held
<1>12. Held(f)'
  <2> SUFFICES ASSUME HasKey(f)' PROVE Held(f)'
    BY DEF Held, InSlot, NoOrderYet, InOrder
  <2>1. Held(f) /\ HasKey(f) /\ HasAddress(f) /\ ~ FlowAt(f, "done")
    BY <1>1, <1>6 DEF BridgeInv, HasKey, SameFlow, HasAddress, FlowAt
  <2>2. slot = f /\ \A g \in Flow : HasAddress(g) /\ Running(g) => g = f
    BY <2>1 DEF Held, InSlot
  <2>3. \A g \in Flow : HasAddress(g)' => ~ Running(g)'
    BY <1>10, <2>2
  <2>4. InSlot(f)'
    <3> SUFFICES ASSUME stage # "done" PROVE slot' = f
      BY <1>6, <2>3 DEF InSlot, FlowAt
    <3>1. refunded /\ ~ OnCard(f)
      BY <1>3, <2>1 DEF HasAddress
    <3> QED BY <1>4, <2>2, <3>1 DEF KeyAfter
  <2>5. NoOrderYet(f)'
    BY <2>3 DEF NoOrderYet, HasAddress
  <2>6. InOrder(f)'
    <3> SUFFICES ASSUME KindOf(f) = "cashout", stage = "done"
                 PROVE  stored' = f /\ shown' \in {NoKey, f} /\ \A g \in Flow : Running(g)' => OnCard(g)'
      BY <1>6 DEF InOrder, SameFlow, FlowAt
    <3>1. ~ OnCard(f) /\ ~ refunded
      BY <1>3 DEF OnCard
    <3>2. shown = NoKey
      BY <1>1, <2>1 DEF Held, NoOrderYet
    <3>3. \A g \in Flow : Running(g)' => OnCard(g)'
      BY <2>3 DEF OnCard, HasAddress
    <3> QED BY <1>4, <3>1, <3>2, <3>3
  <2> QED BY <2>4, <2>5, <2>6 DEF Held
<1> QED BY <1>6, <1>7, <1>9, <1>11, <1>12 DEF BridgeInv

(* A flow begins: it takes the slot from no key that is not set aside.     *)
LEMMA StartStep ==
  ASSUME BridgeInv, NEW f \in Flow, Start(f) PROVE BridgeInv'
<1>1. FlowAt(f, "new") /\ UNCHANGED <<stored, pendingEph, shown, quoted, wanted, late>>
  BY DEF Start, askVars
<1>2. PICK kind \in KindsOn(wanted.page) :
        LET address == kind \in {"bridge", "cashout"}
        IN  /\ MayStart(kind)
            /\ flow' = [flow EXCEPT ![f] =
                 [ kind |-> kind,
                   at |-> CASE address -> "seeding" [] kind = "wallet" -> "unshielding" [] OTHER -> "depositing",
                   asked |-> wanted,
                   quote |-> IF wanted.page = "out" THEN wanted ELSE quoted,
                   before |-> IF kind = "in" THEN InWallet ELSE {},
                   late |-> late ]]
            /\ slot' = IF address THEN f ELSE slot
            /\ funds' = IF kind = "in" THEN [funds EXCEPT ![f] = "away"] ELSE funds
            /\ crossed' = crossed \cup Crosses(f, kind)
  BY DEF Start
<1> DEFINE address == kind \in {"bridge", "cashout"}
           at == CASE address -> "seeding" [] kind = "wallet" -> "unshielding" [] OTHER -> "depositing"
           qu == IF wanted.page = "out" THEN wanted ELSE quoted
           be == IF kind = "in" THEN InWallet ELSE {}
           as == wanted
           la == late
<1>3. /\ MayStart(kind) /\ as = wanted /\ la = late /\ qu = IF wanted.page = "out" THEN wanted ELSE quoted
      /\ flow' = [flow EXCEPT ![f] = [kind |-> kind, at |-> at, asked |-> as, quote |-> qu, before |-> be, late |-> la]]
      /\ at \in {"seeding", "unshielding", "depositing"}
      /\ slot' = (IF kind \in {"bridge", "cashout"} THEN f ELSE slot)
      /\ funds' = (IF kind = "in" THEN [funds EXCEPT ![f] = "away"] ELSE funds)
      /\ crossed' = crossed \cup Crosses(f, kind)
  BY <1>2
<1>4. kind \in {"bridge", "wallet", "in", "cashout"}
  <2>1. wanted \in Wants
    BY DEF BridgeInv, QuoteFits
  <2>2. wanted.page \in {"out", "in", "cashout"}
    BY <2>1, BridgeOutAssumption
  <2> QED BY <2>2 DEF KindsOn
<1> HIDE DEF at, as, qu, be, la
<1>5. /\ DOMAIN flow' = Flow /\ \A g \in Flow : g # f => flow'[g] = flow[g]
      /\ flow'[f] = [kind |-> kind, at |-> at, asked |-> as, quote |-> qu, before |-> be, late |-> la]
  BY <1>3 DEF BridgeInv, FlowTypes
<1>6. /\ DOMAIN funds' = Flow /\ \A g \in Flow : g # f => funds'[g] = funds[g]
      /\ funds[f] = "pool" /\ funds'[f] \in {"pool", "away"}
  BY <1>1, <1>3 DEF BridgeInv, FlowTypes, WellPlaced, NewInPool
<1>7. flow'[f].kind = kind /\ flow'[f].at = at /\ flow'[f].asked = as /\ flow'[f].quote = qu /\ flow'[f].late = la
  BY <1>5
<1>8. FlowTypes'
  <2> SUFFICES ASSUME NEW g \in Flow
               PROVE  flow'[g] = [kind |-> flow'[g].kind, at |-> flow'[g].at, asked |-> flow'[g].asked,
                                  quote |-> flow'[g].quote, before |-> flow'[g].before, late |-> flow'[g].late]
    BY <1>5, <1>6 DEF FlowTypes
  <2>1. CASE g = f
    BY <1>5, <2>1
  <2>2. CASE g # f
    BY <1>5, <2>2 DEF BridgeInv, FlowTypes
  <2> QED BY <2>1, <2>2
<1>9. SlotTypes' /\ QuoteFits'
  BY <1>1, <1>3 DEF BridgeInv, SlotTypes, QuoteFits
<1>10. \A g \in Flow : g # f => SameFlow(g) /\ flow'[g].at = flow[g].at
  BY <1>5 DEF SameFlow, KindOf
<1>11. \A g \in Flow : g # f => WellPlaced(g)'
  BY <1>6, <1>10, PlacedStays DEF BridgeInv
<1>12. WellPlaced(f)'
  <2>1. KindKnown(f)' /\ NewInPool(f)' /\ Addressed(f)' /\ OnExchange(f)' /\ ArrivesIn(f)'
    BY <1>3, <1>4, <1>6, <1>7 DEF KindKnown, NewInPool, Addressed, OnExchange, ArrivesIn, FlowAt, AtAddress, KindOf
  <2>2. AsAsked(f)'
    <3>1. quoted # NoKey
      BY <1>3 DEF MayStart
    <3>2. ~ la => qu = as
      BY <1>3, <3>1 DEF BridgeInv, QuoteFits
    <3> QED BY <1>7, <3>2 DEF AsAsked
  <2> QED BY <2>1, <2>2 DEF WellPlaced
<1>13. \A g \in Flow : g # f => /\ (HasAddress(g)' <=> HasAddress(g)) /\ (OnCard(g)' <=> OnCard(g))
                                 /\ (Running(g)' <=> Running(g)) /\ KindOf(g)' = KindOf(g)
                                 /\ (FlowAt(g, "new")' <=> FlowAt(g, "new")) /\ (FlowAt(g, "done")' <=> FlowAt(g, "done"))
  BY <1>10 DEF SameFlow, HasAddress, OnCard, KindOf, Running, FlowAt
<1>14. (HasAddress(f)' <=> kind \in {"bridge", "cashout"}) /\ (OnCard(f)' <=> kind # "cashout") /\ KindOf(f)' = kind
  BY <1>7 DEF HasAddress, OnCard, KindOf
<1>15. ~ FlowAt(f, "new")' /\ ~ FlowAt(f, "done")' /\ ~ Running(f)
  BY <1>1, <1>3, <1>7 DEF FlowAt, Running
<1>16. kind \in {"bridge", "cashout"} =>
          \A g \in Flow : g \notin crossed' =>
            /\ slot # g
            /\ kind = "cashout" => stored # g
            /\ ~ (HasAddress(g) /\ Running(g))
  <2> SUFFICES ASSUME kind \in {"bridge", "cashout"}, NEW g \in Flow, g \notin crossed'
               PROVE  slot # g /\ (kind = "cashout" => stored # g) /\ ~ (HasAddress(g) /\ Running(g))
    OBVIOUS
  <2>1. g \notin Crosses(f, kind) /\ g # NoKey
    BY <1>3, BridgeOutAssumption
  <2> QED BY <2>1 DEF Crosses
<1>17. ASSUME NEW g \in Flow, g # f PROVE Held(g)'
  <2>1. Held(g) /\ (HasKey(g)' => HasKey(g) /\ g \notin crossed')
    BY <1>3, <1>13, <1>17 DEF BridgeInv, HasKey
  <2>2. CASE kind \in {"bridge", "cashout"}
    <3>1. ~ (HasKey(g)' /\ ~ FlowAt(g, "done"))
      BY <1>16, <2>1, <2>2 DEF Held, InSlot
    <3>2. InSlot(g)'
      BY <1>13, <1>17, <3>1 DEF InSlot
    <3>3. NoOrderYet(g)'
      <4>1. Running(g) => ~ FlowAt(g, "done")
        BY DEF Running, FlowAt
      <4> QED BY <1>13, <1>17, <3>1, <4>1 DEF NoOrderYet
    <3>4. InOrder(g)'
      <4> SUFFICES ASSUME HasKey(g)', KindOf(g) = "cashout", FlowAt(g, "done")
                   PROVE  stored' = g /\ shown' \in {NoKey, g} /\ \A h \in Flow : Running(h)' => OnCard(h)'
        BY <1>13, <1>17 DEF InOrder
      <4>1. stored = g /\ shown \in {NoKey, g} /\ \A h \in Flow : Running(h) => OnCard(h)
        BY <2>1 DEF Held, InOrder
      <4>2. kind # "cashout"
        BY <1>16, <2>1, <2>2, <4>1
      <4>3. ASSUME NEW h \in Flow, Running(h)' PROVE OnCard(h)'
        BY <1>13, <1>14, <4>1, <4>2, <4>3
      <4> QED BY <1>1, <4>1, <4>3
    <3> QED BY <3>2, <3>3, <3>4 DEF Held
  <2>3. CASE kind \notin {"bridge", "cashout"}
    <3>1. slot' = slot /\ OnCard(f)' /\ ~ HasAddress(f)'
      BY <1>3, <1>14, <2>3
    <3>2. \A h \in Flow : /\ HasAddress(h)' /\ Running(h)' => HasAddress(h) /\ Running(h)
                          /\ (Running(h) => OnCard(h)) => (Running(h)' => OnCard(h)')
      BY <1>13, <1>15, <3>1
    <3>3. InSlot(g)'
      BY <1>13, <1>17, <2>1, <3>1, <3>2 DEF Held, InSlot
    <3>4. NoOrderYet(g)'
      BY <1>1, <1>13, <1>17, <2>1 DEF Held, NoOrderYet
    <3>5. InOrder(g)'
      BY <1>1, <1>13, <1>17, <2>1, <3>2 DEF Held, InOrder
    <3> QED BY <3>3, <3>4, <3>5 DEF Held
  <2> QED BY <2>2, <2>3
<1>18. Held(f)'
  <2> SUFFICES ASSUME HasKey(f)' PROVE Held(f)'
    BY DEF Held, InSlot, NoOrderYet, InOrder
  <2>1. kind \in {"bridge", "cashout"} /\ f \notin Crosses(f, kind)
    BY <1>3, <1>14 DEF HasKey
  <2>2. \A g \in Flow : ~ (HasAddress(g) /\ Running(g)) /\ ~ (kind = "cashout" /\ stored = g)
    BY <2>1 DEF Crosses
  <2>3. InSlot(f)'
    <3>1. \A g \in Flow : HasAddress(g)' /\ Running(g)' => g = f
      BY <1>13, <2>2
    <3> QED BY <1>3, <2>1, <3>1 DEF InSlot
  <2>4. NoOrderYet(f)'
    <3> SUFFICES ASSUME kind = "cashout" PROVE stored = NoKey /\ shown = NoKey
      BY <1>1, <1>14 DEF NoOrderYet
    <3>1. stored = NoKey
      BY <2>2 DEF BridgeInv, SlotTypes
    <3> QED BY <1>3, <3>1 DEF MayStart
  <2>5. InOrder(f)'
    BY <1>15 DEF InOrder
  <2> QED BY <2>3, <2>4, <2>5 DEF Held
<1> QED BY <1>8, <1>9, <1>11, <1>12, <1>17, <1>18 DEF BridgeInv

(* What each step of the pages does to the invariant.                      *)
LEMMA BridgeStep == BridgeInv /\ [BridgeOutNext]_bridgeVars => BridgeInv'
<1> SUFFICES ASSUME BridgeInv, [BridgeOutNext]_bridgeVars PROVE BridgeInv'
  OBVIOUS
<1>1. CASE AskCard \/ UNCHANGED bridgeVars \/ \E c \in Wants : TypeCard(c) \/ QuoteCard(c) \/ Visit(c)
  BY <1>1, FormStep
<1>2. ASSUME NEW c \in Wants, Reload(c) PROVE BridgeInv'
  BY <1>2, ReloadStep
<1>3. CASE recoverEph \/ Watched \/ sweepRefund \/ clearOrder
  BY <1>3, KeysStep
<1>4. ASSUME NEW f \in Flow, Seeded(f) \/ Unshield(f) \/ Unshielded(f) \/ Unwrap(f) \/ Deposit(f) \/ Throws(f)
      PROVE  BridgeInv'
  <2>1. PICK stage \in {"unshielding", "awaiting", "unwrapping", "depositing", "tracking", "failed"} : FlowTo(f, stage)
    BY <1>4 DEF Seeded, Unshield, Unshielded, Unwrap, Deposit, Throws, Ended
  <2>2. Running(f) /\ UNCHANGED <<slot, stored, shown, crossed, pendingEph, askVars>>
    BY <1>4 DEF Seeded, Unshield, Unshielded, Unwrap, Deposit, Throws, KeyOnThrow, Running, FlowAt, tabVars
  <2>3. \/ UNCHANGED funds \/ Move(f, "relayer") \/ Move(f, "bridge")
        \/ Move(f, "ether") /\ AtAddress(f)
    BY <1>4 DEF Seeded, Unshield, Unshielded, Unwrap, Deposit, Throws, AtAddress
  <2>4. /\ DOMAIN funds' = Flow /\ \A g \in Flow : g # f => funds'[g] = funds[g]
        /\ funds'[f] \in {funds[f], "relayer", "bridge", "ether"} /\ (AtAddress(f)' => AtAddress(f))
    BY <2>3 DEF BridgeInv, FlowTypes, Move, AtAddress
  <2>5. AtAddress(f)' => HasAddress(f)
    BY <2>4 DEF BridgeInv, WellPlaced, Addressed
  <2>6. stage \notin {"new", "arriving", "done"}
    BY <2>1
  <2> QED BY <2>1, <2>2, <2>4, <2>5, <2>6, RunsOn
<1>5. ASSUME NEW f \in Flow, UnshieldMined(f) \/ Relayed(f) \/ Exchanged(f) PROVE BridgeInv'
  BY <1>5, FundsStep
<1>6. ASSUME NEW f \in Flow, Start(f) PROVE BridgeInv'
  BY <1>6, StartStep
<1>7. ASSUME NEW f \in Flow, Tracked(f) PROVE BridgeInv'
  BY <1>7, TrackedStep
<1>8. ASSUME NEW f \in Flow, ShieldArrived(f) PROVE BridgeInv'
  BY <1>8, ArrivedStep
<1> QED BY <1>1, <1>2, <1>3, <1>4, <1>5, <1>6, <1>7, <1>8 DEF BridgeOutNext

(* For any number of flows, begun and recovered as the user likes: the key *)
(* to funds at a throwaway address, or refunded by the exchange, is in     *)
(* storage unless the user set it aside or the card's flow had ended; and  *)
(* what a flow runs is the quote for what was asked when it was started,   *)
(* but for a quote that came late.                                         *)
THEOREM ExitsCorrect == ServicesSpec => []ExitsSafely
<1>1. ServicesInit => BridgeInv
  <2> SUFFICES ASSUME BridgeOutInit PROVE BridgeInv
    BY DEF ServicesInit
  <2>1. \A f \in Flow : /\ flow[f] = [kind |-> "bridge", at |-> "new", asked |-> NoKey, quote |-> NoKey,
                                        before |-> {}, late |-> FALSE]
                        /\ funds[f] = "pool"
    BY DEF BridgeOutInit
  <2>2. FlowTypes /\ SlotTypes /\ QuoteFits
    BY <2>1 DEF BridgeOutInit, FlowTypes, SlotTypes, QuoteFits
  <2>3. ASSUME NEW f \in Flow PROVE WellPlaced(f) /\ Held(f)
    BY <2>1 DEF WellPlaced, KindKnown, NewInPool, Addressed, OnExchange, ArrivesIn, AsAsked, Held, InSlot, NoOrderYet, InOrder,
       HasKey, FlowAt, AtAddress, KindOf
  <2> QED BY <2>2, <2>3 DEF BridgeInv
<1>2. BridgeInv => ExitsSafely
  <2> SUFFICES ASSUME BridgeInv PROVE ExitsSafely
    OBVIOUS
  <2>1. ASSUME NEW f \in Flow, NeedsKey(f), ~ (OnCard(f) /\ FlowAt(f, "done")) PROVE Kept(f)
    <3>1. WellPlaced(f) /\ Held(f) /\ f \notin crossed /\ (AtAddress(f) \/ funds[f] = "refunded")
      BY <2>1 DEF BridgeInv, NeedsKey
    <3>2. HasAddress(f)
      BY <3>1 DEF WellPlaced, Addressed, OnExchange, HasAddress
    <3>3. HasKey(f)
      BY <3>1, <3>2 DEF WellPlaced, NewInPool, HasKey, AtAddress
    <3> QED BY <2>1, <3>1, <3>3 DEF Held, InSlot, InOrder, Kept, OnCard
  <2> QED BY <2>1 DEF ExitsSafely, KeyKept, MovesAsAsked, BridgeInv, WellPlaced, AsAsked
<1> QED BY <1>1, <1>2, OwnSteps, BridgeStep, PTL DEF ServicesSpec

-----------------------------------------------------------------------------
(* The planner of baskets. What is kept of some list is a list of them,    *)
(* each once and in their order; percentages add up to 100.                *)

(* Positions by their number, the larger first, and then in order.         *)
BySize(D, r) == { p \in D \X D : r[p[1]] > r[p[2]] \/ (r[p[1]] = r[p[2]] /\ p[1] < p[2]) }
Ahead(D, r, i) == { j \in D : r[j] > r[i] \/ (r[j] = r[i] /\ j < i) }

LEMMA OrderedBy ==
  ASSUME NEW D, D \subseteq Int, NEW r, \A x \in D : r[x] \in Int
  PROVE  OrderOn(D, BySize(D, r)) /\ \A i \in D : Below(D, BySize(D, r), i) = Ahead(D, r, i)
<1> DEFINE R == BySize(D, r)
<1>1. \A x, y \in D : <<x, y>> \in R <=> r[x] > r[y] \/ (r[x] = r[y] /\ x < y)
  BY DEF BySize
<1> HIDE DEF R
<1>2. \A x \in D : <<x, x>> \notin R
  BY <1>1
<1>3. ASSUME NEW x \in D, NEW y \in D PROVE x = y \/ <<x, y>> \in R \/ <<y, x>> \in R
  <2>1. x = y \/ (r[x] > r[y] \/ (r[x] = r[y] /\ x < y)) \/ (r[y] > r[x] \/ (r[y] = r[x] /\ y < x))
    OBVIOUS
  <2> QED BY <1>1, <2>1
<1>4. ASSUME NEW x \in D, NEW y \in D, NEW z \in D, <<x, y>> \in R, <<y, z>> \in R
      PROVE  <<x, z>> \in R
  <2>1. /\ r[x] > r[y] \/ (r[x] = r[y] /\ x < y)
        /\ r[y] > r[z] \/ (r[y] = r[z] /\ y < z)
    BY <1>1, <1>4
  <2>2. r[x] > r[z] \/ (r[x] = r[z] /\ x < z)
    BY <2>1
  <2> QED BY <1>1, <2>2
<1>5. OrderOn(D, R)
  BY <1>2, <1>3, <1>4 DEF OrderOn
<1>6. \A i \in D : Below(D, R, i) = Ahead(D, r, i)
  BY <1>1 DEF Below, Ahead
<1> QED BY <1>5, <1>6 DEF R

(* What is chosen by its rank is another one for each rank.                *)
Ranked(S, R, k) == CHOOSE i \in S : Cardinality(Below(S, R, i)) = k - 1

LEMMA RankedOnce ==
  ASSUME NEW S, IsFiniteSet(S), NEW R, OrderOn(S, R)
  PROVE  \A k \in 1 .. Cardinality(S) : /\ Ranked(S, R, k) \in S
                                       /\ Cardinality(Below(S, R, Ranked(S, R, k))) = k - 1
<1>1. Ranks(S, R) \in Bijection(S, 0 .. Cardinality(S) - 1) /\ Cardinality(S) \in Nat
  BY RanksAreAll, FS_CardinalityType
<1>2. \A k \in 0 .. Cardinality(S) - 1 : \E i \in S : Ranks(S, R)[i] = k
  BY <1>1 DEF Bijection, Surjection
<1> TAKE k \in 1 .. Cardinality(S)
<1>3. k - 1 \in 0 .. Cardinality(S) - 1
  BY <1>1
<1>4. PICK i \in S : Ranks(S, R)[i] = k - 1
  BY <1>2, <1>3
<1> QED BY <1>4 DEF Ranks, Ranked

LEMMA TimesPositive ==
  ASSUME NEW a \in Nat, NEW b \in Int, NEW c \in Int, a > 0
  PROVE  /\ a * b \in Int /\ (a * b >= 0 => b >= 0)
         /\ a * b < a * c => b < c
OBVIOUS

LEMMA TakenApart ==
  ASSUME NEW a \in Int, NEW b \in Int, NEW c \in Int
  PROVE  a * b - a * c = a * (b - c)
OBVIOUS

LEMMA DivisionParts ==
  ASSUME NEW a \in Nat, NEW b \in Nat, b > 0
  PROVE  /\ a \div b \in Nat /\ a % b \in 0 .. b - 1
         /\ a = (a % b) + b * (a \div b)
OBVIOUS

(* The remainders of dividing come to less than a whole for each weight,   *)
(* so that what rounding down leaves of 100 is handed out completely.      *)
LEMMA PercentagesAddUp ==
  ASSUME NEW n \in Nat, NEW ws \in [1 .. n -> Nat], Total(ws) > 0
  PROVE  normalizePct(ws) \in [1 .. n -> Nat] /\ Total(normalizePct(ws)) = 100
<1> DEFINE D == 1 .. n
           W == Total(ws)
           down == [i \in D |-> (100 * ws[i]) \div W]
           rest == [i \in D |-> (100 * ws[i]) % W]
           most == [i \in D |-> W]
           whole == [i \in D |-> 100 * ws[i]]
           ones == [i \in D |-> 1]
           M == 100 - Total(down)
           P == { i \in D : Rank(ws, i) < M }
           up == [i \in D |-> IF i \in P THEN 1 ELSE 0]
<1>1. IsFiniteSet(D) /\ Cardinality(D) = n
  BY FS_Interval
<1>2. W = SumFunctionOnSet(ws, D) /\ W \in Nat /\ W > 0
  <2>1. W = SumFunctionOnSet(ws, D)
    BY DEF Total, SumFunction
  <2> QED BY <1>1, <2>1, SumNat
<1> HIDE DEF W
<1>3. /\ \A i \in D : 100 * ws[i] \in Nat
      /\ \A i \in D : /\ (100 * ws[i]) \div W \in Nat /\ (100 * ws[i]) % W \in 0 .. W - 1
                      /\ 100 * ws[i] = ((100 * ws[i]) % W) + W * ((100 * ws[i]) \div W)
  <2>1. \A i \in D : 100 * ws[i] \in Nat
    OBVIOUS
  <2> SUFFICES ASSUME NEW i \in D
               PROVE  /\ (100 * ws[i]) \div W \in Nat /\ (100 * ws[i]) % W \in 0 .. W - 1
                      /\ 100 * ws[i] = ((100 * ws[i]) % W) + W * ((100 * ws[i]) \div W)
    BY <2>1
  <2> DEFINE a == 100 * ws[i]
  <2>2. a \in Nat /\ W \in Nat /\ W > 0
    BY <1>2, <2>1
  <2> HIDE DEF a
  <2>3. /\ a \div W \in Nat /\ a % W \in 0 .. W - 1
        /\ a = (a % W) + W * (a \div W)
    BY <2>2, DivisionParts
  <2> QED BY <2>3 DEF a
<1>4. SumFunctionOnSet(whole, D) = 100 * W
  <2>1. 100 \in Int /\ \A i \in D : ws[i] \in Int /\ whole[i] = 100 * ws[i]
    OBVIOUS
  <2> DEFINE k == 100
  <2>2. k \in Int /\ \A i \in D : ws[i] \in Int /\ whole[i] = k * ws[i]
    BY <2>1
  <2> HIDE DEF whole, D, k
  <2>3. SumFunctionOnSet(whole, D) = k * SumFunctionOnSet(ws, D)
    BY <1>1, <2>2, SumTimes
  <2> QED BY <1>2, <2>3 DEF k
<1>5. SumFunctionOnSet(whole, D) = SumFunctionOnSet(rest, D) + W * SumFunctionOnSet(down, D)
  <2> DEFINE scaled == [i \in D |-> W * down[i]]
  <2>1. \A i \in D : rest[i] \in Int /\ scaled[i] \in Int /\ whole[i] = rest[i] + scaled[i]
    BY <1>2, <1>3
  <2>4. \A i \in D : down[i] \in Int /\ scaled[i] = W * down[i]
    BY <1>2, <1>3
  <2> HIDE DEF rest, down, whole, scaled
  <2>2. SumFunctionOnSet(whole, D) = SumFunctionOnSet(rest, D) + SumFunctionOnSet(scaled, D)
    BY <1>1, <2>1, SumPlus
  <2>5. W \in Int
    BY <1>2
  <2>3. SumFunctionOnSet(scaled, D) = W * SumFunctionOnSet(down, D)
    BY <1>1, <2>5, <2>4, SumTimes, Zenon
  <2> QED BY <2>2, <2>3
<1>6. SumFunctionOnSet(rest, D) \in Nat /\ SumFunctionOnSet(down, D) \in Nat
  <2>1. \A i \in D : rest[i] \in Nat /\ down[i] \in Nat
    BY <1>2, <1>3
  <2> HIDE DEF rest, down
  <2> QED BY <1>1, <2>1, SumNat
<1>7. Total(down) = SumFunctionOnSet(down, D)
  BY DEF Total, SumFunction
<1>8. SumFunctionOnSet(rest, D) = W * M
  <2> HIDE DEF rest, down, whole
  <2>1. SumFunctionOnSet(rest, D) = W * 100 - W * SumFunctionOnSet(down, D)
    BY <1>2, <1>4, <1>5, <1>6
  <2> QED BY <1>2, <1>6, <1>7, <2>1, TakenApart
<1>9. M \in Nat
  BY <1>2, <1>6, <1>7, <1>8, TimesPositive
<1>10. M <= n
  <2>1. \A i \in D : rest[i] \in Int /\ most[i] \in Int /\ rest[i] <= most[i]
    BY <1>2, <1>3
  <2>2. \A i \in D : ones[i] \in Int /\ most[i] = W * ones[i]
    BY <1>2
  <2>3. SumFunctionOnSet(ones, D) = n
    BY <1>1, SumOnes
  <2> HIDE DEF rest, most, ones
  <2>5. SumFunctionOnSet(rest, D) <= SumFunctionOnSet(most, D)
    BY <1>1, <2>1, SumMonotone
  <2>6. SumFunctionOnSet(most, D) = W * n
    BY <1>1, <1>2, <2>2, <2>3, SumTimes
  <2>7. W * M <= W * n
    BY <1>8, <2>5, <2>6
  <2> HIDE DEF M
  <2> QED BY <1>2, <1>9, <2>7
<1>11. Cardinality(P) = M
  <2> DEFINE r == [i \in D |-> Rest(ws, i)]
             R == BySize(D, r)
  <2>1. \A i \in D : r[i] \in Int
    BY <1>2, <1>3 DEF Rest, W
  <2>2. OrderOn(D, R) /\ \A i \in D : Below(D, R, i) = Ahead(D, r, i)
    <3>1. D \subseteq Int
      OBVIOUS
    <3> HIDE DEF r, D
    <3> QED BY <2>1, <3>1, OrderedBy
  <2> HIDE DEF R
  <2>3. \A i \in D : Ranks(D, R)[i] = Rank(ws, i)
    BY <2>2 DEF Ranks, Rank, Ahead
  <2> HIDE DEF M
  <2>4. { i \in D : Ranks(D, R)[i] < M } = P
    BY <2>3
  <2>5. OrderOn(D, R) /\ M <= Cardinality(D)
    BY <1>1, <1>10, <2>2
  <2> HIDE DEF D, P
  <2>6. Cardinality({ i \in D : Ranks(D, R)[i] < M }) = M
    BY <1>1, <1>9, <2>5, RanksBelow
  <2> QED BY <2>4, <2>6
<1>12. SumFunctionOnSet(up, D) = M
  <2>1. P \subseteq D /\ \A i \in D : up[i] = IF i \in P THEN 1 ELSE 0
    OBVIOUS
  <2> HIDE DEF up, D, P, M
  <2>2. SumFunctionOnSet(up, D) = Cardinality(P)
    BY <1>1, <2>1, SumOnes
  <2> QED BY <1>11, <2>2
<1>13. /\ normalizePct(ws) = [i \in D |-> down[i] + IF Rank(ws, i) < M THEN 1 ELSE 0]
       /\ DOMAIN normalizePct(ws) = D
  BY DEF normalizePct, W
<1>14. \A i \in D : /\ down[i] \in Nat /\ up[i] \in {0, 1}
                    /\ normalizePct(ws)[i] = down[i] + up[i]
  BY <1>2, <1>3, <1>13
<1>15. SumFunctionOnSet(normalizePct(ws), D) = SumFunctionOnSet(down, D) + SumFunctionOnSet(up, D)
  <2> HIDE DEF down, up
  <2>1. \A i \in D : down[i] \in Int /\ up[i] \in Int /\ normalizePct(ws)[i] = down[i] + up[i]
    BY <1>14
  <2> QED BY <1>1, <2>1, SumPlus
<1>16. Total(normalizePct(ws)) = 100
  BY <1>6, <1>7, <1>9, <1>12, <1>13, <1>15 DEF Total, SumFunction
<1>17. normalizePct(ws) \in [D -> Nat]
  BY <1>13, <1>14
<1> QED BY <1>16, <1>17

Row == [symbol : UNIVERSE, pct : Nat \ {0}]

(* Rows of tradable stocks, each once, and list taken from others.         *)
Once(list) == \A i, k \in DOMAIN list : list[i].symbol = list[k].symbol => i = k
AllListed(list) == list \in Seq(Row) /\ Once(list)
TakenFrom(some, list) ==
  /\ some \in Seq(Row) /\ Len(some) <= Len(list)
  /\ \E f \in [1 .. Len(some) -> DOMAIN list] :
       /\ \A k \in 1 .. Len(some) : some[k] = list[f[k]]
       /\ \A k, l \in 1 .. Len(some) : f[k] = f[l] => k = l

LEMMA TakenListed ==
  ASSUME NEW list, AllListed(list), NEW some, TakenFrom(some, list)
  PROVE  AllListed(some) /\ Len(some) <= Len(list)
<1>1. PICK f \in [1 .. Len(some) -> DOMAIN list] :
       /\ \A k \in 1 .. Len(some) : some[k] = list[f[k]]
       /\ \A k, l \in 1 .. Len(some) : f[k] = f[l] => k = l
  BY DEF TakenFrom
<1>2. some \in Seq(Row) /\ Len(some) <= Len(list) /\ DOMAIN some = 1 .. Len(some)
  BY DEF TakenFrom
<1>3. ASSUME NEW i \in DOMAIN some, NEW k \in DOMAIN some, some[i].symbol = some[k].symbol PROVE i = k
  <2>1. some[i] = list[f[i]] /\ some[k] = list[f[k]] /\ f[i] \in DOMAIN list /\ f[k] \in DOMAIN list
    BY <1>1, <1>2
  <2>2. f[i] = f[k]
    BY <1>3, <2>1 DEF AllListed, Once
  <2> QED BY <1>1, <1>2, <2>2
<1> QED BY <1>2, <1>3 DEF AllListed, Once

(* The list at some positions.                                             *)
LEMMA KeptAreTaken ==
  ASSUME NEW T, NEW list \in Seq(T), NEW kept \in SUBSET (DOMAIN list), \A i \in kept : list[i] \in Row
  PROVE  /\ TakenFrom(KeptAt(list, kept), list)
         /\ \E f \in [1 .. Len(KeptAt(list, kept)) -> kept] :
              /\ \A k \in 1 .. Len(KeptAt(list, kept)) : KeptAt(list, kept)[k] = list[f[k]]
              /\ \A k, l \in 1 .. Len(KeptAt(list, kept)) : f[k] = f[l] => k = l
<1> DEFINE n == Cardinality(kept)
           r == [i \in kept |-> 0]
           R == BySize(kept, r)
           f == [k \in 1 .. n |-> Ranked(kept, R, k)]
           some == KeptAt(list, kept)
<1>1. Len(list) \in Nat /\ DOMAIN list = 1 .. Len(list)
  OBVIOUS
<1>2. IsFiniteSet(kept) /\ n \in Nat /\ n <= Len(list)
  <2>1. IsFiniteSet(1 .. Len(list)) /\ Cardinality(1 .. Len(list)) = Len(list)
    BY <1>1, FS_Interval
  <2>2. kept \in SUBSET (1 .. Len(list))
    BY <1>1
  <2>3. IsFiniteSet(kept) /\ n <= Len(list)
    BY <2>1, <2>2, FS_Subset
  <2> QED BY <2>3, FS_CardinalityType
<1>3. OrderOn(kept, R) /\ \A i \in kept : Below(kept, R, i) = Ahead(kept, r, i)
  <2>1. kept \subseteq Int /\ \A i \in kept : r[i] \in Int
    BY <1>1
  <2> HIDE DEF r
  <2> QED BY <2>1, OrderedBy
<1>4. f \in [1 .. n -> kept] /\ \A k, l \in 1 .. n : f[k] = f[l] => k = l
  <2> HIDE DEF R
  <2>1. \A k \in 1 .. n : Ranked(kept, R, k) \in kept /\ Cardinality(Below(kept, R, Ranked(kept, R, k))) = k - 1
    BY <1>2, <1>3, RankedOnce
  <2>2. \A k \in 1 .. n : f[k] = Ranked(kept, R, k)
    OBVIOUS
  <2>3. f \in [1 .. n -> kept]
    BY <2>1
  <2> HIDE DEF f
  <2>4. ASSUME NEW k \in 1 .. n, NEW l \in 1 .. n, f[k] = f[l] PROVE k = l
    <3>1. k - 1 = l - 1
      BY <2>1, <2>2, <2>4
    <3> QED BY <3>1
  <2> QED BY <2>3, <2>4
<1>5. \A i \in kept : Ahead(kept, r, i) = { j \in kept : j < i }
  BY DEF Ahead
<1>6. \A k \in 1 .. n : f[k] = CHOOSE i \in kept : Cardinality({ j \in kept : j < i }) = k - 1
  BY <1>3, <1>5 DEF Ranked
<1>7. DOMAIN some = 1 .. n /\ \A k \in 1 .. n : some[k] = list[f[k]]
  BY <1>6 DEF KeptAt
<1>8. some = [k \in 1 .. n |-> some[k]]
  BY DEF KeptAt
<1> HIDE DEF f, some, R, r
<1>9. \A k \in 1 .. n : some[k] \in Row
  BY <1>4, <1>7
<1>10. some \in Seq(Row) /\ Len(some) = n
  BY <1>2, <1>7, <1>8, <1>9
<1>11. f \in [1 .. n -> DOMAIN list]
  BY <1>4
<1> HIDE DEF n
<1>12. TakenFrom(some, list)
  BY <1>2, <1>4, <1>7, <1>10, <1>11 DEF TakenFrom
<1> QED BY <1>4, <1>7, <1>10, <1>12 DEF some

LEMMA KnownListed == ASSUME NEW picks \in Seq(Pick) PROVE AllListed(Known(picks))
<1> DEFINE Counted(i) == /\ picks[i].symbol \in UNIVERSE /\ picks[i].pct > 0
                      /\ \A j \in 1 .. i - 1 : picks[j].symbol = picks[i].symbol => picks[j].pct = 0
           kept == { i \in DOMAIN picks : Counted(i) }
<1>1. \A i \in DOMAIN picks : picks[i] \in Pick /\ i \in Nat
  OBVIOUS
<1>2. \A i \in kept : picks[i] \in Row
  <2> TAKE i \in kept
  <2>1. picks[i] \in Pick /\ picks[i].symbol \in UNIVERSE /\ picks[i].pct > 0
    BY <1>1
  <2> QED BY <2>1 DEF Pick, Row
<1>3. Known(picks) = KeptAt(picks, kept) /\ kept \in SUBSET (DOMAIN picks)
  BY DEF Known
<1>4. ASSUME NEW i \in kept, NEW k \in kept, picks[i].symbol = picks[k].symbol PROVE i = k
  <2>1. /\ i \in Nat /\ k \in Nat /\ 1 <= i /\ 1 <= k
        /\ picks[i].pct > 0 /\ picks[k].pct > 0
    OBVIOUS
  <2>2. ~ (i < k)
    <3> SUFFICES ASSUME i < k PROVE FALSE
      OBVIOUS
    <3>1. i \in 1 .. k - 1
      BY <2>1
    <3>2. picks[i].pct = 0
      BY <1>4, <3>1
    <3> QED BY <2>1, <3>2
  <2>3. ~ (k < i)
    <3> SUFFICES ASSUME k < i PROVE FALSE
      OBVIOUS
    <3>1. k \in 1 .. i - 1
      BY <2>1
    <3>2. picks[k].pct = 0
      BY <1>4, <3>1
    <3> QED BY <2>1, <3>2
  <2> QED BY <2>1, <2>2, <2>3
<1> DEFINE some == KeptAt(picks, kept)
<1> HIDE DEF kept
<1>5. TakenFrom(some, picks)
  BY <1>2, <1>3, KeptAreTaken
<1>6. PICK f \in [1 .. Len(some) -> kept] :
              /\ \A k \in 1 .. Len(some) : some[k] = picks[f[k]]
              /\ \A k, l \in 1 .. Len(some) : f[k] = f[l] => k = l
  BY <1>2, <1>3, KeptAreTaken
<1> HIDE DEF some
<1>7. some \in Seq(Row) /\ DOMAIN some = 1 .. Len(some)
  BY <1>5 DEF TakenFrom
<1>8. ASSUME NEW i \in DOMAIN some, NEW k \in DOMAIN some, some[i].symbol = some[k].symbol PROVE i = k
  <2>1. some[i] = picks[f[i]] /\ some[k] = picks[f[k]] /\ f[i] \in kept /\ f[k] \in kept
    BY <1>6, <1>7
  <2>2. f[i] = f[k]
    BY <1>4, <1>8, <2>1
  <2> QED BY <1>6, <1>7, <2>2
<1> QED BY <1>3, <1>7, <1>8 DEF AllListed, Once, some

LEMMA LargestTaken ==
  ASSUME NEW list, AllListed(list)
  PROVE  TakenFrom(Largest(list), list) /\ Len(Largest(list)) <= MaxHoldings
<1> DEFINE D == 1 .. Len(list)
           n == IF Len(list) < MaxHoldings THEN Len(list) ELSE MaxHoldings
           r == Pcts(list)
           R == BySize(D, r)
           f == [k \in 1 .. n |-> Ranked(D, R, k)]
           some == Largest(list)
<1>1. list \in Seq(Row) /\ Len(list) \in Nat /\ DOMAIN list = D /\ MaxHoldings \in Nat
  BY BasketAssumption DEF AllListed
<1>2. n \in Nat /\ n <= Len(list) /\ n <= MaxHoldings
  BY <1>1
<1>3. IsFiniteSet(D) /\ Cardinality(D) = Len(list)
  BY <1>1, FS_Interval
<1>4. \A i \in D : list[i] \in Row /\ r[i] = list[i].pct /\ r[i] \in Int
  <2> TAKE i \in D
  <2>1. list[i] \in Row
    BY <1>1
  <2>2. list[i].pct \in Nat
    BY <2>1 DEF Row
  <2>3. r[i] = list[i].pct
    BY <1>1 DEF Pcts
  <2> QED BY <2>1, <2>2, <2>3
<1>5. OrderOn(D, R) /\ \A i \in D : Below(D, R, i) = Ahead(D, r, i)
  <2>1. D \subseteq Int
    OBVIOUS
  <2> HIDE DEF D, r
  <2> QED BY <1>4, <2>1, OrderedBy
<1> HIDE DEF R
<1>6. \A k \in 1 .. n : k \in 1 .. Cardinality(D)
  BY <1>1, <1>2, <1>3
<1>7. \A k \in 1 .. n : Ranked(D, R, k) \in D /\ Cardinality(Below(D, R, Ranked(D, R, k))) = k - 1
  <2> HIDE DEF D, n
  <2> QED BY <1>3, <1>5, <1>6, RankedOnce
<1>8. f \in [1 .. n -> D] /\ \A k \in 1 .. n : f[k] = Ranked(D, R, k)
  BY <1>7
<1>9. ASSUME NEW k \in 1 .. n, NEW l \in 1 .. n, f[k] = f[l] PROVE k = l
  <2> HIDE DEF f
  <2>1. k - 1 = l - 1
    BY <1>7, <1>8, <1>9
  <2> QED BY <1>2, <2>1
<1>10. \A i \in D : Below(D, R, i)
          = { j \in DOMAIN list : list[j].pct > list[i].pct \/ (list[j].pct = list[i].pct /\ j < i) }
  BY <1>1, <1>4, <1>5 DEF Ahead
<1>11. \A k \in 1 .. n : f[k] = CHOOSE i \in DOMAIN list :
          Cardinality({ j \in DOMAIN list : list[j].pct > list[i].pct
                                            \/ (list[j].pct = list[i].pct /\ j < i) }) = k - 1
  BY <1>1, <1>8, <1>10 DEF Ranked
<1>12. some = [k \in 1 .. n |-> some[k]] /\ \A k \in 1 .. n : some[k] = list[f[k]]
  <2> DEFINE pick(k) == CHOOSE i \in DOMAIN list :
          Cardinality({ j \in DOMAIN list : list[j].pct > list[i].pct
                                            \/ (list[j].pct = list[i].pct /\ j < i) }) = k - 1
  <2>1. some = [k \in 1 .. n |-> list[pick(k)]]
    BY DEF Largest
  <2>2. \A k \in 1 .. n : f[k] = pick(k)
    BY <1>11
  <2> HIDE DEF pick, some, f, n
  <2> QED BY <2>1, <2>2
<1> HIDE DEF some, f
<1>13. \A k \in 1 .. n : some[k] \in Row
  BY <1>4, <1>8, <1>12
<1> HIDE DEF n
<1>14. some \in Seq(Row) /\ Len(some) = n
  BY <1>2, <1>12, <1>13
<1>15. f \in [1 .. n -> DOMAIN list]
  BY <1>1, <1>8
<1> QED BY <1>2, <1>9, <1>12, <1>14, <1>15 DEF TakenFrom, some

(* Both filters keep list.                                                 *)
LEMMA FilteredListed ==
  ASSUME NEW list, AllListed(list), NEW kept \in SUBSET (DOMAIN list)
  PROVE  AllListed(KeptAt(list, kept)) /\ Len(KeptAt(list, kept)) <= Len(list)
<1>1. list \in Seq(Row) /\ \A i \in kept : list[i] \in Row
  BY DEF AllListed
<1> QED BY <1>1, KeptAreTaken, TakenListed

(* The percentages of list, and what they come to in dollars.              *)
LEMMA HoldingsAddUp ==
  ASSUME NEW list, AllListed(list), list # << >>, budget \in Nat
  PROVE  LET pct == normalizePct(Pcts(list))
             usd == [i \in DOMAIN list |-> Usd(pct[i])]
             n == Len(list) IN
         /\ pct \in [1 .. n -> Nat] /\ Total(pct) = 100
         /\ usd \in [1 .. n -> Nat]
         /\ 2 * Total(usd) <= 2 * budget + n /\ 2 * budget <= 2 * Total(usd) + n
<1> DEFINE n == Len(list)
           D == 1 .. n
           ws == Pcts(list)
           pct == normalizePct(ws)
           usd == [i \in DOMAIN list |-> Usd(pct[i])]
           over == [i \in D |-> (budget * pct[i] + 50) % 100]
           cents == [i \in D |-> 100 * usd[i]]
           due == [i \in D |-> budget * pct[i]]
           ones == [i \in D |-> 1]
           fifty == [i \in D |-> 50 * ones[i]]
           most == [i \in D |-> 99 * ones[i]]
           sum == [i \in D |-> over[i] + cents[i]]
<1>1. list \in Seq(Row) /\ n \in Nat /\ DOMAIN list = D /\ n > 0
  BY DEF AllListed
<1>2. ws \in [D -> Nat] /\ \A i \in D : ws[i] > 0
  <2>1. \A i \in D : list[i] \in Row
    BY <1>1
  <2>2. \A i \in D : list[i].pct \in Nat /\ list[i].pct > 0
    BY <2>1 DEF Row
  <2> QED BY <1>1, <2>2 DEF Pcts
<1> HIDE DEF ws
<1>3. IsFiniteSet(D) /\ Cardinality(D) = n
  BY <1>1, FS_Interval
<1>4. Total(ws) > 0
  <2>1. Total(ws) = SumFunctionOnSet(ws, D)
    BY <1>2 DEF Total, SumFunction
  <2>2. 1 \in D
    BY <1>1
  <2>3. \A i \in D : ws[i] \in Nat
    BY <1>2
  <2>4. ws[1] <= SumFunctionOnSet(ws, D) /\ SumFunctionOnSet(ws, D) \in Nat
    BY <1>3, <2>2, <2>3, SumBound, SumNat
  <2> QED BY <1>2, <2>1, <2>2, <2>4
<1>5. pct \in [D -> Nat] /\ Total(pct) = 100
  BY <1>1, <1>2, <1>4, PercentagesAddUp
<1> HIDE DEF pct
<1>6. SumFunctionOnSet(pct, D) = 100
  BY <1>5 DEF Total, SumFunction
<1>7. /\ \A i \in D : usd[i] \in Nat /\ over[i] \in Nat /\ over[i] <= 99
      /\ \A i \in D : budget * pct[i] \in Nat /\ budget * pct[i] + 50 = over[i] + 100 * usd[i]
  <2> SUFFICES ASSUME NEW i \in D
               PROVE  /\ usd[i] \in Nat /\ over[i] \in Nat /\ over[i] <= 99
                      /\ budget * pct[i] \in Nat /\ budget * pct[i] + 50 = over[i] + 100 * usd[i]
    OBVIOUS
  <2>1. pct[i] \in Nat
    BY <1>5
  <2>2. budget * pct[i] \in Nat
    BY <2>1
  <2> DEFINE b == budget * pct[i] + 50
  <2>3. usd[i] = b \div 100 /\ over[i] = b % 100
    BY <1>1 DEF Usd
  <2>4. b \in Nat
    BY <2>2
  <2> HIDE DEF b
  <2>5. b \div 100 \in Nat /\ b % 100 \in Nat /\ b % 100 <= 99 /\ b = (b % 100) + 100 * (b \div 100)
    BY <2>4
  <2> HIDE DEF usd, over
  <2>6. usd[i] \in Nat /\ over[i] \in Nat /\ over[i] <= 99 /\ b = over[i] + 100 * usd[i]
    BY <2>3, <2>5
  <2> QED BY <2>2, <2>6 DEF b
<1>8. usd \in [D -> Nat] /\ Total(usd) = SumFunctionOnSet(usd, D)
  BY <1>1, <1>7 DEF Total, SumFunction
<1>9. SumFunctionOnSet(usd, D) \in Nat
  BY <1>3, <1>8, SumNat
<1> HIDE DEF usd, over
<1>10. SumFunctionOnSet(due, D) = budget * 100
  <2>1. \A i \in D : pct[i] \in Int /\ due[i] = budget * pct[i]
    BY <1>5
  <2>2. budget \in Int
    OBVIOUS
  <2> HIDE DEF due, D
  <2>3. SumFunctionOnSet(due, D) = budget * SumFunctionOnSet(pct, D)
    BY <1>3, <2>1, <2>2, SumTimes, Zenon
  <2> QED BY <1>6, <2>3
<1>11. SumFunctionOnSet(cents, D) = 100 * SumFunctionOnSet(usd, D)
  <2>1. 100 \in Int /\ \A i \in D : usd[i] \in Int /\ cents[i] = 100 * usd[i]
    BY <1>7
  <2> HIDE DEF cents, D
  <2> QED BY <1>3, <2>1, SumTimes, Zenon
<1>12. SumFunctionOnSet(ones, D) = n
  BY <1>3, SumOnes
<1>13. SumFunctionOnSet(fifty, D) = 50 * n /\ SumFunctionOnSet(most, D) = 99 * n
  <2>1. 50 \in Int /\ \A i \in D : ones[i] \in Int /\ fifty[i] = 50 * ones[i]
    OBVIOUS
  <2>2. 99 \in Int /\ \A i \in D : ones[i] \in Int /\ most[i] = 99 * ones[i]
    OBVIOUS
  <2> HIDE DEF fifty, most, ones, D
  <2>3. SumFunctionOnSet(fifty, D) = 50 * SumFunctionOnSet(ones, D)
    BY <1>3, <2>1, SumTimes, Zenon
  <2>4. SumFunctionOnSet(most, D) = 99 * SumFunctionOnSet(ones, D)
    BY <1>3, <2>2, SumTimes, Zenon
  <2> QED BY <1>12, <2>3, <2>4
<1>14. SumFunctionOnSet(sum, D) = SumFunctionOnSet(due, D) + SumFunctionOnSet(fifty, D)
  <2>1. \A i \in D : due[i] \in Int /\ fifty[i] \in Int /\ sum[i] = due[i] + fifty[i]
    BY <1>7
  <2> HIDE DEF fifty, due, sum, D
  <2> QED BY <1>3, <2>1, SumPlus
<1>15. SumFunctionOnSet(sum, D) = SumFunctionOnSet(over, D) + SumFunctionOnSet(cents, D)
  <2>1. \A i \in D : over[i] \in Int /\ cents[i] \in Int /\ sum[i] = over[i] + cents[i]
    BY <1>7
  <2> HIDE DEF cents, sum, D
  <2> QED BY <1>3, <2>1, SumPlus
<1>16. SumFunctionOnSet(over, D) \in Nat /\ SumFunctionOnSet(over, D) <= SumFunctionOnSet(most, D)
  <2>1. \A i \in D : over[i] \in Int /\ most[i] \in Int /\ over[i] <= most[i]
    BY <1>7
  <2>2. \A i \in D : over[i] \in Nat
    BY <1>7
  <2> HIDE DEF most, D
  <2> QED BY <1>3, <2>1, <2>2, SumMonotone, SumNat
<1>17. 2 * Total(usd) <= 2 * budget + n /\ 2 * budget <= 2 * Total(usd) + n
  <2> HIDE DEF over, cents, due, fifty, most, sum, D, n, usd
  <2>1. SumFunctionOnSet(over, D) + 100 * Total(usd) = budget * 100 + 50 * n
    BY <1>8, <1>10, <1>11, <1>13, <1>14, <1>15
  <2>2. SumFunctionOnSet(over, D) \in Nat /\ SumFunctionOnSet(over, D) <= 99 * n /\ Total(usd) \in Nat
    BY <1>8, <1>9, <1>13, <1>16
  <2> QED BY <1>1, <2>1, <2>2
<1> QED BY <1>5, <1>8, <1>17 DEF pct, ws, usd

(* What BasketAddsUp says, of any holdings.                                *)
AddsUp(holdings) ==
  holdings # << >> =>
    LET spent == Total([i \in DOMAIN holdings |-> holdings[i].usd]) IN
    /\ Len(holdings) <= MaxHoldings /\ IsInjective([i \in DOMAIN holdings |-> holdings[i].symbol])
    /\ Total([i \in DOMAIN holdings |-> holdings[i].allocPct]) = 100
    /\ 2 * spent <= 2 * budget + Len(holdings) /\ 2 * budget <= 2 * spent + Len(holdings)

LEMMA BuiltAddsUp ==
  ASSUME NEW picks \in Seq(Pick), NEW tier, budget \in Nat
  PROVE  AddsUp(buildHoldings(picks, tier))
<1> DEFINE known == Known(picks)
           largest == Largest(known)
           absorbed == Absorbed(largest, tier)
           list == NonZero(absorbed)
           pct == normalizePct(Pcts(list))
           usd == [i \in DOMAIN list |-> Usd(pct[i])]
           holdings == buildHoldings(picks, tier)
<1>1. AllListed(largest) /\ Len(largest) <= MaxHoldings
  BY KnownListed, LargestTaken, TakenListed
<1> HIDE DEF largest
<1>2. AllListed(absorbed) /\ Len(absorbed) <= Len(largest)
  <2> DEFINE kept == { i \in DOMAIN largest : tier[largest[i].symbol] # "thin"
                         \/ Usd(normalizePct(Pcts(largest))[i]) <= THIN_MAX_USD }
  <2>1. absorbed = KeptAt(largest, kept) /\ kept \in SUBSET (DOMAIN largest)
    BY DEF Absorbed
  <2> HIDE DEF kept
  <2> QED BY <1>1, <2>1, FilteredListed
<1> HIDE DEF absorbed
<1>3. AllListed(list) /\ Len(list) <= Len(absorbed)
  <2> DEFINE kept == { i \in DOMAIN absorbed : normalizePct(Pcts(absorbed))[i] > 0 }
  <2>1. list = KeptAt(absorbed, kept) /\ kept \in SUBSET (DOMAIN absorbed)
    BY DEF NonZero
  <2> HIDE DEF kept
  <2> QED BY <1>2, <2>1, FilteredListed
<1>4. holdings = [i \in DOMAIN list |-> [symbol |-> list[i].symbol, allocPct |-> pct[i], usd |-> Usd(pct[i])]]
  BY DEF buildHoldings, list, absorbed, largest
<1> HIDE DEF list, holdings
<1>5. Len(list) \in Nat /\ DOMAIN list = 1 .. Len(list) /\ Len(list) <= MaxHoldings
  <2>1. Len(list) \in Nat /\ Len(absorbed) \in Nat /\ Len(largest) \in Nat /\ DOMAIN list = 1 .. Len(list)
    BY <1>1, <1>2, <1>3 DEF AllListed
  <2> QED BY <1>1, <1>2, <1>3, <2>1, BasketAssumption
<1>6. holdings \in Seq({ holdings[i] : i \in DOMAIN list }) /\ Len(holdings) = Len(list) /\ DOMAIN holdings = DOMAIN list
  BY <1>4, <1>5
<1> SUFFICES ASSUME holdings # << >> PROVE AddsUp(holdings)
  BY DEF AddsUp, holdings
<1>7. list # << >>
  BY <1>4
<1>8. /\ pct \in [1 .. Len(list) -> Nat] /\ Total(pct) = 100
      /\ usd \in [1 .. Len(list) -> Nat]
      /\ 2 * Total(usd) <= 2 * budget + Len(list) /\ 2 * budget <= 2 * Total(usd) + Len(list)
  BY <1>3, <1>7, HoldingsAddUp
<1> HIDE DEF pct
<1>9. [i \in DOMAIN holdings |-> holdings[i].allocPct] = pct
  BY <1>4, <1>5, <1>6, <1>8
<1>10. [i \in DOMAIN holdings |-> holdings[i].usd] = usd
  BY <1>4, <1>6
<1> HIDE DEF usd
<1>11. IsInjective([i \in DOMAIN holdings |-> holdings[i].symbol])
  <2>1. [i \in DOMAIN holdings |-> holdings[i].symbol] = [i \in DOMAIN list |-> list[i].symbol]
    BY <1>4, <1>6
  <2>2. IsInjective([i \in DOMAIN list |-> list[i].symbol])
    BY <1>3 DEF AllListed, Once, IsInjective
  <2> QED BY <2>1, <2>2
<1> QED BY <1>5, <1>6, <1>8, <1>9, <1>10, <1>11 DEF AddsUp

BasketInv == budget \in Nat /\ AddsUp(plan)

(* Every step of the planner keeps the sums.                               *)
LEMMA BasketStep == BasketInv /\ [BasketNext]_basketVars => BasketInv'
<1> SUFFICES ASSUME BasketInv, [BasketNext]_basketVars PROVE BasketInv'
  OBVIOUS
<1> USE DEF BasketInv
<1>1. CASE buildPlan
  <2>1. PICK picks \in callCompute, tpl \in themeFor :
          plan' = IF buildHoldings(picks, depth) # << >> THEN buildHoldings(picks, depth) ELSE ruleBasedPlan(tpl)
    BY <1>1 DEF buildPlan
  <2>2. picks \in Seq(Pick) /\ tpl \in Seq(Pick)
    <3>1. Picked \cup TEMPLATES \subseteq Seq(Pick)
      BY BasketAssumption
    <3>2. << >> \in Seq(Pick)
      OBVIOUS
    <3> QED BY <3>1, <3>2 DEF callCompute, themeFor
  <2>3. AddsUp(buildHoldings(picks, depth)) /\ AddsUp(ruleBasedPlan(tpl))
    BY <2>2, BuiltAddsUp DEF ruleBasedPlan
  <2>4. budget' = budget
    BY <1>1 DEF buildPlan
  <2>5. AddsUp(plan')
    BY <2>1, <2>3
  <2> HIDE DEF BasketInv
  <2>6. AddsUp(plan)'
    BY <2>4, <2>5 DEF AddsUp
  <2> QED BY <2>4, <2>6 DEF BasketInv
<1>2. CASE getUniverse \/ executePlan \/ UNCHANGED basketVars
  BY <1>2 DEF getUniverse, executePlan, basketVars, AddsUp
<1> QED BY <1>1, <1>2 DEF BasketNext

(* planner.ts:158, "a validated, liquidity-gated holdings[]": a basket has *)
(* up to MaxHoldings stocks, each once; its percentages are 100 together   *)
(* and its dollars the budget, up to a half of one for each holding.       *)
THEOREM BasketCorrect == ServicesSpec => []BasketAddsUp
<1>1. ServicesInit => BasketInv
  BY BasketAssumption DEF ServicesInit, BasketInit, BasketInv, AddsUp
<1>2. BasketInv => BasketAddsUp
  BY DEF BasketInv, AddsUp, BasketAddsUp
<1> QED BY <1>1, <1>2, OwnSteps, BasketStep, PTL DEF ServicesSpec
=============================================================================
