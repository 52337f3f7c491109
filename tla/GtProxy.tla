------------------------------ MODULE GtProxy -------------------------------
(***************************************************************************)
(* The market data proxy (deploy/vps/gt-proxy.mjs): answers from a cache,  *)
(* shares one upstream fetch between requests for one url, paces fetches   *)
(* through a queue and retries a fetch that was throttled. A time is kept  *)
(* as its age, up to the age at which nothing depends on it any more.      *)
(* Which body answers a failed fetch changes no state and is left out. The *)
(* upstream is external.                                                   *)
(*                                                                         *)
(* Operators Name_Fault are faults that the README lists.                  *)
(***************************************************************************)
EXTENDS Naturals, SequencesExt

CONSTANTS
  Url, NoUrl, Caller,
  GAP_MS, TTL, Backoff,                \* in one unit of time
  Retries

ASSUME GtProxyAssumption ==
  {GAP_MS, TTL, Backoff, Retries} \subseteq Nat /\ GAP_MS <= Backoff /\ NoUrl \notin Url

VARIABLES
  cache,               \* per url: the age of its body, TTL when there is none to use
  inflight, queue,     \* urls with a fetch promised; those not begun
  pump,                \* where it is, with what url; time to wait; retries so far
  last,                \* age of the last paced fetch
  caller,              \* per caller: the url it waits for
  fetched              \* auxiliary: age of the last fetch

gtVars == <<cache, inflight, queue, pump, last, caller, fetched>>

Asleep == [at |-> "idle", url |-> NoUrl, wait |-> 0, tries |-> 0]

GtInit ==
  /\ cache = [u \in Url |-> TTL] /\ inflight = {} /\ queue = << >>
  /\ pump = Asleep /\ last = GAP_MS
  /\ caller = [c \in Caller |-> NoUrl] /\ fetched = GAP_MS

Aged(age, limit) == Min({age + 1, limit})
TimePasses ==
  /\ cache' = [u \in Url |-> Aged(cache[u], TTL)]
  /\ last' = Aged(last, GAP_MS) /\ fetched' = Aged(fetched, GAP_MS)
  /\ pump' = [pump EXCEPT !.wait = IF @ > 0 THEN @ - 1 ELSE 0]
  /\ UNCHANGED <<inflight, queue, caller>>

-----------------------------------------------------------------------------
Shared_Not(url) == FALSE
Shared(url) == url \in inflight

(* A request that the cache does not answer waits for the fetch of its     *)
(* url, which is promised if there is none.                                *)
Ask(c) ==
  /\ caller[c] = NoUrl
  /\ \E url \in Url :
       /\ cache[url] = TTL
       /\ caller' = [caller EXCEPT ![c] = url]
       /\ inflight' = inflight \cup {url}
       /\ queue' = IF Shared(url) THEN queue ELSE Append(queue, url)
  /\ UNCHANGED <<cache, pump, last, fetched>>

(* The pump takes the next url and waits for the pace.                     *)
Take ==
  /\ pump.at = "idle" /\ queue # << >>
  /\ queue' = Tail(queue)
  /\ pump' = [at |-> "pacing", url |-> Head(queue), wait |-> GAP_MS - last, tries |-> 0]
  /\ UNCHANGED <<cache, inflight, last, caller, fetched>>

LastOnRetry_Kept == last
LastOnRetry == 0

Fetch ==
  /\ pump.at \in {"pacing", "backoff"} /\ pump.wait = 0
  /\ last' = IF pump.at = "pacing" THEN 0 ELSE LastOnRetry
  /\ fetched' = 0
  /\ pump' = [pump EXCEPT !.at = "fetching"]
  /\ UNCHANGED <<cache, inflight, queue, caller>>

Throttled ==
  /\ pump.at = "fetching" /\ pump.tries < Retries
  /\ pump' = [pump EXCEPT !.at = "backoff", !.tries = @ + 1, !.wait = Backoff * (pump.tries + 1)]
  /\ UNCHANGED <<cache, inflight, queue, last, caller, fetched>>

(* The fetch ends, well or not, and everyone who waits for it is answered; *)
(* each of them stores a good body.                                        *)
Resolve ==
  /\ pump.at = "fetching"
  /\ \E good \in BOOLEAN : cache' = IF good THEN [cache EXCEPT ![pump.url] = 0] ELSE cache
  /\ caller' = [c \in Caller |-> IF caller[c] = pump.url THEN NoUrl ELSE caller[c]]
  /\ inflight' = inflight \ {pump.url}
  /\ pump' = Asleep
  /\ UNCHANGED <<queue, last, fetched>>

GtNext == TimePasses \/ Take \/ Fetch \/ Throttled \/ Resolve \/ \E c \in Caller : Ask(c)

-----------------------------------------------------------------------------
(* "paced upstream queue (one request per GAP_MS) so we never trip the     *)
(* limiter" (gt-proxy.mjs:7), with one fetch for all who ask: through any  *)
(* mix of urls, failures and retries, the upstream is asked at most once   *)
(* per gap, and for nothing that the queue will ask for again.             *)
Paced ==
  [][ pump.at # "fetching" /\ pump'.at = "fetching" =>
      fetched >= GAP_MS /\ pump.url \notin Range(queue) ]_gtVars
=============================================================================
