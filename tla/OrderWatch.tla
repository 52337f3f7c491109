----------------------------- MODULE OrderWatch -----------------------------
(***************************************************************************)
(* How the application follows a cross-chain order: the exchange pushes    *)
(* changes over one socket that the relayer holds (relayer/src/xchain.ts); *)
(* the relayer passes them on to the tabs' streams; a push makes the tab   *)
(* fetch the order, and a tab whose stream broke polls (web xchain.ts).    *)
(* Orders through 0x are only polled (XChainPanel.tsx). The exchange, 0x   *)
(* and the network are external.                                           *)
(*                                                                         *)
(* Operators Name_Fault are faults that the README lists.                  *)
(***************************************************************************)
EXTENDS Naturals, FiniteSets

CONSTANTS OrderKind,                    \* of {"panel", "out", "zx"}
          MaxOrders, MaxFetches, MaxMishaps   \* bounds

ASSUME OrderWatchAssumption ==
  /\ OrderKind \subseteq {"panel", "out", "zx"} /\ OrderKind # {}
  /\ {MaxOrders, MaxFetches, MaxMishaps} \subseteq Nat

VARIABLES
  ordered,   \* the exchange: per order its kind and its status
  order,     \* the tab: the order shown, 0 for none
  status,    \* the tab: the status shown
  kept,      \* storage: the status stored with the order
  watching,  \* the tab: an effect watches the order
  stream,    \* the tab's stream: "none", "connecting", "open"
  polling,   \* the tab: the interval is set
  fetches,   \* the network: fetches of the order's status
  ws,        \* the relayer's socket: "closed", "opening", "subscribed"
  reopening, \* the relayer: the timer to reopen the socket is set
  mishaps

tabVars == <<order, status, kept, watching, stream, polling>>
watchVars == <<ordered, tabVars, fetches, ws, reopening, mishaps>>

OrderIds == 1 .. MaxOrders
xchainDone(s) == s \in {"completed", "refunded", "expired"}
Kind == ordered[order].kind
NoFetch == [of |-> 0, stopped |-> FALSE, answer |-> "none"]

OrderWatchInit ==
  /\ ordered = [i \in OrderIds |-> [kind |-> "none", status |-> "none"]]
  /\ order = 0 /\ status = "none" /\ kept = "none"
  /\ watching = FALSE /\ stream = "none" /\ polling = FALSE
  /\ fetches = [n \in 1 .. MaxFetches |-> NoFetch]
  /\ ws = "closed" /\ reopening = FALSE /\ mishaps = 0

Mishap == mishaps < MaxMishaps /\ mishaps' = mishaps + 1

-----------------------------------------------------------------------------
(* emit: a fetch of the order's status goes out. The bound on fetches is   *)
(* one on how many are out at a time.                                      *)
CanFetch == \E n \in DOMAIN fetches : fetches[n] = NoFetch
With(fs, id) ==
  LET n == CHOOSE k \in DOMAIN fs : fs[k].of = 0 /\ \A l \in DOMAIN fs : fs[l].of = 0 => k <= l
  IN  [fs EXCEPT ![n] = [of |-> id, stopped |-> FALSE, answer |-> "none"]]

(* The cleanup of the effect: what is on its way is not applied any more.  *)
Stopped_Applied(fs) == fs
Stopped(fs) == [n \in DOMAIN fs |-> IF fs[n].of = 0 THEN NoFetch ELSE [fs[n] EXCEPT !.stopped = TRUE]]

(* The effect of a tab that shows order `id` of a kind with status s, as   *)
(* the fetches `fs` are on their way: an ended order is not watched.       *)
xchainWatch(id, kind, s, fs) ==
  /\ watching' = (id # 0 /\ ~ xchainDone(s))
  /\ stream' = IF watching' /\ kind # "zx" THEN "connecting" ELSE "none"
  /\ polling' = (watching' /\ kind = "zx")
  /\ fetches' = IF watching' THEN With(Stopped(fs), id) ELSE Stopped(fs)

-----------------------------------------------------------------------------
(* An order is placed, shown and stored. Of one through 0x the status is   *)
(* not stored: it is shown as none after a reload.                         *)
Place(id, kind) ==
  /\ order = 0 /\ CanFetch
  /\ ordered[id].kind = "none" /\ (id > 1 => ordered[id - 1].kind # "none")
  /\ ordered' = [ordered EXCEPT ![id] = [kind |-> kind, status |-> "placed"]]
  /\ order' = id /\ status' = "placed"
  /\ kept' = IF kind = "zx" THEN "none" ELSE "placed"
  /\ xchainWatch(id, kind, "placed", fetches)
  /\ UNCHANGED <<ws, reopening, mishaps>>

(* The card is closed, whether the order has ended or keeps running.       *)
clearOrder ==
  /\ order # 0
  /\ order' = 0 /\ status' = "none" /\ kept' = "none"
  /\ xchainWatch(0, "none", "none", fetches)
  /\ UNCHANGED <<ordered, ws, reopening, mishaps>>

(* The tab is loaded anew and reads the stored order.                      *)
Reload ==
  /\ order # 0 /\ Mishap
  /\ status' = kept
  /\ LET none == [n \in DOMAIN fetches |-> NoFetch] IN xchainWatch(order, Kind, kept, none)
  /\ UNCHANGED <<ordered, order, kept, ws, reopening>>

(* The exchange goes on with an order. Over a subscribed socket it pushes  *)
(* the change, which the relayer writes to the streams of that order; what *)
(* it pushes meanwhile is gone.                                            *)
NextStatus(s) == CASE s = "placed" -> {"exchanging", "expired"}
              [] s = "exchanging" -> {"completed", "refunded"}
              [] OTHER -> {}
Progress(id) ==
  /\ \E s \in NextStatus(ordered[id].status) : ordered' = [ordered EXCEPT ![id].status = s]
  /\ IF ws = "subscribed" /\ stream = "open" /\ id = order
     THEN CanFetch /\ fetches' = With(fetches, id)
     ELSE UNCHANGED fetches
  /\ UNCHANGED <<tabVars, ws, reopening, mishaps>>

(* A fetch is answered with the status of that moment.                     *)
Answer(n) ==
  /\ fetches[n].of # 0 /\ fetches[n].answer = "none"
  /\ fetches' = [fetches EXCEPT ![n].answer = ordered[fetches[n].of].status]
  /\ UNCHANGED <<ordered, tabVars, ws, reopening, mishaps>>

(* The answer reaches the tab, after others that were asked for later or   *)
(* before them. The cash-out stores each status it shows. A tab that polls *)
(* 0x watches anew after each change of the status.                        *)
Shows(s, fs) ==
  /\ status' = s
  /\ kept' = IF Kind = "out" THEN s ELSE kept
  /\ IF xchainDone(s) \/ (Kind = "zx" /\ s # status)
     THEN xchainWatch(order, Kind, s, fs)
     ELSE fetches' = fs /\ UNCHANGED <<watching, stream, polling>>
onUpdate(n) ==
  /\ fetches[n].answer # "none"
  /\ LET others == [fetches EXCEPT ![n] = NoFetch] IN
     IF fetches[n].stopped \/ order = 0
     THEN fetches' = others /\ UNCHANGED <<status, kept, watching, stream, polling>>
     ELSE Shows(fetches[n].answer, others)
  /\ UNCHANGED <<ordered, order, ws, reopening, mishaps>>

(* A fetch fails: nothing is shown; of 0x the status is shown as unknown.  *)
Lost(n) ==
  /\ fetches[n].of # 0 /\ Mishap
  /\ LET others == [fetches EXCEPT ![n] = NoFetch] IN
     IF order # 0 /\ Kind = "zx" /\ ~ fetches[n].stopped
     THEN Shows("unknown", others)
     ELSE fetches' = others /\ UNCHANGED <<status, kept, watching, stream, polling>>
  /\ UNCHANGED <<ordered, order, ws, reopening>>

(* The interval of a polling tab.                                          *)
Poll ==
  /\ polling /\ CanFetch /\ fetches' = With(fetches, order)
  /\ UNCHANGED <<ordered, tabVars, ws, reopening, mishaps>>

-----------------------------------------------------------------------------
(* The stream reaches the relayer, which opens its socket if it has none.  *)
ensureWs == ws' = IF ws = "closed" THEN "opening" ELSE ws
Connected ==
  /\ stream = "connecting" /\ stream' = "open" /\ ensureWs
  /\ UNCHANGED <<ordered, order, status, kept, watching, polling, fetches, reopening, mishaps>>

(* The stream fails, or is refused: the tab polls from now on.             *)
onerror_NoPoll == stream' = "none" /\ UNCHANGED polling
onerror == stream' = "none" /\ polling' = TRUE
Broken ==
  /\ stream # "none" /\ Mishap /\ onerror
  /\ UNCHANGED <<ordered, order, status, kept, watching, fetches, ws, reopening>>

(* The relayer's socket subscribes; it drops, and is opened again after a  *)
(* while (wsBackoff) if a stream was there when it did.                    *)
Subscribed ==
  /\ ws = "opening" /\ ws' = "subscribed"
  /\ UNCHANGED <<ordered, tabVars, fetches, reopening, mishaps>>
reopen ==
  /\ ws # "closed" /\ Mishap
  /\ ws' = "closed" /\ reopening' = (reopening \/ stream = "open")
  /\ UNCHANGED <<ordered, tabVars, fetches>>
Reopened ==
  /\ reopening /\ reopening' = FALSE /\ ensureWs
  /\ UNCHANGED <<ordered, tabVars, fetches, mishaps>>

Tab == Poll \/ \E n \in DOMAIN fetches : Answer(n) \/ onUpdate(n)
OrderWatchNext ==
  \/ \E id \in OrderIds : Progress(id) \/ \E kind \in OrderKind : Place(id, kind)
  \/ clearOrder \/ Reload
  \/ \E n \in DOMAIN fetches : Lost(n)
  \/ Connected \/ Broken \/ Subscribed \/ reopen \/ Reopened
  \/ Tab

(* The tab's interval runs and the network answers in the end.             *)
OrderWatchFairness ==
  /\ WF_watchVars(Poll)
  /\ \A n \in 1 .. MaxFetches : WF_watchVars(Answer(n)) /\ WF_watchVars(onUpdate(n))
OrderWatchSpec == OrderWatchInit /\ [][OrderWatchNext]_watchVars /\ OrderWatchFairness

-----------------------------------------------------------------------------
(* The end that a card shows is the end of its own order: whatever answers *)
(* are late, none of an order cleared before it, and none from before the  *)
(* end, is shown once the order is over (web/app/src/xchain.ts:136-150,    *)
(* XChainPanel.tsx:324-332).                                               *)
ShownEndIsTrue == order # 0 /\ xchainDone(status) => ordered[order].status = status

(* A tab without a stream, because it broke or because 0x has none, shows  *)
(* the end of its order at last by polling, unless the card is closed or   *)
(* the tab loaded anew and streams again (web/app/src/xchain.ts:140-148).  *)
PollsShowTheEnd ==
  (order # 0 /\ stream = "none" /\ xchainDone(ordered[order].status))
    ~> (order = 0 \/ xchainDone(status) \/ stream # "none")

(* Every end is shown at last (not so: see the README).                    *)
EveryEndShown ==
  (order # 0 /\ xchainDone(ordered[order].status)) ~> (order = 0 \/ xchainDone(status))
=============================================================================
