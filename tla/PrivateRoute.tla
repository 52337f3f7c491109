---------------------------- MODULE PrivateRoute ----------------------------
(***************************************************************************)
(* The form for swaps across chains (XChainPanel.tsx) and the relayer's    *)
(* proxy of its quotes (relayer/src/xchain.ts): quotes are asked for after *)
(* each change of the form, through the proxy's cache; the receiving and   *)
(* the refund address are checked against a list of chains loaded once; a  *)
(* chosen quote is executed by an order at the exchange, by the wallet, or *)
(* by both. The exchange, 0x, the chains and the wallet are external.      *)
(*                                                                         *)
(* The amount is one of what the options stand for: it is part of what is  *)
(* asked for. Every token has a chain of its own, and an address is valid  *)
(* on one chain and named by its token.                                    *)
(*                                                                         *)
(* Operators Name_Fault are faults that the README lists.                  *)
(***************************************************************************)
EXTENDS Naturals, FiniteSets

CONSTANTS Token, Home,   \* Home: the token on whose chain the user's wallet is
          Empty,         \* no address
          Option,        \* of {"fixed", "xmr"}
          Rail,          \* of {"private", "dex", "zx", "zxc"}
          MaxEdits       \* bound

ASSUME PrivateRouteAssumption ==
  /\ Home \in Token /\ Empty \notin Token
  /\ Option \subseteq {"fixed", "xmr"} /\ Rail \subseteq {"private", "dex", "zx", "zxc"}
  /\ MaxEdits \in Nat

VARIABLES
  form,      \* what is asked for: from, to, options
  addr,      \* the fields dest and refund
  verdict,   \* destOk, refundOk
  checking,  \* fields whose check waits for the list of chains
  prefill,   \* the check of the own address for the empty field waits
  chains,    \* the list of chains is loaded
  failed,    \* it could not be loaded at a time
  timer,     \* the debounce timer of the quotes
  asking,    \* requests for quotes on their way
  quoting,   \* the form shows that quotes are awaited
  quotes,    \* the quotes shown
  lateQuotes,\* auxiliary: they were asked for an older form
  quoteCache,     \* the relayer: per request the quote remembered
  creating,  \* create: the quote, the form and the address, and the step
  placed,    \* what was ordered or sent, with what the form showed
  edits

formVars == <<form, addr, verdict, checking, prefill, chains, failed>>
quoteVars == <<timer, asking, quoting, quotes, lateQuotes, quoteCache>>
routeVars == <<formVars, quoteVars, creating, placed, edits>>

Field == {"dest", "refund"}
Form == [from : Token, to : Token, options : SUBSET Option]
Nobody == [at |-> "no"]

PrivateRouteInit ==
  /\ \E f, t \in Token : f # t /\ form = [from |-> f, to |-> t, options |-> {}]
  /\ addr = [f \in Field |-> Empty] /\ verdict = [f \in Field |-> "none"]
  /\ checking = {} /\ prefill = FALSE /\ chains = FALSE /\ failed = FALSE
  /\ timer = FALSE /\ asking = {} /\ quoting = FALSE /\ quotes = {} /\ lateQuotes = FALSE
  /\ quoteCache = {} /\ creating = Nobody /\ placed = {} /\ edits = 0

Edit == edits < MaxEdits /\ edits' = edits + 1 /\ placed = {}

-----------------------------------------------------------------------------
(* xchainValidAddress: by the list of chains if it is there. The fields    *)
(* whose address or chain changed are checked anew, at once if the list is *)
(* there; until it is, the verdict stays what it was.                      *)
ChainOf(f, fm) == IF f = "dest" THEN fm.to ELSE fm.from
Verdict(a, chain) == IF a = chain THEN "yes" ELSE "no"
recheck_AddressOnly(ad, fm, vd) ==
  /\ verdict' = [f \in Field |-> IF ad[f] = Empty THEN "none"
                                 ELSE IF chains /\ ad[f] # addr[f] THEN Verdict(ad[f], ChainOf(f, fm)) ELSE vd[f]]
  /\ checking' = IF chains THEN {} ELSE { f \in Field : ad[f] # Empty /\ (f \in checking \/ ad[f] # addr[f]) }
recheck(ad, fm, vd) ==
  /\ verdict' = [f \in Field |-> IF ad[f] = Empty THEN "none"
                                 ELSE IF chains THEN Verdict(ad[f], ChainOf(f, fm)) ELSE vd[f]]
  /\ checking' = IF chains THEN {} ELSE
                 { f \in Field : \/ ad[f] # Empty /\ (ad[f] # addr[f] \/ ChainOf(f, fm) # ChainOf(f, form))
                                 \/ f \in checking /\ ad[f] # Empty }

(* The effect that asks for quotes, run by each change of what is asked    *)
(* for: what is shown is dropped, and the timer set anew. Requests on      *)
(* their way are not cancelled.                                            *)
Requote_Kept == timer' = TRUE /\ UNCHANGED <<asking, quoting, quotes, lateQuotes, quoteCache>>
Requote == quotes' = {} /\ lateQuotes' = FALSE /\ timer' = TRUE /\ UNCHANGED <<asking, quoting, quoteCache>>

(* The user picks a token, flips the direction or switches an option. A    *)
(* new target empties the receiving address; if it is empty, the own one   *)
(* is proposed where it is valid.                                          *)
Asks(fm) ==
  LET ad == IF fm.to # form.to THEN [addr EXCEPT !["dest"] = Empty] ELSE addr IN
  LET own == IF fm.to # form.to /\ chains /\ fm.to = Home THEN [ad EXCEPT !["dest"] = Home] ELSE ad IN
  /\ Edit /\ fm # form /\ form' = fm
  /\ addr' = own
  /\ recheck(own, fm, IF fm.to # form.to THEN [verdict EXCEPT !["dest"] = "none"] ELSE verdict)
  /\ prefill' = ((prefill \/ fm.to # form.to) /\ ~ chains)
  /\ Requote
  /\ UNCHANGED <<chains, failed, creating, placed>>
Picks == \E t \in Token :
           \/ t # form.to /\ Asks([form EXCEPT !.from = t])
           \/ t # form.from /\ Asks([form EXCEPT !.to = t])
flip == Asks([form EXCEPT !.from = form.to, !.to = form.from])
Switches == \E o \in Option :
              Asks([form EXCEPT !.options = IF o \in @ THEN @ \ {o} ELSE @ \cup {o}])

(* The user types an address.                                              *)
Types(f) ==
  /\ Edit /\ creating = Nobody
  /\ \E a \in Token : a # addr[f] /\ LET ad == [addr EXCEPT ![f] = a] IN addr' = ad /\ recheck(ad, form, verdict)
  /\ UNCHANGED <<form, prefill, chains, failed, quoteVars, creating, placed>>

(* xchainChains answers, for all that wait for it, or fails: then any      *)
(* address that is long enough will do, and the next check asks again. The *)
(* own address is proposed though another was typed meanwhile.             *)
xchainChains ==
  /\ checking # {} \/ prefill
  /\ \E ok \in BOOLEAN :
       LET own == prefill /\ (ok => form.to = Home)
           ad == IF own THEN [addr EXCEPT !["dest"] = Home] ELSE addr
           given(f, a) == IF ok THEN Verdict(a, ChainOf(f, form)) ELSE "yes"
       IN  /\ chains' = ok /\ failed' = (failed \/ ~ ok)
           /\ addr' = ad
           /\ verdict' = [f \in Field |-> IF f \in checking \/ ad[f] # addr[f] THEN given(f, ad[f]) ELSE verdict[f]]
  /\ checking' = {} /\ prefill' = FALSE
  /\ UNCHANGED <<form, quoteVars, creating, placed, edits>>

-----------------------------------------------------------------------------
(* The timer fires and quotes are asked for: of the exchange through the   *)
(* relayer, and of 0x.                                                     *)
AskQuotes ==
  /\ timer /\ timer' = FALSE /\ quoting' = TRUE /\ asking' = asking \cup {form}
  /\ UNCHANGED <<formVars, quotes, lateQuotes, quoteCache, creating, placed, edits>>

(* The exchange offers quotes for what it is asked; the relayer answers a  *)
(* request like one of the last minute with the quotes it had then: its    *)
(* key leaves the way through Monero out. Prices of 0x are for what was    *)
(* asked: the cache of its proxy has the whole request for a key.          *)
CacheKey_PairOnly(fm) == <<fm.from, fm.to>>
CacheKey(fm) == <<fm.from, fm.to, "fixed" \in fm.options>>
Offers(fm) == [asked : {fm}, rail : Rail \cap {"private", "dex"}]
zeroexPrice(fm) == [asked : {fm}, rail : Rail \cap {"zx", "zxc"}]
Cached(fm) == { q \in quoteCache : CacheKey(q.asked) = CacheKey(fm) }
xchainQuotesAll(fm) == IF Cached(fm) # {} THEN Cached(fm) ELSE Offers(fm)

(* An answer arrives, for whichever request, and is what the form shows.   *)
(* The wait is over with the first answer. There may be no quote at all.   *)
QuotesArrive ==
  /\ \E fm \in asking :
       /\ asking' = asking \ {fm} /\ lateQuotes' = (fm # form)
       /\ \/ quotes' = {} /\ UNCHANGED quoteCache
          \/ \E q \in xchainQuotesAll(fm) : quotes' = {q} /\ quoteCache' = quoteCache \cup {q}
          \/ \E q \in zeroexPrice(fm) : quotes' = {q} /\ UNCHANGED quoteCache
  /\ quoting' = FALSE
  /\ UNCHANGED <<timer, formVars, creating, placed, edits>>
CacheExpires ==
  /\ quoteCache # {} /\ quoteCache' = {}
  /\ UNCHANGED <<formVars, timer, asking, quoting, quotes, lateQuotes, creating, placed, edits>>

-----------------------------------------------------------------------------
(* The button, and create up to its first await. A fixed rate needs an     *)
(* address for refunds; 0x on one chain delivers to the wallet only.       *)
needRefund(q) == "fixed" \in form.options \cup q.asked.options
MayCreate_NoRefund(q) == verdict["dest"] = "yes" /\ creating = Nobody /\ ~ quoting
MayCreate(q) ==
  /\ verdict["dest"] = "yes" /\ creating = Nobody /\ ~ quoting
  /\ needRefund(q) => verdict["refund"] = "yes"
create ==
  /\ placed = {}
  /\ \E q \in quotes :
       /\ MayCreate(q) /\ (q.rail = "zx" => addr["dest"] = Home)
       /\ creating' = [at |-> CASE q.rail = "private" -> "order" [] q.rail = "dex" -> "approve" [] OTHER -> "requote",
                       q |-> q, late |-> lateQuotes, form |-> form, dest |-> addr["dest"], refund |-> addr["refund"]]
  /\ UNCHANGED <<formVars, quoteVars, placed, edits>>

(* The steps of create, each of which may fail: then nothing is shown but  *)
(* the error, whatever was sent. Quotes of 0x are asked for once more, the *)
(* one of a single chain for what the form showed.                         *)
AtStep(step) == creating.at = step
GoesTo(step) == creating' = [creating EXCEPT !.at = step] /\ UNCHANGED placed
Placed(asked, what) ==
  placed' = placed \cup {[what |-> what, rail |-> creating.q.rail, asked |-> asked, late |-> creating.late,
                          form |-> creating.form, dest |-> creating.dest, refund |-> creating.refund]}
xchainDexApprove == AtStep("approve") /\ GoesTo("order")
zeroexQuote == AtStep("requote") /\ creating.q.rail = "zx" /\ GoesTo("allow")
zeroexCrossQuotes == AtStep("requote") /\ creating.q.rail = "zxc" /\ GoesTo("allow")
Allow == AtStep("allow") /\ GoesTo("send")
xchainCreate ==
  /\ AtStep("order") /\ Placed(creating.q.asked, "order")
  /\ creating' = [creating EXCEPT !.at = IF creating.q.rail = "private" THEN "shown" ELSE "execute"]
Executed ==
  /\ AtStep("execute") /\ Placed(creating.q.asked, "payment")
  /\ creating' = [creating EXCEPT !.at = "confirm"]
xchainDexConfirm == AtStep("confirm") /\ GoesTo("shown")
Sent ==
  /\ AtStep("send")
  /\ Placed(IF creating.q.rail = "zx" THEN creating.form ELSE creating.q.asked, "payment")
  /\ creating' = [creating EXCEPT !.at = "receipt"]
Received == AtStep("receipt") /\ GoesTo("shown")
CreateStep ==
  /\ xchainDexApprove \/ zeroexQuote \/ zeroexCrossQuotes \/ Allow \/ xchainCreate
     \/ Executed \/ xchainDexConfirm \/ Sent \/ Received
  /\ UNCHANGED <<formVars, quoteVars, edits>>
CreateFails ==
  /\ creating.at \notin {"no", "shown"} /\ creating' = Nobody
  /\ UNCHANGED <<formVars, quoteVars, placed, edits>>

PrivateRouteNext ==
  \/ Picks \/ flip \/ Switches \/ \E f \in Field : Types(f)
  \/ xchainChains \/ AskQuotes \/ QuotesArrive \/ CacheExpires
  \/ create \/ CreateStep \/ CreateFails
PrivateRouteSpec == PrivateRouteInit /\ [][PrivateRouteNext]_routeVars

-----------------------------------------------------------------------------
(* Whatever was ordered or sent is for the tokens and the rate that the    *)
(* form showed when the button was pressed, unless the quotes shown had    *)
(* been asked for an older form; and it goes to an address of the target's *)
(* chain, refunds to one of the source's (XChainPanel.tsx:254-321, 344-351,*)
(* 365-456).                                                               *)
Fixed(fm) == "fixed" \in fm.options
AsShown(p) == p.asked.from = p.form.from /\ p.asked.to = p.form.to /\ Fixed(p.asked) = Fixed(p.form)
PlacedAsShown ==
  \A p \in placed :
    /\ ~ p.late => AsShown(p)
    /\ ~ failed => /\ p.dest = p.form.to
                   /\ Fixed(p.form) => p.refund = p.form.from

(* The same without the exception (not so: the README).                    *)
AlwaysAsShown == \A p \in placed : AsShown(p)

(* "Route the middle hop of private routes through Monero"                 *)
(* (XChainPanel.tsx:565): a private order placed with the hop switched on  *)
(* has it.                                                                 *)
HopAsAsked ==
  \A p \in placed : p.rail = "private" /\ "xmr" \in p.form.options => "xmr" \in p.asked.options

(* Whatever was sent has an order in the application (not so: the README). *)
PaidIsShown == creating = Nobody => \A p \in placed : p.what # "payment"
=============================================================================
