------------------------------- MODULE Woodie -------------------------------
(***************************************************************************)
(* The copilot: the agent turns a message into an action, or a plan of     *)
(* several, by a language model whose answer is repaired or, without one,  *)
(* by rules (agent/src/woodie.ts); the chat shows a card for each action,  *)
(* which the user confirms and the wallet signs (web/app/src/Woodie.tsx).  *)
(* The language model is external.                                         *)
(*                                                                         *)
(* A message is a sequence of parts that its "then"s separate, a part the  *)
(* set of words in it that the rules look for; a number, a listed token, a *)
(* pair ("eth into aapl") and an address are such words.                   *)
(*                                                                         *)
(* Operators Name_Fault are faults that the README lists.                  *)
(***************************************************************************)
EXTENDS Naturals, SequencesExt

CONSTANTS Scenario,            \* what is said, what the model may answer, whether cards are used
          MaxReplies, MaxTries \* bounds

Word == {"hi", "tradable", "claim", "unstake", "stake", "staking", "liquidity", "bridge", "chain",
         "btc", "cash out", "bring", "govern", "points", "portfolio", "price", "swap", "privately",
         "shield", "withdraw", "send", "number", "token", "pair", "0x", "shielded address"}
ActionKind == {"shield", "private_transfer", "unshield", "shielded_swap", "public_swap", "stake", "unstake",
         "claim", "quote", "bridge_quote", "xchain_quote", "xchain_out", "universe", "points", "govern",
         "portfolio", "route", "answer", "clarify"}
EXECUTABLE_KINDS == {"shield", "private_transfer", "unshield", "shielded_swap", "public_swap", "stake", "unstake", "claim"}

ASSUME WoodieAssumption ==
  /\ \A s \in Scenario :
       /\ s.cards \in BOOLEAN
       /\ \A m \in s.messages : m \in Seq(SUBSET Word) /\ m # << >>
       /\ \A o \in s.objects : o.say \in BOOLEAN
  /\ MaxReplies \in Nat /\ MaxTries \in Nat \ {0}

VARIABLES
  scenario,
  heard,     \* the messages
  log,       \* the replies: their actions, and who gave them
  thinking,  \* a message awaits its reply
  account,   \* "none", "wallet" is connected, "unlocked": the shielded account too
  done,      \* per reply: how many of its steps are done
  card,      \* per reply: what the card of its next step is at
  started,   \* steps confirmed, as <<reply, step>>
  signed       \* transactions mined, as <<reply, step, try>>

chatVars == <<scenario, heard, log, thinking, account, done, card, started, signed>>

WoodieInit ==
  /\ scenario \in Scenario
  /\ heard = << >> /\ log = << >> /\ thinking = FALSE /\ account = "none"
  /\ done = << >> /\ card = << >> /\ started = {} /\ signed = {}

-----------------------------------------------------------------------------
(* The rules in their order: the first whose words a part has decides. A   *)
(* greeting only counts at the start.                                      *)
Rule(kind, words) == [kind |-> kind, words |-> words]
SwapRules_PublicFirst ==
  << Rule("public_swap", {{"swap"}}), Rule("shielded_swap", {{"swap", "privately"}, {"swap", "shield"}}) >>
SwapRules ==
  << Rule("shielded_swap", {{"swap", "privately"}, {"swap", "shield"}}), Rule("public_swap", {{"swap"}}) >>
Rules ==
  << Rule("answer", {{"hi"}}), Rule("universe", {{"tradable"}}), Rule("claim", {{"claim"}}),
     Rule("unstake", {{"unstake"}, {"withdraw", "stake"}}), Rule("stake", {{"stake"}}),
     Rule("route", {{"staking"}}), Rule("answer", {{"liquidity"}}),
     Rule("bridge_quote", {{"bridge", "number", "chain"}}),
     Rule("xchain_out", {{"btc", "cash out"}}), Rule("xchain_quote", {{"btc", "bring"}, {"btc", "pair"}}),
     Rule("route", {{"bridge"}}), Rule("govern", {{"govern"}}), Rule("points", {{"points"}}),
     Rule("portfolio", {{"portfolio"}}), Rule("quote", {{"price"}}) >>
  \o SwapRules \o
  << Rule("unshield", {{"withdraw"}}), Rule("private_transfer", {{"send"}}), Rule("shield", {{"shield"}}) >>

(* What an action needs besides.                                           *)
Complete(kind, words) ==
  LET named == words \cap {"token", "pair"} # {} IN
  CASE kind \in {"shielded_swap", "public_swap"} -> {"number", "pair"} \subseteq words
    [] kind = "unshield"         -> named /\ {"number", "0x"} \subseteq words
    [] kind = "private_transfer" -> named /\ "number" \in words /\ words \cap {"pair", "0x", "shielded address"} # {}
    [] kind = "shield"           -> named /\ "number" \in words
    [] kind = "stake"            -> "number" \in words
    [] kind = "quote"            -> named
    [] OTHER                     -> TRUE

(* The rules for one action.                                               *)
ruleChatSingle(words) ==
  LET i == SelectInSeq(Rules, LAMBDA r : \E ws \in r.words : ws \subseteq words) IN
  IF i = 0 THEN "answer"
  ELSE IF Complete(Rules[i].kind, words) THEN Rules[i].kind
  ELSE IF Rules[i].kind = "public_swap" THEN "route" ELSE "clarify"

(* Texts joined, and a message read as one text.                           *)
Both(ws, more) == ws \cup (more \ {"hi"})
Joined(m, n) == Front(m) \o <<Both(Last(m), Head(n))>> \o Tail(n)
Whole(m) == FoldLeft(Both, {}, m) \cup (Head(m) \cap {"hi"})

Executable(kinds) == SelectSeq(kinds, LAMBDA k : k \in EXECUTABLE_KINDS)

(* A message of several parts is a plan if two of them can be executed;    *)
(* parts that can not are left out. (It has up to six parts and less than  *)
(* 200 characters.) A reply is the sequence of its actions.                *)
ruleChat(m) ==
  LET steps == Executable([i \in DOMAIN m |-> ruleChatSingle(m[i])]) IN
  IF Len(steps) >= 2 THEN steps ELSE <<ruleChatSingle(Whole(m))>>

(* What the language model answers, made an action: of a kind, with what   *)
(* the kind needs or without.                                              *)
repairAction(item, say, m) ==
  CASE item.kind \notin ActionKind -> IF say THEN <<"answer">> ELSE ruleChat(m)
    [] item.kind = "route" /\ ~ item.ok -> <<"answer">>
    [] item.kind \in {"unstake", "claim", "portfolio", "universe", "points", "govern", "answer", "clarify"} -> <<item.kind>>
    [] OTHER -> <<IF item.ok THEN item.kind ELSE "clarify">>
repair(obj, m) ==
  LET rep(item) == LET r == repairAction(item, FALSE, m) IN IF Len(r) = 1 THEN r[1] ELSE "plan"
      steps == Executable([i \in DOMAIN obj.plan |-> rep(obj.plan[i])]) IN
  IF Len(obj.plan) > 1 /\ steps # << >> THEN steps ELSE repairAction(obj.action, obj.say, m)

(* Without the language model: a message after a question is first read as *)
(* the end of the message before it, unless that is a plan.                *)
AfterQuestion == Len(log) > 0 /\ Last(log).steps = <<"clarify">>
ByRules(m) ==
  LET merged == ruleChat(Joined(heard[Len(log)], m)) IN
  IF AfterQuestion /\ Len(merged) = 1 /\ merged[1] \notin {"clarify", "answer"} THEN merged ELSE ruleChat(m)

-----------------------------------------------------------------------------
(* The chat: a message is sent when none awaits its reply.                 *)
Say ==
  /\ ~ thinking /\ Len(log) < MaxReplies /\ thinking' = TRUE
  /\ \E m \in scenario.messages : heard' = Append(heard, m)
  /\ UNCHANGED <<scenario, log, account, done, card, started, signed>>

Reply(steps, by) ==
  /\ log' = Append(log, [steps |-> steps, by |-> by])
  /\ done' = Append(done, 0) /\ card' = Append(card, [at |-> "idle", try |-> 1]) /\ thinking' = FALSE
  /\ UNCHANGED <<scenario, heard, account, started, signed>>
chat ==
  /\ thinking
  /\ \/ \E obj \in scenario.objects : Reply(repair(obj, Last(heard)), "model")
     \/ Reply(ByRules(Last(heard)), "rules")
     \/ Reply(<<"answer">>, "nobody")

-----------------------------------------------------------------------------
(* The cards. Of a plan, the card of the first step not done has a button. *)
Replies == DOMAIN log
Step(n) == done[n] + 1
StepAction(n) == log[n].steps[Step(n)]
Active(n) == done[n] < Len(log[n].steps) /\ StepAction(n) \in EXECUTABLE_KINDS

(* Those that the desk runs: it shows their errors itself and returns.     *)
Desk == {"private_transfer", "unshield", "shielded_swap"}

confirm(n) ==
  /\ Active(n) /\ card[n].at = "idle" /\ account # "none"
  /\ card' = [card EXCEPT ![n].at = "running"]
  /\ started' = started \cup {<<n, Step(n)>>}
  /\ UNCHANGED <<scenario, heard, log, thinking, account, done, signed>>

(* A transaction is mined. The desk and a shield need the shielded account.*)
Mined(n) ==
  /\ Active(n) /\ card[n].at = "running"
  /\ StepAction(n) \in Desk \cup {"shield"} => account = "unlocked"
  /\ card' = [card EXCEPT ![n].at = "signed"]
  /\ signed' = signed \cup {<<n, Step(n), card[n].try>>}
  /\ UNCHANGED <<scenario, heard, log, thinking, account, done, started>>

Returns(n) ==
  /\ Active(n)
  /\ \/ card[n].at = "signed"
     \/ card[n].at = "running" /\ StepAction(n) \in Desk
  /\ done' = [done EXCEPT ![n] = @ + 1]
  /\ card' = [card EXCEPT ![n] = [at |-> "idle", try |-> 1]]
  /\ UNCHANGED <<scenario, heard, log, thinking, account, started, signed>>

(* An error before the transaction, or one of its receipt or the refresh   *)
(* after it: the card may be confirmed again.                              *)
Advance_OnError(n) == done' = [done EXCEPT ![n] = @ + 1]
Advance(n) == UNCHANGED done
CardThrows(n) ==
  /\ Active(n) /\ card[n].try < MaxTries
  /\ \/ card[n].at = "running"
     \/ card[n].at = "signed" /\ StepAction(n) \notin Desk
  /\ card' = [card EXCEPT ![n] = [at |-> "idle", try |-> @.try + 1]]
  /\ Advance(n)
  /\ UNCHANGED <<scenario, heard, log, thinking, account, started, signed>>

(* The wallet is connected or left, the shielded account derived or        *)
(* dropped with a change of the network.                                   *)
AccountChanges ==
  /\ scenario.cards
  /\ account' \in {"none", "wallet", "unlocked"} \ {account}
  /\ account = "none" => account' = "wallet"
  /\ UNCHANGED <<scenario, heard, log, thinking, done, card, started, signed>>

WoodieNext ==
  \/ Say \/ chat \/ AccountChanges
  \/ \E n \in Replies : confirm(n) \/ Mined(n) \/ Returns(n) \/ CardThrows(n)
WoodieSpec == WoodieInit /\ [][WoodieNext]_chatVars

-----------------------------------------------------------------------------
(* "sign each in order" (Woodie.tsx:255): a step of a plan is confirmed    *)
(* only when the steps before it returned and, unless the desk ran them,   *)
(* have their transactions mined, with other replies' cards, errors,       *)
(* retries and the account in between (Woodie.tsx:249-268, 692-815).       *)
StepsInOrder ==
  \A s \in started : \A j \in 1 .. s[2] - 1 :
    /\ j <= done[s[1]]
    /\ log[s[1]].steps[j] \in Desk \/ \E t \in 1 .. MaxTries : <<s[1], j, t>> \in signed

(* Without the language model: if all that was said of swaps, in a message *)
(* and in the one it completes, was to swap privately, no public swap is   *)
(* proposed (agent/src/woodie.ts:379-399, 455-462).                        *)
Said(n) == heard[n] \o (IF n > 1 /\ log[n - 1].steps = <<"clarify">> THEN heard[n - 1] ELSE << >>)
PrivateStaysPrivate ==
  \A n \in Replies :
    /\ log[n].by = "rules"
    /\ \A i \in DOMAIN Said(n) : "swap" \in Said(n)[i] => "privately" \in Said(n)[i]
    => "public_swap" \notin ToSet(log[n].steps)

(* The README has runs of the following against what it says of them.      *)
StepsSigned == \A s \in started : \A j \in 1 .. s[2] - 1 : \E t \in 1 .. MaxTries : <<s[1], j, t>> \in signed
SentOncePerStep == \A s, t \in signed : s[1] = t[1] /\ s[2] = t[2] => s = t
PlansAreWhole ==
  \A n \in Replies : log[n].by = "rules" /\ Len(log[n].steps) > 1 => Len(log[n].steps) = Len(heard[n])
=============================================================================
