----------------------------- MODULE MCServices -----------------------------
(* Instances of Services, small enough to exhaust: see the README for the   *)
(* bounds of each part.                                                     *)
EXTENDS Services

CONSTANTS ip1, ip2, note, fresh, f1, f2, u1, u2, u3, c1, c2, c3,
          ann, bob, cat, asked1, asked2, tok, usd, pool

(* The parts that rest do not change; and once every flow of the bridge    *)
(* has begun, what its form says is read by nothing.                       *)
View ==
  << part,
     CASE part = "relayer" -> <<relayerVars>>
       [] part = "bridge" -> << flowVars, slot, stored, tabVars, crossed, wanted.page = "cashout",
                                IF MayFill THEN askVars ELSE << >> >>
       [] part = "agent" -> <<acpVars>>
       [] part = "proxy" -> <<gtVars>>
       [] part = "points" -> <<pointsVars>>
       [] part = "route" -> <<routeVars>>
       [] part = "chat" -> <<chatVars>>
       [] part \in {"sheet", "feed"} -> <<marketVars>>
       [] part = "basket" -> <<basketVars>>
       [] part = "hire" -> <<hireVars>> >>

(* Points: every block is a day of its own; the rules of the service.      *)
MCDayOf == [n \in 1 .. MaxBlocks |-> n]
MCRules == [shield |-> 100, day |-> 25, weekStreakBonus |-> 100, referrer |-> 200, referee |-> 50]

(* One pool, whose quote is the token.                                     *)
MCLegs == [x \in {pool} |-> [base |-> usd, quote |-> tok]]

(* The forms of the bridge's card, and one of the cash-out.                *)
MCWants == {[page |-> "out", ask |-> 1], [page |-> "cashout", ask |-> 1]} \cup [page : {"in"}, ask : {1, 2}]

(* What is said without the cards and with them.                           *)
MCItem(k, ok) == [kind |-> k, ok |-> ok]
MCScenario ==
  LET shield == {"shield", "number", "token"}
      private == {"swap", "privately", "pair"}
      privateSwap == private \cup {"number"}
      swap == {"swap", "number", "pair"}
      withdraw == {"withdraw", "number", "token", "0x"}
      staked == {"stake", "number"}
      single == {shield, {"shield", "token"}, {"number", "token"}, private, privateSwap, swap, {"swap"},
                 withdraw, {"withdraw", "stake"}, {"price", "token"}, {"btc", "bring", "number"}, {"hi", "shield"}}
      transferred == {"send", "number", "token", "shielded address"}
  IN
  { [ cards |-> FALSE,
      messages |-> {<<a>> : a \in single} \cup ({shield, transferred, staked} \X {privateSwap, private, swap})
                   \cup {<<shield, {"swap"}, staked>>},
      objects |->
        { [say |-> TRUE, plan |-> << >>, action |-> MCItem(k, ok)] :
            k \in {"shielded_swap", "route", "unknown"}, ok \in BOOLEAN }
        \cup { [say |-> FALSE, plan |-> <<MCItem(k, TRUE), MCItem("public_swap", ok)>>, action |-> MCItem("unknown", TRUE)] :
                 k \in {"unknown", "stake"}, ok \in BOOLEAN } ],
    [ cards |-> TRUE, objects |-> {}, messages |-> {<<shield, privateSwap>>, <<withdraw, swap, staked>>} ] }

(* What the model picks, and two templates.                                *)
MCPick(s, n) == [symbol |-> s, pct |-> n]
MCPicked ==
  {<< >>} \cup [1 .. 3 -> [symbol : {"x", "y", "unknown"}, pct : {0, 3, 40}]]
  \cup { <<MCPick("x", 50), MCPick("y", 40), MCPick("z", 30)>>, <<MCPick("x", 9925), MCPick("y", 45), MCPick("z", 30)>> }
MCTemplates ==
  { <<MCPick("x", 60), MCPick("y", 40)>>, <<MCPick("x", 50), MCPick("y", 30), MCPick("z", 20)>> }
=============================================================================
