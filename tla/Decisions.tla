------------------------------- MODULE Decisions -------------------------------
(***************************************************************************)
(* How the player the server acts for comes to a decision: the numbers     *)
(* buildAIDecisionInput offers, the local strategy (fallbackDecision), the *)
(* options offered to the model, and the guard that chooses between the    *)
(* model's answer and the local strategy (guardAIDecision).                *)
(*                                                                         *)
(* Equity, pressure, rolls and every other score are floats computed from  *)
(* the cards and the action log.  Where they choose between branches the   *)
(* choice is left open, so that an operator returns the set of decisions   *)
(* the function may return; where a branch depends on what the hand        *)
(* allows, on the stage or on a bet to call, the condition is kept.  What  *)
(* two tests ask of the same score is kept as the position of the          *)
(* effective equity among the thresholds around the pot odds: "behind" (a  *)
(* call is refused), "ahead" (a fold is refused), or "close".              *)
(***************************************************************************)
EXTENDS Hand

Edges == {"behind", "close", "ahead"}

Move(a)   == [action |-> a, amount |-> 0]
Wager(n)  == [action |-> "bet", amount |-> n]

LeastRaise(h, u) == (h.roundBet - h.roundContrib[u]) + BetMin

\* allowedActionsForPlayer and the part of buildAIDecisionInput that a
\* decision depends on.  minBet and minRaise are 0 where the bet is not
\* allowed, as in the code.
DecisionInput(h, u) ==
  LET diff     == h.roundBet - h.roundContrib[u]
      canOpen  == h.roundBet = 0 /\ h.stack[u] >= OpenBetMin
      canRaise == h.roundBet > 0 /\ h.stack[u] >= LeastRaise(h, u)
  IN  [stage |-> h.stage, pot |-> h.pot, roundBet |-> h.roundBet, stack |-> h.stack[u],
       call |-> diff,
       minBet   |-> IF canOpen THEN OpenBetMin ELSE 0,
       minRaise |-> IF canRaise THEN LeastRaise(h, u) ELSE 0,
       opponents |-> Cardinality(Active(h) \ {u}),
       facingRaise |-> h.stage = "preflop" /\ h.roundBet > OpenBetMin,
       allowed |-> IF u \notin Playable(h) THEN {}
                   ELSE {"fold"}
                        \cup {a \in {"check"} : diff = 0} \cup {a \in {"call"} : diff > 0}
                        \cup {a \in {"bet"} : canOpen \/ canRaise}
                        \cup {a \in {"allin"} : h.stack[u] > 0}]

FacingBet(i) == i.call > 0

\* The floor of a bet, in decisionAllowedByInput and fallbackDecision alike.
BetFloor(i) == Max({1, IF i.roundBet > 0 THEN i.minRaise ELSE i.minBet})

\* Mutant: more may be bet than the player has.
AllowedWithoutLimit(i, d) ==
  /\ d.action \in i.allowed
  /\ d.action = "bet" => d.amount >= BetFloor(i)

\* decisionAllowedByInput
AllowedByInput(i, d) ==
  /\ d.action \in i.allowed
  /\ d.action = "bet" => d.amount \in BetFloor(i) .. i.stack

-----------------------------------------------------------------------------
(* The local strategy. *)

\* chooseFallbackBetAmount, in every mode, and the clamp of its callers: the
\* target is any number, clamped to what the player may bet.
BetAmounts(i) ==
  IF i.stack <= BetFloor(i) THEN {i.stack} ELSE BetFloor(i) .. i.stack

\* canBet and betWithMode
Bets(i) ==
  IF "bet" \in i.allowed /\ i.stack >= BetFloor(i) THEN {Wager(n) : n \in BetAmounts(i)} ELSE {}

\* Moves taken when they are allowed and a score says so.
Perhaps(i, actions) == {Move(a) : a \in actions \cap i.allowed}

\* The first of several actions that is allowed.
FirstOf(i, order, last) ==
  LET Ok == {k \in DOMAIN order : order[k] \in i.allowed}
  IN  IF Ok = {} THEN last ELSE Move(order[Min(Ok)])

\* shouldFallbackJam: never without chips, otherwise a matter of scores.
Jams(i) == IF i.stack > 0 THEN Perhaps(i, {"allin"}) ELSE {}

\* Mutant: with nothing to call the hand is given up before it is checked.
PreflopFoldsFirst(i) ==
  Perhaps(i, {"allin"}) \cup Bets(i) \cup
  (IF i.facingRaise
   THEN Perhaps(i, {"call"}) \cup {FirstOf(i, <<"fold", "call", "check">>, Move("fold"))}
   ELSE Perhaps(i, {"call"}) \cup {FirstOf(i, <<"fold", "call">>, Move("check"))})

\* fallbackPreflopDecision.  A bet to call above the big blind, its other test
\* for a raise, is a raise before the flop.
PreflopDecisions(i) ==
  Perhaps(i, {"allin"}) \cup Bets(i) \cup
  (IF i.facingRaise
   THEN Perhaps(i, {"call"}) \cup {FirstOf(i, <<"fold", "call", "check">>, Move("fold"))}
   ELSE IF "check" \in i.allowed THEN {Move("check")}
   ELSE Perhaps(i, {"call"}) \cup {FirstOf(i, <<"fold", "call">>, Move("check"))})

\* The river's bluff catchers, thin value and bluffs.
RiverDecisions(i) ==
  IF FacingBet(i)
  THEN IF "call" \in i.allowed THEN Perhaps(i, {"call", "fold"}) ELSE {}
  ELSE Perhaps(i, {"check"}) \cup Bets(i)

\* A strong hand: equity of at least 0.80.
StrongDecisions(i) ==
  Jams(i) \cup Bets(i) \cup (IF FacingBet(i) THEN Perhaps(i, {"call"}) ELSE {}) \cup Perhaps(i, {"check"})

\* A good hand or a strong draw.
GoodDecisions(i) ==
  Bets(i) \cup (IF FacingBet(i) THEN Perhaps(i, {"call", "fold", "check"})
                ELSE Perhaps(i, {"check", "call"}))

\* What is left: defend, bluff or give up.
WeakDecisions(i) ==
  Bets(i) \cup (IF FacingBet(i) THEN Perhaps(i, {"call", "fold"}) ELSE Perhaps(i, {"check"}))

\* fallbackDecisionWithParams.  Before the flop fallbackPreflopDecision always
\* decides; later every block above may be skipped or may decide.
FallbackDecisions(i) ==
  IF i.allowed = {} THEN {Move("fold")}
  ELSE IF i.stage = "preflop" THEN PreflopDecisions(i)
  ELSE (IF i.stage = "river" THEN RiverDecisions(i) ELSE {})
       \cup StrongDecisions(i) \cup GoodDecisions(i) \cup WeakDecisions(i)
       \cup {FirstOf(i, <<"check", "call", "fold", "allin">>, Move("fold"))}

-----------------------------------------------------------------------------
(* The guard. *)

\* decisionPassesEVGuard: the verdicts it may give.  Whoever may act may also
\* fold, so canFold holds.
EVVerdicts(i, edge, d) ==
  IF ~AllowedByInput(i, d) THEN {FALSE}
  ELSE CASE d.action = "fold"  -> {~(FacingBet(i) /\ edge = "ahead")}
         [] d.action = "check" -> {TRUE}
         [] d.action = "call"  -> {edge # "behind"}
         [] d.action = "allin" -> BOOLEAN
         [] d.action = "bet"   -> IF IF FacingBet(i) THEN edge = "behind" ELSE i.opponents >= 3
                                  THEN BOOLEAN ELSE {TRUE}

\* shouldPreferFallbackDecision, given that the fallback passes the EV guard.
PreferVerdicts(i, edge, model, fallback) ==
  LET a == model.action
      b == fallback.action
      weighed == \/ a = "bet" /\ b = "bet"
                 \/ i.stage = "river" /\ FacingBet(i) /\ a = "call" /\ b = "fold"
                 \/ i.stage = "river" /\ ~FacingBet(i) /\ a = "bet" /\ b = "check"
                 \/ FacingBet(i) /\ a = "fold" /\ b \in {"call", "allin"}
                 \/ ~FacingBet(i) /\ a = "check" /\ b = "bet"
                 \/ a = "allin" /\ b # "allin"
  IN  IF weighed THEN BOOLEAN ELSE {FALSE}

\* Mutant: the last resort gives up before it calls.
FoldsAtLast(i, fallback) == FirstOf(i, <<"fold", "check", "call", "allin">>, fallback)

\* The tail of guardAIDecision: check when there is nothing to call, or the
\* first of call, fold and all-in that is allowed.
LastResort(i, fallback) ==
  IF i.call = 0 /\ "check" \in i.allowed THEN Move("check")
  ELSE FirstOf(i, <<"call", "fold", "allin">>, fallback)

\* guardAIDecision
Guarded(i, edge, model, fallback) ==
  UNION { LET modelOk    == v[1]
              fallbackOk == v[2]
              prefer     == fallbackOk /\ v[3]
          IN  {IF modelOk /\ ~prefer THEN model
               ELSE IF fallbackOk THEN fallback ELSE LastResort(i, fallback)} :
          v \in EVVerdicts(i, edge, model) \X EVVerdicts(i, edge, fallback)
                \X PreferVerdicts(i, edge, model, fallback) }

-----------------------------------------------------------------------------
(* The model. *)

\* buildDecisionOptions: the decisions that may be among the options.  The
\* local strategy's own decision always is; the others only when the EV guard
\* lets them pass.
OptionDecisions(i, edge, baseline) ==
  LET Plain  == IF FacingBet(i) THEN {"call", "fold"} ELSE {"check"}
      Others == Perhaps(i, Plain) \cup Jams(i) \cup Bets(i)
  IN  {d \in {baseline} : AllowedByInput(i, d)}
      \cup {d \in Others : TRUE \in EVVerdicts(i, edge, d)}

\* aiEventLoop: materializeDecisionOption replaces the answer by an option, if
\* it names one or is near one; what is not allowed then, and an answer that
\* does not come, is the local strategy's decision.
Taken(i, edge, fallback, answer) ==
  {d \in {answer} \cup OptionDecisions(i, edge, fallback) : AllowedByInput(i, d)} \cup {fallback}

\* The decision sent to applyActionFromAI for the player on turn, whatever the
\* model answers and the scores are.
Sent(i, edge, answer) ==
  UNION { UNION {Guarded(i, edge, d, f) : d \in Taken(i, edge, f, answer)} :
          f \in FallbackDecisions(i) }

\* benchmarkSelfPlayHand: chooseBestDecisionOption and benchmarkSafeDecision,
\* the players being the local strategies alone.
SelfPlayed(i, edge) ==
  UNION { UNION {Guarded(i, edge, d, f) : d \in OptionDecisions(i, edge, f) \cup {f}} :
          f \in FallbackDecisions(i) }

-----------------------------------------------------------------------------
(* Properties of every state of a hand. *)

Accepts(h, u, d) ==
  CASE d.action = "check" -> CanCheck(h, u)
    [] d.action = "call"  -> CanCall(h, u)
    [] d.action = "bet"   -> CanBet(h, u, d.amount)
    [] d.action = "allin" -> CanAllIn(h, u)
    [] d.action = "fold"  -> CanFold(h, u)
    [] OTHER -> FALSE

OnTurn(h) == At(h, h.turn)

\* Answers of the model: every action with amounts inside and outside the
\* limits, and one that is no action.
Answers(i) ==
  {Move(a) : a \in {"check", "call", "allin", "fold", "?"}} \cup {Wager(n) : n \in 0 .. i.stack + 1}

\* Whatever the model answers, and whichever way the scores fall, the decision
\* the worker sends is one the hand accepts: no task is lost to a refused
\* action (aiEventLoop, applyActionFromAI), and self play never stops.
DecisionAccepted ==
  Betting(g) => LET u == OnTurn(g)
                    i == DecisionInput(g, u)
                IN  \A edge \in Edges :
                      /\ \A answer \in Answers(i) : \A d \in Sent(i, edge, answer) : Accepts(g, u, d)
                      /\ \A d \in SelfPlayed(i, edge) : Accepts(g, u, d)

\* The local strategy never gives up a hand that it may check: its folds are
\* tried first only behind conditions that imply a bet to call.
NoFreeFold ==
  Betting(g) => LET i == DecisionInput(g, OnTurn(g))
                IN  "check" \in i.allowed => Move("fold") \notin FallbackDecisions(i)

\* TestStore_GuardAIDecision_RejectsBadFold: when the equity is clearly above
\* the price of a call, no answer of the model makes the server fold, not even
\* when the local strategy would fold too.
NoBadFold ==
  Betting(g) => LET i == DecisionInput(g, OnTurn(g))
                IN  FacingBet(i) => \A answer \in Answers(i) : Move("fold") \notin Sent(i, "ahead", answer)
=============================================================================
