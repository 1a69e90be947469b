------------------------------- MODULE GameView -------------------------------
(***************************************************************************)
(* What the server shows of a hand: GetState's answer to a poll, with the  *)
(* moves it offers to the player on turn and the hole cards each viewer    *)
(* gets to see.  A viewer who is not dealt in (a spectator, or a player    *)
(* who sat down later) is Outsider.                                        *)
(***************************************************************************)
EXTENDS Decisions

Outsider == 0
Viewer == Player \cup {Outsider}

\* Mutant: the button raises by the least raise alone, the call forgotten.
ButtonsUnmatched(h, p, managed) ==
  LET diff == h.roundBet - h.roundContrib[p]
      rest == h.stack[p]
      live == Betting(h) /\ p = At(h, h.turn) /\ p \notin h.folded \cup managed
  IN  [check |-> live /\ diff = 0,
       call  |-> live /\ diff > 0 /\ rest >= diff,
       bet   |-> IF live /\ h.roundBet = 0 /\ rest >= OpenBetMin THEN OpenBetMin ELSE 0,
       raise |-> IF live /\ h.roundBet > 0 /\ rest >= BetMin THEN BetMin ELSE 0,
       fold  |-> live]

\* The buttons GetState offers for p, the player on turn, to a viewer who sits
\* at the table; none while p's hand is played by the server.  canCall needs
\* the whole difference in the stack.
Buttons(h, p, managed) ==
  LET diff == h.roundBet - h.roundContrib[p]
      rest == h.stack[p]
      live == Betting(h) /\ p = At(h, h.turn) /\ p \notin h.folded \cup managed
  IN  [check |-> live /\ diff = 0,
       call  |-> live /\ diff > 0 /\ rest >= diff,
       bet   |-> IF live /\ h.roundBet = 0 /\ rest >= OpenBetMin THEN OpenBetMin ELSE 0,
       raise |-> IF live /\ h.roundBet > 0 /\ rest >= diff + BetMin THEN diff + BetMin ELSE 0,
       fold  |-> live]

\* The hole cards of p that the viewer sees (visibleHoleCards): one's own, and
\* those the reveal mask names once the hand is over.
CardsShown(h, viewer, p) ==
  IF viewer = p THEN {1, 2}
  ELSE IF h.stage = "finished" THEN {k \in {1, 2} : (h.reveal[p] \div k) % 2 = 1} ELSE {}

-----------------------------------------------------------------------------
\* Three copies of the rules agree: allowedActionsForPlayer offers the player
\* on turn exactly the moves and the least bet that ApplyAction accepts, and
\* GetState offers the same, except that a player who cannot match the bet is
\* left to fold or go all-in.
OffersMatchRules ==
  Betting(g) =>
    LET u    == OnTurn(g)
        i    == DecisionInput(g, u)
        b    == Buttons(g, u, {})
        diff == g.roundBet - g.roundContrib[u]
    IN  /\ \A d \in Answers(i) : AllowedByInput(i, d) <=> Accepts(g, u, d)
        /\ b.check <=> CanCheck(g, u)
        /\ b.call  <=> CanCall(g, u) /\ g.stack[u] >= diff
        /\ \A n \in 1 .. g.stack[u] :
             CanBet(g, u, n) <=> \/ b.bet > 0 /\ n >= b.bet
                                 \/ b.raise > 0 /\ n >= b.raise
        /\ b.fold <=> CanFold(g, u)

\* Nobody's cards are shown to another by play itself, unless they are compared
\* at a showdown: the cards of a player who folded, and of one who wins because
\* the others did, are shown only when the hand is over and a reveal asks for it.
CardsStayHidden ==
  [][ \A viewer \in Viewer, p \in Player :
        viewer # p /\ CardsShown(g', viewer, p) # CardsShown(g, viewer, p) =>
          \/ Betting(g) /\ g'.reason = "showdown" /\ p \notin g'.folded
          \/ ~Betting(g) /\ g'.stack = g.stack /\ \A q \in Player \ {p} : g'.reveal[q] = g.reveal[q] ]_vars
=============================================================================
