--------------------------------- MODULE Room ---------------------------------
(***************************************************************************)
(* One room of the MemoryStore: its members, its votes and the hands that  *)
(* are played in it, one after another.  Every action is one method of the *)
(* store, which runs under the store's mutex from its first check to its   *)
(* last assignment; a call the method refuses changes nothing.             *)
(*                                                                         *)
(* A panic inside a hand leaves the mutex locked (or ends the process):    *)
(* from then on no action is possible.                                     *)
(*                                                                         *)
(* RoomPlayer.Seat and GamePlayer.SeatIndex always equal the position in   *)
(* Players when they are read, and are replaced by it.  StateVersion and   *)
(* the queue of the AI players are modelled in AIPipeline.                 *)
(***************************************************************************)
EXTENDS HandEngine

CONSTANTS Human,         \* users with a session
          Bot,           \* the AI players an owner may add
          Creator,       \* the user who creates the room
          DefaultStack,  \* DefaultPlayerStack
          Orders,        \* the orders in which hands may rank
          Masks,         \* reveal masks asked for
          MaxSeats,      \* bound: players at the table
          MaxEntries,    \* bound: successful joins and additions
          MaxHands       \* bound: hands dealt

User == Human \cup Bot

ASSUME RoomAssumption ==
  /\ Creator \in Human /\ Human \cap Bot = {}
  /\ DefaultStack \in Nat \ {0}
  /\ Orders \subseteq [User -> Nat]
  /\ MaxSeats \in Nat /\ MaxEntries \in Nat /\ MaxHands \in Nat

VARIABLES players,     \* Room.Players, in seat order
          spectators,  \* Room.Spectators
          owner,       \* Room.OwnerUserID
          status,      \* Room.Status: "waiting", "playing"; "deleted" once removed
          stack,       \* RoomPlayer.Stack, 0 for a user who is no player
          nextDealer,  \* Room.NextDealerPos
          game,        \* Room.Game
          vote,        \* Room.ChipRefreshVote
          hands,       \* Room.HandCounter
          bots,        \* the AI players ever added: newAIUserID reuses no id
          entries      \* how often somebody sat down (a bound)

seats == <<players, spectators, owner, bots, entries>>
vars  == <<seats, status, stack, nextDealer, game, vote, hands>>

NoGame == [stage |-> "none"]
NoVote == [result |-> "none", eligible |-> {}, agreed |-> {}]

Members == Range(players)
Humans(ps) == Range(ps) \cap Human

\* The users of S, in the order of ps: the loops that copy some of the players
\* of a room or a hand.
Among(ps, S) ==
  LET kept[i \in 0 .. Len(ps)] ==
        IF i = 0 THEN <<>>
        ELSE IF ps[i] \in S THEN Append(kept[i - 1], ps[i]) ELSE kept[i - 1]
  IN  kept[Len(ps)]

Up == status # "deleted" /\ game.stage # "panic"

\* canRunChipRefreshVote
BetweenHands == game.stage \in {"none", "finished"}

-----------------------------------------------------------------------------
(* Members. *)

\* CreateRoom
Init ==
  /\ players = <<Creator>> /\ spectators = {} /\ owner = Creator
  /\ status = "waiting"
  /\ stack = [u \in User |-> IF u = Creator THEN DefaultStack ELSE 0]
  /\ nextDealer = 0 /\ game = NoGame /\ vote = NoVote /\ hands = 0 /\ bots = {} /\ entries = 0

SitDown(u) ==
  /\ Len(players) < MaxSeats /\ entries < MaxEntries
  /\ players' = Append(players, u)
  /\ stack'   = [stack EXCEPT ![u] = DefaultStack]
  /\ entries' = entries + 1

\* Mutants: the new player goes on watching; the vote stays open.
JoinStillWatching(u) ==
  /\ Up /\ u \in Human \ Members /\ status = "waiting"
  /\ SitDown(u)
  /\ vote' = NoVote
  /\ UNCHANGED <<spectators, owner, bots, status, nextDealer, game, hands>>
JoinKeepsVote(u) ==
  /\ Up /\ u \in Human \ Members /\ status = "waiting"
  /\ SitDown(u)
  /\ spectators' = spectators \ {u}
  /\ UNCHANGED <<owner, bots, status, nextDealer, game, vote, hands>>

JoinRoom(u) ==
  /\ Up /\ u \in Human \ Members /\ status = "waiting"
  /\ SitDown(u)
  /\ spectators' = spectators \ {u}
  /\ vote' = NoVote
  /\ UNCHANGED <<owner, bots, status, nextDealer, game, hands>>

SpectateRoom(u) ==
  /\ Up /\ u \in Human \ (Members \cup spectators)
  /\ spectators' = spectators \cup {u}
  /\ UNCHANGED <<players, owner, bots, entries, status, stack, nextDealer, game, vote, hands>>

AddAI(bot) ==
  /\ Up /\ bot \in Bot \ bots /\ status = "waiting"
  /\ SitDown(bot)
  /\ bots' = bots \cup {bot}
  /\ UNCHANGED <<spectators, owner, status, nextDealer, game, vote, hands>>

RemoveAI(bot) ==
  /\ Up /\ bot \in Bot \cap Members /\ status = "waiting"
  /\ players' = Among(players, User \ {bot})
  /\ stack'   = [stack EXCEPT ![bot] = 0]
  /\ UNCHANGED <<spectators, owner, bots, entries, status, nextDealer, game, vote, hands>>

-----------------------------------------------------------------------------
(* Hands. *)

\* buildGameFromRoom and NewGame: the players with chips, in seat order, and
\* the first of them at or after NextDealerPos as the dealer.
Dealt(stacks, s) ==
  LET n       == Len(players)
      In      == {u \in Members : stacks[u] > 0}
      seating == Among(players, In)
      hop     == Min({i \in 0 .. n - 1 : players[((nextDealer + i) % n) + 1] \in In})
      dealer  == players[((nextDealer + hop) % n) + 1]
  IN  NewGame(seating, stacks, CHOOSE d \in 0 .. Len(seating) - 1 : seating[d + 1] = dealer, s)

EnoughChips(stacks) == Cardinality({u \in Members : stacks[u] > 0}) >= 2

\* nextDealerPosAfterStart
DealerAfter(g) ==
  (CHOOSE i \in 1 .. Len(players) : players[i] = At(g, g.dealer)) % Len(players)

Deal(stacks) ==
  /\ hands < MaxHands
  /\ \E s \in Orders : game' = Dealt(stacks, s)
  /\ IF game'.stage = "panic" THEN UNCHANGED <<status, vote, hands, nextDealer>>
     ELSE /\ status' = "playing" /\ vote' = NoVote /\ hands' = hands + 1
          /\ nextDealer' = DealerAfter(game')
  /\ UNCHANGED seats

StartGame ==
  /\ Up /\ status = "waiting" /\ Len(players) >= 2 /\ EnoughChips(stack)
  /\ Deal(stack)
  /\ UNCHANGED stack

\* Mutants: winnings are added to stacks that hold them already; the room's
\* stacks are taken for the hand's.
StacksWithWinnings ==
  [u \in User |-> IF u \in Members \cap InHand(game) THEN game.stack[u] + game.won[u] ELSE stack[u]]
StacksOfRoom == stack

\* The stacks of the finished hand, and RoomPlayer.Stack for who was not in it.
StacksAfterHand ==
  [u \in User |-> IF u \in Members \cap InHand(game) THEN game.stack[u] ELSE stack[u]]

\* The room's stacks are brought up to date even when the next hand is refused.
NextHand ==
  /\ Up /\ game.stage = "finished"
  /\ stack' = StacksAfterHand
  /\ IF EnoughChips(StacksAfterHand) THEN Deal(StacksAfterHand)
     ELSE UNCHANGED <<seats, status, nextDealer, game, vote, hands>>

\* The rest of applyAction once the hand has accepted the action.
AfterAction(g) ==
  /\ game'   = g
  /\ stack'  = [u \in User |-> IF u \in Members \cap InHand(g) /\ g.stage # "panic"
                               THEN g.stack[u] ELSE stack[u]]
  /\ status' = IF g.stage = "finished" THEN "waiting" ELSE status
  /\ UNCHANGED <<seats, nextDealer, vote, hands>>

ApplyAction(u) ==
  /\ Up /\ status = "playing" /\ u \in Members /\ MayAct(game, u)
  /\ \E s \in Orders :
       \/ CanCheck(game, u) /\ AfterAction(Check(game, u, s))
       \/ CanCall(game, u)  /\ AfterAction(Call(game, u, s))
       \/ CanAllIn(game, u) /\ AfterAction(AllIn(game, u, s))
       \/ CanFold(game, u)  /\ AfterAction(Fold(game, u, s))
       \/ \E n \in 1 .. game.stack[u] :
            CanBet(game, u, n) /\ AfterAction(Bet(game, u, n, s))

ApplyReveal(u) ==
  /\ Up /\ game.stage = "finished" /\ u \in Members
  /\ \E mask \in Masks : CanReveal(game, u, mask) /\ game' = SetReveal(game, u, mask)
  /\ UNCHANGED <<seats, status, stack, nextDealer, vote, hands>>

-----------------------------------------------------------------------------
(* Leaving. *)

LeaveAsSpectator(u) ==
  /\ Up /\ u \in spectators
  /\ spectators' = spectators \ {u}
  /\ UNCHANGED <<players, owner, bots, entries, status, stack, nextDealer, game, vote, hands>>

\* Mutants: the turn is not kept in range; the stakes are collected.
WithoutTurn(g, ps) ==
  LET seating == Among(ps, InHand(g))
      n       == Len(seating)
  IN  [g EXCEPT !.players = seating,
                !.dealer = IF n > 0 /\ @ >= n THEN n - 1 ELSE @]
WithoutStakes(g, ps) ==
  [g EXCEPT !.players = Among(ps, InHand(g)),
            !.turn    = 0, !.dealer = 0,
            !.contributed = [p \in DOMAIN @ |-> 0]]

\* The hand without the player who left, in the room's order.  TurnPos and
\* DealerPos are only kept in range, and BigBlindPos is not looked at.
Without(g, ps) ==
  LET seating == Among(ps, InHand(g))
      n       == Len(seating)
      keep(f) == Restrict(f, Range(seating))
  IN  [g EXCEPT !.players = seating,
                !.turn   = IF n > 0 /\ @ >= n THEN 0 ELSE @,
                !.dealer = IF n > 0 /\ @ >= n THEN n - 1 ELSE @,
                !.stack = keep(@), !.contributed = keep(@), !.roundContrib = keep(@),
                !.won = keep(@), !.reveal = keep(@), !.strength = keep(@),
                !.folded = @ \cap Range(seating), !.allIn = @ \cap Range(seating),
                !.hasActed = @ \cap Range(seating)]

\* Mutant: the room goes to the first player, AI or not.
FirstPlayer(ps) == ps[1]

FirstHuman(ps) == ps[Min({i \in DOMAIN ps : ps[i] \in Human})]

\* LeaveRoom of a player.
LeaveRoom(u) ==
  /\ Up /\ u \in Members \cap Human
  /\ \E s \in Orders :
       LET inPlay  == status = "playing" /\ game # NoGame
           left    == IF inPlay THEN ForceLeave(game, u, s) ELSE game
           ps      == Among(players, User \ {u})
           g       == IF game = NoGame THEN NoGame ELSE Without(left, ps)
           over    == inPlay /\ Cardinality(Active(g)) <= 1
       IN
         \/ /\ left.stage = "panic"
            /\ game' = left
            /\ UNCHANGED <<seats, status, stack, nextDealer, vote, hands>>
         \/ /\ left.stage # "panic" /\ Humans(ps) = {}
            /\ status' = "deleted"
            /\ players' = <<>> /\ spectators' = {} /\ stack' = [p \in User |-> 0]
            /\ game' = NoGame /\ vote' = NoVote
            /\ UNCHANGED <<owner, bots, entries, nextDealer, hands>>
         \/ /\ left.stage # "panic" /\ Humans(ps) # {}
            /\ players' = ps
            /\ stack'   = [stack EXCEPT ![u] = 0]
            /\ vote'    = NoVote
            /\ owner'   = IF owner = u THEN FirstHuman(ps) ELSE owner
            /\ game'    = IF over THEN LastStanding(g) ELSE g
            /\ status'  = IF over THEN "waiting" ELSE status
            /\ UNCHANGED <<spectators, bots, entries, nextDealer, hands>>

-----------------------------------------------------------------------------
(* The vote that refreshes everybody's chips. *)

StartChipRefreshVote ==
  /\ Up /\ BetweenHands
  /\ vote' = [result |-> "pending", eligible |-> Humans(players), agreed |-> {}]
  /\ UNCHANGED <<seats, status, stack, nextDealer, game, hands>>

CanVote(u) ==
  /\ Up /\ u \in Members /\ BetweenHands
  /\ vote.result = "pending" /\ u \in vote.eligible \ vote.agreed

VoteAgree(u) ==
  /\ CanVote(u)
  /\ LET agreed == vote.agreed \cup {u}
         all    == agreed = vote.eligible
     IN  /\ vote' = [vote EXCEPT !.agreed = agreed,
                                 !.result = IF all THEN "approved" ELSE @]
         /\ stack' = IF all THEN [p \in User |-> IF p \in Members THEN DefaultStack ELSE stack[p]]
                     ELSE stack
         /\ game'  = IF all /\ game # NoGame
                     THEN [game EXCEPT !.stack = [p \in DOMAIN @ |-> DefaultStack]]
                     ELSE game
  /\ UNCHANGED <<seats, status, nextDealer, hands>>

VoteReject(u) ==
  /\ CanVote(u)
  /\ vote' = [vote EXCEPT !.result = "rejected"]
  /\ UNCHANGED <<seats, status, stack, nextDealer, game, hands>>

-----------------------------------------------------------------------------
Next ==
  \/ \E u \in Human : JoinRoom(u) \/ SpectateRoom(u) \/ LeaveRoom(u) \/ LeaveAsSpectator(u)
  \/ \E bot \in Bot : AddAI(bot) \/ RemoveAI(bot)
  \/ StartGame \/ NextHand
  \/ \E u \in User : ApplyAction(u)
  \/ \E u \in Human : ApplyReveal(u)
  \/ StartChipRefreshVote
  \/ \E u \in Human : VoteAgree(u) \/ VoteReject(u)

Spec == Init /\ [][Next]_vars

-----------------------------------------------------------------------------
Sum(f) == SumFunctionOnSet(f, DOMAIN f)

\* The shape of a room.
RoomTypeOK ==
  /\ players \in Seq(User) /\ spectators \subseteq Human /\ bots \subseteq Bot /\ owner \in Human
  /\ status \in {"waiting", "playing", "deleted"}
  /\ stack \in [User -> Nat] /\ nextDealer \in Nat
  /\ game.stage \in Streets \cup {"none", "finished", "panic"}
  /\ vote.result \in {"none", "pending", "approved", "rejected"}
  /\ vote.eligible \subseteq Human /\ vote.agreed \subseteq Human
  /\ hands \in 0 .. MaxHands /\ entries \in 0 .. MaxEntries

\* A room that exists is owned by one of the human players at its table, nobody
\* has two seats and nobody both plays and watches, through every order of
\* joining, watching, leaving and changing owner.
OwnerAtTable ==
  status # "deleted" =>
    /\ owner \in Humans(players)
    /\ Cardinality(Members) = Len(players)
    /\ Members \cap spectators = {}

\* The hand being played and the room agree on who is in it and in which order:
\* while bets are taken the room is "playing", its members cannot be removed
\* behind the hand's back, and the dealer and the turn are seats of the hand.
HandMatchesRoom ==
  Betting(game) =>
    /\ status = "playing"
    /\ game.players = Among(players, InHand(game))
    /\ {game.dealer, game.turn} \subseteq Seats(game)

\* A vote is only ever about the present table between two hands: whoever may
\* vote is exactly who sits there, so that no departed or later player can
\* decide it or block it, and it is approved when, and only when, all agreed.
VoteIsCurrent ==
  vote # NoVote /\ Up =>
    /\ BetweenHands
    /\ vote.eligible = Humans(players)
    /\ vote.agreed \subseteq vote.eligible
    /\ (vote.result = "approved" <=> vote.agreed = vote.eligible)

\* The calls that do not return, all of them: one that needs more cards than are
\* in the deck, because too many sit at the table; one that moves on a hand that
\* somebody has left (there are fewer players than were dealt two cards each);
\* and the leave of the last player who can act, with several all-in.  Nothing
\* else that is called in any order ends in an index out of range or in
\* recursion without end.
CallsReturnUnlessLeft ==
  [][game.stage # "panic" /\ game'.stage = "panic" =>
       \/ 2 * Len(players) + 5 > DeckSize
       \/ Betting(game) /\ game.drawn # 2 * Len(game.players) + game.board
       \/ \E u \in Human : /\ LeaveRoom(u) /\ Betting(game)
                           /\ Playable(game) = {u} /\ Cardinality(Active(game) \ {u}) > 1 ]_vars

\* While bets are taken, a step changes the chips of the player whose turn it is
\* and of nobody else, unless it ends the hand; joining, watching, voting and
\* leaving leave the others' stacks and stakes alone.
OthersKeepChips ==
  [][Betting(game) /\ Betting(game') =>
       /\ InHand(game') \subseteq InHand(game)
       /\ \A p \in InHand(game') :
            game'.stack[p] # game.stack[p] \/ game'.contributed[p] # game.contributed[p]
              => p = At(game, game.turn) /\ Members = Range(players') ]_vars

\* The chips of the players: what the next hand would be dealt from, and the
\* pot of the hand in progress.
Chips ==
  Sum([p \in Members |-> IF game.stage # "none" /\ p \in InHand(game) THEN game.stack[p] ELSE stack[p]])
    + (IF Betting(game) THEN game.pot ELSE 0)

\* Showdown leaves chips nobody receives: what somebody who has left the hand
\* put in, or what a folded player put in above the called level.
LosesStakes ==
  /\ Betting(game) /\ game'.reason = "showdown"
  /\ \/ game.drawn # 2 * Len(game.players) + game.board
     \/ \E p \in game'.folded : game'.contributed[p] > CalledLevel(game', Active(game'))

\* While the table stays the same, chips are neither made nor lost by playing,
\* dealing the next hand, refusing it, starting again or a vote that is not
\* approved.  Two kinds of steps are the exceptions, and they lose chips: a
\* showdown that loses stakes, and a start after a hand whose stacks the room
\* never took over, because a leaving ended it.
ChipsKept ==
  [][Members = Range(players') /\ ~(vote'.result = "approved" /\ vote.result = "pending") /\ Up' =>
       \/ Chips' = Chips
       \/ Chips' < Chips /\ LosesStakes
       \/ Chips' < Chips /\ StartGame /\ stack # StacksAfterHand]_vars

\* What the players bring to the next hand is what the last one left them, and
\* whoever still has chips is dealt in.
NextHandKeepsChips ==
  [][NextHand /\ Betting(game') /\ hands' > hands =>
       \A p \in Members :
         LET had == IF p \in InHand(game) THEN game.stack[p] ELSE stack[p] IN
         IF p \in InHand(game') THEN game'.stack[p] + game'.contributed[p] = had ELSE had = 0]_vars

\* Until somebody leaves in the middle of a hand (each player was dealt two of
\* the cards drawn), the hand waits for a player who can act and still owes an
\* answer: whoever sits out, sits down between hands or was removed before.
TurnIsOwedUnlessLeft ==
  Betting(game) /\ game.drawn = 2 * Len(game.players) + game.board =>
    LET u == At(game, game.turn) IN u \in Playable(game) /\ u \notin game.hasActed

\* game.js:642 marks the player at TurnPos "in action", and game.js:312 asks the
\* others to wait for their turn: the player the hand waits for can act.
TurnCanAct == Betting(game) => At(game, game.turn) \in Playable(game)

\* README.md:185, leaving: "the room still exists: returns the room object".
\* A call to the store returns, whoever leaves and whenever.
CallsReturn == game.stage # "panic"

\* README.md:321, "distribute the pot": a player's leaving may end the hand and
\* pay its pot, but the players who stay and the pot hold no more than before.
LeavingPaysPotOnce ==
  [][Range(players') # Members /\ Range(players') \subseteq Members /\ Up' => Chips' <= Chips]_vars
=============================================================================
