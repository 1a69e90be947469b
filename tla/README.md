# A verification of yu_texas_holdem

`yu_texas_holdem` is a server for Texas Hold'em tables, written in Go and kept
entirely in memory: rooms, hands, AI players that consult a language model, votes
and chats all live in one `MemoryStore` behind one mutex. This directory holds
TLA+ models of that program, the TLC configurations that check them on small
instances, and proofs, checked by TLAPS, of what matters most about the hand
engine, the evaluator, the rooms, the decisions the server takes for a player, the AI
pipeline, what clients see and what survives a restart. Paths below are relative to the
root of the repository; `game.go` is `internal/domain/game.go`, `memory_store.go` is
`internal/store/memory_store.go`.

## 1. Inventory

| Component | State it keeps | Operations | What makes it hard |
|---|---|---|---|
| **Hand engine** (`game.go`) | `GameState`: players in seat order with stack, stakes, flags; pot, bet to match, street, positions, deck position, result | `NewGame`, `ApplyAction` (check, call, bet, all-in, fold), `SetRevealSelection`, `ForceLeaveForStore`, `FinishByLastStandingForStore` | when a street closes, who is asked next, all-in players, blinds of short stacks, side pots and odd chips |
| **Rooms and tables** (`memory_store.go` 492-1330) | `Room`: players, spectators, owner, status, stacks, dealer, current hand, vote, version, action ids | create, join, watch, leave, add and remove AI players, start, next hand, action, reveal, vote | members come and go in the middle of a hand; two copies of every stack; positions into a slice that shrinks |
| **AI pipeline** (`memory_store.go` 1278-1296, 4519-4684) | `aiQueue` (a channel of 256), `aiWorkers` (one flag per room), memories | enqueue a decision or a summary under the mutex; one goroutine takes tasks, asks the model outside the mutex, applies the answer | version conflicts, retries, a bounded send under the lock the consumer needs, late summaries |
| **AI memory and statistics** (2050-2085, 4402-4518, 4651-4684) | one `RoomAIMemory` per AI or managed player | observe a finished hand, apply a summary | once per hand and player, order of the hands, players who left |
| **AI decisions** (1567-4325, `decision_*.go`, `live_llm_guard.go`, `range_hints.go`) | none | the local strategy, the options offered to the model, the guard that chooses between the model and the strategy | that the decision is one the hand accepts, whatever the model answers |
| **Sessions** (437-470, 1468-1516, `middleware.go`) | `users`, `lastActive` | create, touch, leave all rooms, remove, idle cleanup each minute | decisions from one critical section used in another |
| **Quick chat** (1332-1466) | a bounded, timed list of events, cooldowns, seen ids | send, list, clean up | retention against polling, repeated ids |
| **Benchmark** (`benchmark.go`, `strategy_config.go`) | status, cancel function, strategy parameters in memory and on disk | start, stop, status; one goroutine per start that trains the parameters by self play | stop and start again before the goroutine has noticed; a crash between installing and saving |
| **AI runtime settings** (318-436, `ai_runtime_config.go`) | settings in memory and on disk | update, load | written to disk outside the lock |
| **Cards and evaluation** (`card.go`, `hand_eval.go`) | none | best five of seven, comparison | pure; kickers, wheel straights |
| **AI client and service** (`internal/ai`) | none | one HTTP call, JSON | I/O |
| **HTTP API** (`internal/api`, `cmd/server`) | none | decode, call the store, hide cards | reads the room after the store has unlocked it |
| **Web client** (`web/static/js`) | what it last polled | render, poll, send | I/O |

**How they interact.** A request handler calls one method of the store; the method
takes the mutex, checks, changes the `Room` and often its `GameState`, may send a
task to `aiQueue`, and unlocks. Clients learn of changes by polling, and prove that
they have seen the latest ones by sending back `StateVersion`. The goroutine
`aiEventLoop` takes tasks, calls the language model without the mutex, lets a guard
choose between the answer and the local strategy, and comes back through `applyAction`,
as a client would. Before a handler runs, `RequireSession` looks its user up and notes
that the user is active, each in a critical section of its own. `idleCleanupLoop` leaves
rooms on behalf of users who have been silent for an hour. The training of the benchmark
replaces the parameters of the local strategy while hands are being played.

**What makes each part correct.** The hand: no chip is made or lost, a street closes
only with level stakes, it always waits for somebody who can answer, the pot goes to
who is entitled to it, and it ends. The room: it and its hand agree on who plays; the
owner is at the table; stacks follow the hands; votes are about the present table.
The AI pipeline: an AI player's turn is taken, once and only in the state it was
computed for, and a summary is written once. The AI decisions: every one is a legal
move, and none gives up what is free. The evaluator: hands rank as the rules of poker
say. The clients: a repeated request takes effect once, cards stay hidden, no chat is
missed. The server: who has gone leaves nothing behind, training stops when told to, and
a restart changes no setting. The rest is listed, with the hazards of
every part at their lines, in `PROJECT.json`.

## 2. Modules

| Module | Stands for | State and actions |
|---|---|---|
| `HandEngine` | the functions of `game.go` | operators from a hand (a record) to a hand; no variables, so that `Hand` and `Room` share one translation |
| `Hand` | a `GameState` from the deal to the reveal, at a fixed table | `g`; one action per kind of `ApplyAction` call and `SetRevealSelection` |
| `HandContract` | what a hand of poker promises, whatever its rules | chips in front of the players, the pot, who owes an answer, the street; `Hand` implements it (`HonoursContract`) |
| `Room` | one room of the store and the hands played in it | one action per store method |
| `AIPipeline` | the AI tasks of one room, the queue, the mutex and the goroutine | one action per request, one per critical section of `aiEventLoop` |
| `Decisions` | how the server decides for a player: `buildAIDecisionInput`, the local strategy, the options, the guard | operators from a hand of `Hand` to the set of decisions that may result; no variables of its own |
| `GameView` | `GetState`'s buttons and hole cards | operators over the states of `Hand`, next to those of `Decisions` |
| `HandEval` | `hand_eval.go` and the deck | operators on sets of cards; the state is the cards one player sees, the action draws one |
| `Client` | the browsers of one room, their connections, and the parts of the store they talk to: quick chat, `StateVersion`, `ActionSeen` | one action per request sent, received or answered, per answer shown, and for loss and time |
| `Sessions` | users, sessions, activity, membership, `RequireSession`, `RemoveUser`, `idleCleanupLoop` | one action per critical section |
| `Training` | `BenchmarkManager`, its goroutines and the strategy file | `Start`, `Stop`, one action per step of a loop |
| `RuntimeSettings` | which model the AI players ask, in memory and on disk | update in two steps, loading |
| `Server` | `Sessions`, `Training` and `RuntimeSettings` composed, with the requests that reach them and a restart of the process | their actions, routed as in `main.go`; `Restart` |
| `MCHand`, `MCRoom`, `MCAIPipeline`, `MCHandEval`, `MCClient`, `MCServer` | small instances of these | values for the constants |
| `SumFacts`, `HandFacts` | lemmas about finite sums; lemmas about the operators of `HandEngine`, for any seating: the betting and the settlement | |
| `HandProofs` | theorems about the betting and the settlement of `Hand`, that `Hand` implements `HandContract`, and those of `Decisions` and `GameView` | |
| `HandEvalProofs` | theorems of `HandEval` | |
| `RoomProofs` | theorems of `Room` | |
| `ServerProofs` | theorem of `Server` | |
| `PipelineProofs` | theorems of `AIPipeline` | |
| `ClientProofs` | theorems of `Client` | |

Correspondence with the code, where it is not evident:

- **A call that is refused changes nothing**, so it is not a step. The one exception,
  `NextHand`, which synchronises the room's stacks before it may refuse, is modelled
  with that effect.
- **A store method is one action**, because it holds the mutex from its first check to
  its last assignment. `AIPipeline` splits a method where it can wait: its sends to
  `aiQueue` happen one by one with the mutex held (`outbox`), and the goroutine's
  critical sections are separate actions.
- **Cards** are reduced to how many have been drawn and to the order of the hands they
  make. The order is chosen when the showdown looks at it; no earlier step depends on it.
- **Positions** are kept as the code keeps them, 0-based and clamped, because several of
  the findings are about positions that go stale.
- **A call that never returns** (an index out of range under the mutex, or unbounded
  recursion) leads to the stage `"panic"`, after which nothing is possible.
- **The hand in `AIPipeline`** is who is in it, who can still act and whose turn it is,
  with any outcome the engine allows. What the model answers does not matter to the
  pipeline; that the decision is one the hand accepts in the state it was computed for
  is assumed there, and checked over every state of a hand by `DecisionAccepted`.
- **Scores are choices.** The local strategy weighs equity, board texture, opponents and
  pseudo-random rolls in floating point. `Decisions` keeps its branches on what the hand
  allows, on the street and on a bet to call, and lets a branch that depends on a score go
  either way, so that an operator returns every decision the function may return. One thing
  is kept of the scores: on which side of the two thresholds around the pot odds the
  equity lies (`Edges`), because the tests for refusing a call (`equity + 0.02 < odds`)
  and for refusing a fold (`equity > odds + 0.08`) ask that of the same number.
- **Requests of the server.** A request is three steps, as in `middleware.go`: looked up,
  noted, carried out; others run in between. A removal is one step to list the rooms, one
  for each room, one to forget the user. Rooms are reduced to who is in them. Strategy
  parameters are numbered in the order in which they win.
- **Messages.** A request or an answer stays in `wire` until it is received or lost; a
  request may be received again. Ids of requests are unique, as the browser makes them from
  the time and a random number.
- `RoomPlayer.Seat` and `GamePlayer.SeatIndex` always equal the position when they are
  read; `GamePlayer.AIManaged` always equals `RoomPlayer.AIManaged`. Each pair is one
  piece of state.

## 3. What the runs check

**`hand`** (`MCHand.cfg`): three players whose stacks are 1, 2 or 4 with blinds of 1
and 2, every dealer, every weak order of the hands, every legal bet. The stacks lie
below, at and above the big blind, so blinds that are not covered, three-layer side
pots, odd chips, all-in raises below the minimum and hands that end at the deal all
occur. With two players the blinds fall differently; that case is covered by `room`
and by the proofs, which are for every number of players. Checked are the books
(`LedgerBalances`, `ChipsAccounted`), the betting (`TurnIsOwed`, `StakesLevel`,
`BetIsStaked`, `StepsRespectSeats`), the payout (`SidePotFair`, `StrongestWins`,
`TiesSplit`), the contract (`HonoursContract`) and that the hand ends (`HandEnds`).

In each of these states the run also evaluates what the server would decide and show.
`DecisionAccepted`: for every answer of the model (every action, amounts inside and
outside the limits, and nonsense) and every position of the equity, the decision that
`aiEventLoop` sends, and the one that self play makes, is one `ApplyAction` accepts, so
that no task or training hand is lost to a refused move. `NoFreeFold`: the local strategy
never folds what it may check. `NoBadFold` (the test
`TestStore_GuardAIDecision_RejectsBadFold`, for every state): when the equity clearly
exceeds the price of a call, no answer makes the server fold. `OffersMatchRules`: the rules
are written down three times, in `ApplyAction`, `allowedActionsForPlayer` and `GetState`,
and agree, with one difference that the property states: `canCall` is false for a player
who cannot match the bet, although `ApplyAction` accepts that call as all-in.
`CardsStayHidden`: play shows nobody's cards to another viewer except at a showdown, and
after the hand a reveal shows its own player's cards only. Reading `guardAIDecision` for
`LastResort` shows one more thing, on which nothing in the repository pronounces: when the
guard has refused both the model's and the local decision it *calls*
(`memory_store.go:3770`) even when a call is what it has just refused.

**`eval`** (`MCHandEval.cfg`): every set of up to seven cards of a deck of twelve chosen so
that every category, both ends of the straights, quads, full houses and ties occur.
`RanksAsTheRules` compares `EvaluateFive` and `CompareHandValue`, for any two hands of
five, with the rules of poker stated by which ranks are held how often; `BestIsUnbeaten`
does so for `BestOfSeven` on five, six and seven cards.

**`client`** (`MCClient.cfg`): two players, a page, two requests (chats or moves), five
steps of time, with bubbles shown for one step, a cooldown of two and a retention of three:
the order of the program's 5, 6 and 7 seconds. `TakesEffectOnce`: a request takes effect at
most once however often it arrives. For chats this needs the ids to be kept as long as
copies can arrive (`MsgLife`), across leaving and coming back; for moves the version
suffices, because an accepted move outdates its own version, and `ActionSeen` never
decides. `NothingMissed`: a page that is answered at least once within the retention has
shown every event up to the last it knows of, even when answers are lost or overtaken.

**`server`** (`MCServer.cfg`): one user with two requests at a time, two rooms, two training
loops and one restart. The three properties each carry the exceptions that the code
needs; without any one of them the run fails:

- `IdleUserLeaves`: a user who stops sending is removed from the sessions and from every
  room, except when a removal overlapped a request. A request admitted before the removal
  and carried out after it seats the user again, and if it was noted as activity before the
  removal ended, nobody looks at that user any more: the seat stays taken
  (`middleware.go:28`, `memory_store.go:1490`).
- `TrainingStops`: stopped training ends and its status says so, as long as no loop is
  started before the previous one has seen its cancelled context. Otherwise the old loop's
  last statements (`benchmark.go:113`) clear the new loop's cancel function: the new loop
  runs on, `Stop` finds nothing to stop, and `Start` starts a further one.
- `RestartKeepsSettings`: a restart changes neither the strategy nor the model in use,
  unless a file was being written, its last write failed, or two writers overlapped
  (the file is written after the mutex is released, `memory_store.go:418`).

**`room`** (`MCRoom.cfg`): two humans, one AI player, two hands, two joins or additions;
a stack is one big blind, which makes most hands short and lets showdowns, all-in deals
and leaves in every street happen. Checked: `OwnerAtTable`, `HandMatchesRoom`,
`VoteIsCurrent`, `TurnIsOwedUnlessLeft`, and over steps `OthersKeepChips`,
`NextHandKeepsChips` and two properties that name all the exceptions to what one would
expect:

- `CallsReturnUnlessLeft`: a call to the store does not return (an index out of range, or
  recursion without end) only when there are too many players for the deck, when it moves
  on a hand that somebody has left, or when the last player who can act leaves with several
  all-in.
- `ChipsKept`: at an unchanged table chips are neither made nor lost, a refused `NextHand`
  included, except by a showdown that leaves the stakes of folded or departed players to
  nobody, and by a `StartGame` after a hand that a leaving ended: that deals from stacks the
  room has not brought up to date (`memory_store.go:879`), and the pot of that hand is lost.
  Only losses are excepted. (An approved vote, which gives everybody new chips, is left out.)

**`ai`** (`MCAIPipeline.cfg`): two humans and an AI player, two hands of up to two
actions, two changes of the room that overtake a computation, the queue's real capacity
(it never fills). Checked: one decision at a time and a truthful flag (`OneDecision`),
no turn overlooked (`TurnAttended`, `TurnTaken`), nothing done in a state other than the
one the decision was computed for (`ActsOnWhatItSaw`), summaries written once and not
delayed for ever (`SummaryOnce`, `SummarySettled`), and which finished hands are shown to
the players the AI played for (`HandReviewed`): every hand that an action or a leaving ends,
and no hand that the deal itself finishes because the blinds took all the chips. The latter
departs from README.md:69, which says that at the end of each hand
("每手结束（正常结束 + leave 强制结束）") a review is written: `StartGame` and `NextHand`
(`memory_store.go:866`, `1191`) enqueue no summary when the hand they deal is over. The
property states what the code does. `played` is a history variable: for whom the
AI was asked *while the hand was on*. The memory's own note, `LastDecisionHand`, does not
say that: a room whose hand was ended by the leave of a player stays "playing" until the
turn is asked for once more, and `enqueueAIDecisionLockedWithRetry` then notes the
finished hand for the player at the turn, who need not be shown it. Stated with that note
the property is false; three humans and three changes of the room are what it takes.

Six runs show a disagreement between the program and what its documentation says of it:

| Run | Property | What happens |
|---|---|---|
| `hand_pot` | `PotIsPaidOut` | the part of a folded stake above the second-highest stake still in belongs to no side pot: those chips leave the table (`game.go:546`) |
| `room_pot` | `LeavingPaysPotOnce` | a leave that ends the hand pays the pot twice (`memory_store.go:980`) |
| `room_call` | `CallsReturn` | after a leave, the next street indexes `Players[BigBlindPos]` out of range (`game.go:421`), or a leave recurses without end (`game.go:706`) |
| `room_turn` | `TurnCanAct` | after a leave the turn is with the wrong player, possibly one who is all-in (`memory_store.go:967`) |
| `ai_stall` | `AIActs` | three version changes during the three computations of a decision leave the AI player's turn untaken (`memory_store.go:1287`) |
| `ai_lock` | `LockReleased` | a full queue blocks a sender that holds the mutex its reader needs (`memory_store.go:4602`) |

`PotIsPaidOut` states README.md:321; `ChipsAccounted` says exactly which chips leave.
README.md:322 says that side pots are not implemented; the code implements them, and the
payout properties describe what it does (`NoSidePot` states the sentence and is not run).

**Bounds.** Every bound is a constant with the word *bound* in its comment. Hands are
finite by themselves: no bound is put on the actions of `Hand`. In `Room`, `MaxSeats`,
`MaxEntries` and `MaxHands` cut off an endless coming and going; two hands are what it
takes for the stacks, the dealer and the votes of one hand to reach the next. The deck of
`hand` and `room` has eleven cards, exactly what three players need, so that drawing one
card too many would show; the program's has 52. In
`AIPipeline`, `MaxTurns` and `MaxAsides` keep `StateVersion` finite; two overtaking
changes are the most that the two retries are meant to survive, and `ai_stall` shows the
third. `ai_lock` uses a queue of one place, where the two summaries of a single hand
are enough to fill it. In `Client` two requests are what it takes for one to stand in the
other's way (cooldown, version), and five steps outlast the retention; `MaxPolls`,
`MaxVersion` and `MaxSeatings` bound what is under way. In `Server` three requests are a
visit, a logout and one that overlaps them, or a start, a stop and a start; two loops are
the one that stops and the one that overtakes it; two users would not meet, since rooms
hold no more than their membership.

**Fairness.** `Hand` assumes that the player who is asked answers, which is a promise of
the players and not of the code: a human has no time limit. It is written as
`[]<>~Betting \/ []<><<Betting>>_g` (infinitely often the hand is over, or infinitely
often it moves while bets are taken), which is weak fairness of the players' actions,
some of which are possible exactly while bets are taken (`TurnIsOwed`; a fold is always
accepted). `AIPipeline` assumes that the goroutine runs and that calls to the
model return, which their timeout of eight seconds (`internal/ai/config.go`) justifies,
and that a send for which there is room happens. Nobody has to deal, act or leave.
`Server` assumes weak fairness of each step of a request that was let in and of each step of
a removal (they are statements of a running goroutine), of the cleanup loop (its ticker),
of each training loop, and that an hour without a request passes; nobody has to send a
request, and no request has to be let in. `Client`, like `Room`, assumes nothing: its
properties are invariants. That a page is answered within the retention is a guard of
`Tick`, which says of which executions `NothingMissed` speaks.

**Mutants.** For each property of each passing run `PROJECT.json` names a definition and
a plausible mistake in it (*Mutant* in the comments) that makes the run fail.

## 4. What is proved

Everything in this section holds for every value of the constants that satisfies the
assumptions named here, and about every behaviour of the module's `Spec`; TLC checks the
same properties on the instances of section 3. The bounds of those instances are
constants as well, so the proofs do not depend on them.

**The betting** (`HandProofs`, for every number of players, every blinds, stacks and
ranking of the hands):

- `HandTyped`: the shape of a hand; no stack, stake or pot is negative, the turn is a seat,
  and no call stops for want of cards unless two for each player and five for the board are
  more than the deck has;
- `LedgerAlwaysBalances`, `TurnAlwaysOwed`, `StakesAlwaysLevel`, `BetAlwaysStaked`: the
  four invariants of the betting that `hand` checks on its instance;
- `StepsAlwaysRespectSeats`: the action property;
- `HandInvariant`: the inductive invariant they follow from.

*Assumptions* (on the constants, all named in the modules): the blinds are positive;
the table has at least two different players; stacks are positive; and a ranking gives
every player a number. That the deck holds two cards for each player and five for the board
(`DeckSuffices`) is not assumed, because nothing in the code limits the players of a room:
with more than 23 a deal runs past the 52 cards, and the theorems hold there too.
`ContractHonoured` alone has `DeckSuffices` as its hypothesis, as the contract knows no
call that does not return.

*Argument.* The five invariants are not inductive by themselves. That the turn is always
with somebody who owes an answer depends on *where* the answered players sit: `Raise`
asks again everybody else, the turn goes round in seat order, and a street is
complete when it has come back. `Inv` therefore adds, for a hand in play: the books
(`Booked`), the bounds of the stakes (`Bounded`, `Staked`), what was put in before this
street (`Level`), that whoever has answered has matched the bet or is all-in (`Matched`),
that going round from the turn those who still owe an answer come before those who have
answered (`InOrder`), so that the next seat the search finds owes one unless the round is
complete, that the turn itself is owed (`Owed`), that a player is all-in exactly when out
of chips (`Funded`), and that whoever still has to answer has less in than the bet, unless
the bet is the one the street opened with (`Asked`). `HandFacts` holds what each helper
does to these parts (seat search, `Commit`, `ResetRound`, `LastStanding`, `Refund`, the
layers of the pot) and one lemma per operation: the deal establishes the invariant
(`NewGameInPlay`), each kind of action keeps it (`MovesInPlay`, by way of `Answered` and
`SettleInPlay`). They are stated for any table (`Seated`), with the deck running out as a
further outcome (`Stuck`), after which nothing happens any more; `Room` uses them too.
`SumFacts` holds the facts about finite sums of
chips.

**The settlement** (`HandProofs`, same assumptions): `ChipsAlwaysAccounted`,
`SidePotsAlwaysFair`, `StrongestAlwaysWins`, `TiesAlwaysSplit`. The pot is counted twice.
By layers: what the winners of a layer receive adds up to the layer, because exactly the
remainder of them come before a given place in seat order. By players: the layers of one
stake add up to that stake, up to the highest level. `SumSwap` says that both counts agree,
and the chips that belong to no layer are those of folded players above the called level.
A hand ends at a showdown or because one player is left (`Ended`); either way it satisfies
`Divided`, and the four properties follow from it. `ContractHonoured` is the refinement:
every step of `Hand` is, through the mapping of `HonoursContract`, a step of `HandContract`
or a stutter. It rests on four relations between the hand before and after an operation:
what an answer may change (`Offers`), what the tail of `ApplyAction` may (`Closes`), and
that the turn then passes on (`Passes`) or a street opens (`Opens`).

**The rooms** (`RoomProofs`, for any users, orders of the hands' ranks and bounds):
`TypeCorrect`, `OwnerStaysAtTable`, `HandAgreesWithRoom`, `VoteStaysCurrent`,
`TurnOwedUnlessLeft`, and over steps `CallsAlwaysReturnUnlessLeft`, `ChipsAlwaysKept`,
`OthersAlwaysKeepChips`, `NextHandAlwaysKeepsChips`. *Assumptions*: `RoomAssumption` (humans
and AI players are different and finitely many, a ranking gives every user a number, the
bounds are naturals), the blinds are positive and the deck is of some size. That the deck
suffices is not assumed: a deal that exhausts it is a call that never returns.

*Argument.* None of the five invariants is inductive. The new owner of a room is its first
human player, so `OwnerAtTable` needs that nobody both plays and watches (`SeatsOK`);
`HandMatchesRoom` speaks of the AI players that were removed after the hand, so it needs
that these do not come back and that the hand's human players are members
(`PlayersKnown`); and `TurnIsOwedUnlessLeft` needs everything `Hand` needs, but only as
long as nobody has left. `RoomInv` therefore tells hands apart. A hand that nobody left
(`Whole`) is in play as `Hand` describes it, with what its players brought
(`WholeInPlay`). One that somebody left keeps only what `LeaveRoom` restores: its players
are those of the room in the room's order, positions are in range, and stacks and stakes
belong to players (`Going`). Others are over, or in the call that never returned
(`HandOK`). `StacksKept` is what `ChipsKept` needs for a start: the room's stacks are never
ahead of a finished hand's, so starting from them can only lose chips. `Settled`, `GoesOn`
and `Runs` say what a call of the engine makes of a hand of either kind; there is one lemma
per engine operation, one about cutting a player out of the slice (`Reseated`, `Leaves`),
and one per store method that keeps `RoomInv`. The action properties compare the two ends
of a step (`StepCases`). That chips are kept comes from sums over the players of the room
and of the hand (`Purse`, `Held`): a settlement pays out the whole pot unless it is a
showdown (`Settled`), and at a showdown of a hand nobody left `Divided` tells what is lost
(`EndedKeeps`). That calls return comes from what each operation of the engine needs in
order to run out of cards or of the slice (`Halts`, `LeaveHalts`), and from the cards of a
hand nobody left running out only at a table too large for the deck. TLC checked `RoomInv` itself, as an
invariant, on the instance of `room` and on one with three humans.

**Restarts** (`ServerProofs`, for any number of requests, loops and restarts):
`RestartAlwaysKeepsSettings`. *Assumption*: `SettingAssumption` (what the settings may be).
*Argument*: memory and file differ while a write is on its way. `FilesKept` says what is on
its way: unless the history variable tells of a failed or overtaken write, whoever is
writing writes what memory holds, and when nobody is writing the file holds what memory
does, up to what loading makes of an empty model name.

**Decisions and views** (`HandProofs`, assumptions of the betting): `DecisionsAlwaysAccepted`,
`FallbackNeverFoldsFree`, `GuardRefusesBadFold`, `CopiesOfRulesAgree`,
`CardsAlwaysStayHidden`. The invariant of the betting says what the player on turn is
offered (`Offered`: what `buildAIDecisionInput` may contain), and then each branch of the
local strategy, of the options and of the guard yields a decision within the offer. The
last is an action property and comes from what each step does to the reveal masks.

**The evaluator** (`HandEvalProofs`, for any deck and any number of cards):
`HandsRankAsTheRules`, `BestStaysUnbeaten`. *Assumption*: the cards are of thirteen ranks
and four suits, no two of both (`DeckOfCards`). *Argument*: a rank occurs at most four
times, once in each suit, and five times in all, so the counts of a hand of five, in the
order of `ByCount`, are one of six lists (`SixShapes`). Each of them, with flush and
straight, is one kind of the rules (`KindFacts`), and two hands of one kind, unless it is
told apart by the top of a straight, have lists of one shape. Where such lists differ
first (`FirstDifference`) is the rank the rules look for (`DifferenceDecides`): before it
both hold the same, so what is held more often is the same, and of what is held as often,
what only one hand holds is at most the rank found there. The sort itself is not taken for
granted: `InOrderFacts` shows that picking for each place the rank with so many before it
gives every rank once and in order. For the best of several hands `CompareHandValue` has to be
transitive (`AtMostTransitive`), because `BestOfSeven` compares one hand after another with
the best so far; that the fold over the hands, in any order, then ends with one that is
unbeaten is `PickInduction`.

**The AI pipeline** (`PipelineProofs`, for any players, capacity of the queue, number of
retries, hands and changes): `OneDecisionAtATime`, `TurnNeverOverlooked`,
`DecisionsAreFresh` (an action property), `SummariesAreWrittenOnce`, `HandsAreReviewed`,
from `AlwaysInv`. *Assumptions*: humans and AI players are different and finitely many,
and the numbers that bound the model are naturals (`PipelineAssumption`). *Argument*: what
the loop does with a task depends on what was true when the task was enqueued, so `Inv`
says of every task, wherever it is on its way (in the queue, among the sends a method has
still to make, in the hands of the goroutine), what must still hold of it. A decision that
carries the present version has seen the present hand and belongs to a player the AI
plays (`Fresh`): every method that changes the hand moves the version. A summary is of a
hand that is over and of which the memory does not tell yet (`Unwritten`), and no two on
their way are equal (`OnTheirWayOnce`). While a hand is on, the memory of everybody the
AI has been asked for notes it; when it is over, they have been shown it (`Noted`), and
nobody has if the deal finished it (`Unseen`). Most
methods end in `Commit`, so most of the work is one lemma about `Commit` (`CommitInv`) and
one per method about the room it hands over.

**The clients** (`ClientProofs`, for any number of users, pages, requests and steps of
time): `RequestsTakeEffectOnce` and `NothingIsMissed`. *Assumptions*: the times are
naturals, and `MsgLife <= Retention`, that is, a copy of a chat is not delivered later
than the store keeps its id; the code does not enforce it, and without it a late copy is
said again. *Argument*: both are races of ages. A copy under way is at most `MsgLife` old
and its id was noted after it was sent, so the id is still there when the copy arrives
(`Remembered`); a move that was accepted has outdated the version in its copies
(`Outdated`). For the second, `CompleteFor` says of every page, poll and answer on its
way which events it accounts for, compared with when the page was last answered.

**Only model-checked** is liveness (`HandEnds`, `TurnTaken`, `SummarySettled`,
`IdleUserLeaves`, `TrainingStops`), which is beyond the proof system, as is `ENABLED`.

## 5. What is not modelled, and the plan

Not modelled, with the reason:

- **The scores of the AI players**: equity by simulation, ranges, blockers, board texture,
  the adjustments from opponents' profiles and statistics, `range_hints.go`. They are
  floating-point arithmetic without state; `Decisions` lets them come out either way. The
  counters of `collectHandObservations` and the profiles feed nothing else and stay out
  with them; when they are updated (`LastStatsHand`) is in `AIPipeline`.
- **The client of the language model** (`internal/ai`): prompts, HTTP, JSON. To the store it
  is an answer or an error at some later time, which `AIPipeline` and `Decisions` take.
- **Data races of handlers** that read a room after the store has unlocked it
  (`memory_store.go:1274`): what a build may produce is not an interleaving of steps. It is
  listed as a hazard; `GameView` describes the answer for a room at rest.
- **What the code does not guard against**, and no property would catch, because each
  property names it as an exception: settings lost to overlapping, failed or interrupted
  writes, a training loop started before the last one has noticed its stop, a user seated
  again after the cleanup. The models have these steps; the hazards in `PROJECT.json` say so.
- **The list of rooms**, decoding of requests, status codes, page rendering.

What is worth doing next: `Divided` for a hand of a `Room` that nobody left, so that the
settlement of a room's hands is known to be as fair as that of `Hand`.
