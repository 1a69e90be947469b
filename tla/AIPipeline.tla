------------------------------ MODULE AIPipeline ------------------------------
(***************************************************************************)
(* How the AI players of one room get their turns and their memories       *)
(* written: the store's methods put tasks on a bounded channel while they  *)
(* hold the mutex, and one goroutine, aiEventLoop, takes them, asks the    *)
(* language model without the mutex and applies the answer.                *)
(*                                                                         *)
(* A method is one action, up to its sends: the tasks it still has to send *)
(* are the outbox, and the mutex is held exactly while the outbox is not   *)
(* empty.  The hand is reduced to who is in it, who can still act and      *)
(* whose turn it is; what the engine makes of a call is any outcome that   *)
(* Hand and Room allow.  Decisions are taken to be ones the hand accepts   *)
(* in the state they were computed for.                                    *)
(***************************************************************************)
EXTENDS Integers, Sequences, FiniteSets, SequencesExt, Functions

CONSTANTS Human, Bot,    \* users, and AI players added by the owner
          QueueCap,      \* capacity of aiQueue: 256
          Retries,       \* how often a decision is computed again: 2
          MaxSummaries,  \* MaxAISummaries: 20
          MaxHands,      \* bound: hands dealt
          MaxTurns,      \* bound: 1 + the actions in a hand before its last one
          MaxAsides      \* bound: changes that are neither actions nor deals

Player == Human \cup Bot

ASSUME PipelineAssumption ==
  /\ Human \cap Bot = {} /\ Human # {} /\ IsFiniteSet(Human \cup Bot)
  /\ QueueCap \in Nat \ {0} /\ Retries \in Nat /\ MaxSummaries \in Nat \ {0}

VARIABLES room,    \* the room, its flag in aiWorkers, its hand and AIMemory
          queue,   \* aiQueue
          outbox,  \* what the holder of the mutex has still to send
          loop,    \* where aiEventLoop is, and its task
          gaveUp,  \* the last decision for this turn has failed (history)
          played,  \* for whom the AI was asked while this hand was on (history)
          turns,   \* 1 + the actions in this hand, 0 if the deal ended it (a bound)
          asides   \* other changes (a bound)

past == <<gaveUp, played>>
vars == <<room, queue, outbox, loop, past, turns, asides>>

NoGame   == [stage |-> "none", in |-> {}, able |-> {}]
NoMemory == [decided |-> 0, observed |-> 0, summarized |-> 0, log |-> <<>>]

\* The table before its first hand, everybody seated.
Init ==
  /\ room = [status |-> "waiting", seated |-> Player, managed |-> {}, game |-> NoGame,
             version |-> 1, hand |-> 0, worker |-> FALSE, memory |-> [b \in Bot |-> NoMemory]]
  /\ queue = <<>> /\ outbox = <<>> /\ loop = [phase |-> "ready"]
  /\ gaveUp = FALSE /\ played = {} /\ turns = 0 /\ asides = 0

Unlocked == outbox = <<>>
Exists   == room.status # "deleted"

Automatic(r) == Bot \cup r.managed
CanAct(r, u) == r.game.stage = "play" /\ r.game.turn = u /\ u \in r.game.able

\* ensureAIMemory
Remember(memory, p) ==
  [q \in DOMAIN memory \cup {p} |-> IF q \in DOMAIN memory THEN memory[q] ELSE NoMemory]

-----------------------------------------------------------------------------
(* Tasks. *)

\* Mutant: the flag in aiWorkers is not looked at.
DueAlways(r) ==
  r.status = "playing" /\ r.game.in # {} /\ r.game.turn \in Automatic(r)

Due(r) ==
  r.status = "playing" /\ ~r.worker /\ r.game.in # {} /\ r.game.turn \in Automatic(r)

\* enqueueAIDecisionLocked: a player who has folded or is all-in gets no task,
\* though the memory notes the hand.
EnqueueDecision(r) ==
  IF ~Due(r) THEN r
  ELSE [r EXCEPT !.memory = [Remember(@, r.game.turn) EXCEPT ![r.game.turn].decided = r.hand],
                 !.worker = r.game.turn \in r.game.able]

DecisionTask(r, retries) ==
  IF Due(r) /\ r.game.turn \in r.game.able
  THEN <<[kind |-> "decide", player |-> r.game.turn, version |-> r.version,
          seen |-> r.game, retries |-> retries]>>
  ELSE <<>>

\* For whom the AI has been asked in r's hand when EnqueueDecision(r) has run.
Asked(r) ==
  (IF r.hand = room.hand THEN played ELSE {})
    \cup (IF Due(r) /\ r.game.stage = "play" THEN {r.game.turn} ELSE {})

\* enqueueAISummaryLocked, with the language model switched on.
Reviewed(r) ==
  {p \in r.game.in : p \in Bot \/ (p \in DOMAIN r.memory /\ r.memory[p].decided = r.hand)}

\* Mutant: only the AI players are reviewed.
EnqueueSummariesOfBots(r) ==
  [r EXCEPT !.memory = [p \in DOMAIN @ |->
     IF p \in Reviewed(r) \cap Bot THEN [@[p] EXCEPT !.observed = r.hand] ELSE @[p]]]

EnqueueSummaries(r) ==
  [r EXCEPT !.memory = [p \in DOMAIN @ \cup Reviewed(r) |->
     IF p \in Reviewed(r) THEN [Remember(@, p)[p] EXCEPT !.observed = r.hand] ELSE @[p]]]

SummaryTasks(r) ==
  LET todo == {p \in Reviewed(r) : p \notin DOMAIN r.memory \/ r.memory[p].summarized # r.hand}
  IN  [i \in 1 .. Cardinality(todo) |->
         [kind |-> "summarize", player |-> SetToSeq(todo)[i], hand |-> r.hand]]

\* The last lines of a method that may have changed whose turn it is.
Commit(r, tasks) ==
  LET k == [r EXCEPT !.version = @ + 1] IN
  /\ room'   = EnqueueDecision(k)
  /\ outbox' = tasks \o DecisionTask(k, Retries)
  /\ gaveUp' = FALSE /\ played' = Asked(k)

-----------------------------------------------------------------------------
(* Requests. *)

Aside == Unlocked /\ Exists /\ asides < MaxAsides /\ asides' = asides + 1

\* StartGame and NextHand.  Players without chips are left out; when the blinds
\* take all the chips there are, the hand is over at once.
Deal ==
  /\ Unlocked /\ Exists /\ room.hand < MaxHands
  /\ room.status = "waiting" \/ room.game.stage = "over"
  /\ \E in \in SUBSET room.seated, stage \in {"play", "over"} : \E turn \in in :
       /\ Cardinality(in) >= 2
       /\ turns' = IF stage = "play" THEN 1 ELSE 0
       /\ Commit([room EXCEPT !.status = "playing", !.hand = @ + 1,
                    !.game = [stage |-> stage, in |-> in, turn |-> turn,
                              able |-> IF stage = "play" THEN in ELSE {}]], <<>>)
  /\ UNCHANGED <<queue, loop, asides>>

\* applyAction once the hand has accepted u's action: u may have folded or gone
\* all-in, and the hand goes on or is over.
AfterAction(u) ==
  \/ /\ turns < MaxTurns /\ turns' = turns + 1
     /\ \E able \in {room.game.able, room.game.able \ {u}} : \E turn \in able :
          Commit([room EXCEPT !.game.able = able, !.game.turn = turn], <<>>)
  \/ /\ UNCHANGED turns
     /\ LET r == [room EXCEPT !.game.stage = "over", !.game.able = {}, !.status = "waiting"]
        IN  Commit(EnqueueSummaries(r), SummaryTasks(r))

ApplyAction(u) ==
  /\ Unlocked /\ room.status = "playing" /\ u \in room.seated
  /\ CanAct(room, u) /\ u \notin room.managed
  /\ AfterAction(u)
  /\ UNCHANGED <<queue, loop, asides>>

\* Mutants: the task is not renewed, or the version stays, when a player leaves.
LeftQuietly(r, tasks) ==
  /\ room' = [r EXCEPT !.version = @ + 1] /\ outbox' = tasks
  /\ gaveUp' = FALSE /\ UNCHANGED played
LeftUnversioned(r, tasks) ==
  /\ room' = EnqueueDecision(r)
  /\ outbox' = tasks \o DecisionTask(r, Retries)
  /\ gaveUp' = FALSE /\ played' = Asked(r)

Left(r, tasks) == Commit(r, tasks)

Without(u) ==
  [room EXCEPT !.seated = @ \ {u}, !.managed = @ \ {u}, !.game.in = @ \ {u},
               !.game.able = @ \ {u}, !.memory = Restrict(@, DOMAIN @ \ {u})]

\* LeaveRoom of a player.  The hand goes on with anybody's turn, or ends: as
\* the last player standing wins, or in a showdown, after which the room is
\* still "playing".
LeaveRoom(u) ==
  LET stay == room.game.in \ {u}
      gone == Without(u)
      over == [gone EXCEPT !.game.stage = "over"]
      won  == [over EXCEPT !.status = "waiting", !.game.able = {}]
      playing(stage) == room.status = "playing" /\ room.game.stage = stage
  IN
  /\ Aside /\ u \in room.seated \cap Human
  /\ \/ /\ room.seated \cap Human = {u}
        /\ room' = [gone EXCEPT !.status = "deleted", !.worker = FALSE, !.game = NoGame,
                                !.memory = <<>>]
        /\ UNCHANGED <<outbox, past>>
     \/ /\ room.seated \cap Human # {u}
        /\ \/ room.status = "waiting" /\ Left(gone, <<>>)
           \/ playing("play") /\ Left(EnqueueSummaries(won), SummaryTasks(won))
           \/ playing("over") /\ Left(won, <<>>)
           \/ /\ Cardinality(stay) > 1
              /\ \E turn \in stay :
                   LET r == [over EXCEPT !.game.turn = turn] IN
                   \/ playing("play") /\ Left([gone EXCEPT !.game.turn = turn], <<>>)
                   \/ playing("play") /\ Left(EnqueueSummaries(r), SummaryTasks(r))
                   \/ playing("over") /\ Left(r, <<>>)
  /\ UNCHANGED <<queue, loop, turns>>

SetPlayerAIManaged(u) ==
  /\ Aside /\ u \in room.seated \cap Human
  /\ Commit([room EXCEPT !.managed = IF u \in @ THEN @ \ {u} ELSE @ \cup {u}], <<>>)
  /\ UNCHANGED <<queue, loop, turns>>

\* The methods that move StateVersion and enqueue nothing: a spectator comes or
\* goes, a player reveals cards, an AI player is removed, a user sits down.
Bump(r) ==
  /\ Aside /\ room' = [r EXCEPT !.version = @ + 1]
  /\ UNCHANGED <<queue, outbox, loop, past, turns>>

Watch == Bump(room)

JoinRoom(u) ==
  /\ u \notin room.seated /\ room.status = "waiting"
  /\ Bump([room EXCEPT !.seated = @ \cup {u}])
RemoveAI(b) ==
  /\ b \in room.seated /\ room.status = "waiting"
  /\ Bump([room EXCEPT !.seated = @ \ {b}, !.memory = Restrict(@, DOMAIN @ \ {b})])

At(phase) == loop.phase = phase
Ready == [phase |-> "ready"]

\* The holder of the mutex, a request or the loop itself, sends its next task.
Send ==
  /\ ~Unlocked /\ Len(queue) < QueueCap
  /\ queue' = Append(queue, Head(outbox)) /\ outbox' = Tail(outbox)
  /\ loop'  = IF At("sending") /\ Len(outbox) = 1 THEN Ready ELSE loop
  /\ UNCHANGED <<room, past, turns, asides>>

Request ==
  \/ Deal \/ Watch
  \/ \E u \in Human : ApplyAction(u) \/ LeaveRoom(u) \/ SetPlayerAIManaged(u) \/ JoinRoom(u)
  \/ \E b \in Bot : RemoveAI(b)

-----------------------------------------------------------------------------
(* aiEventLoop. *)

\* The loop has called a method that enqueues; it holds the mutex until it has
\* sent what that method put into the outbox.
Back == loop' = IF outbox' = <<>> THEN Ready ELSE [phase |-> "sending"]

Take ==
  /\ At("ready") /\ queue # <<>>
  /\ loop'  = [phase |-> IF Head(queue).kind = "decide" THEN "deciding" ELSE "checking",
               task  |-> Head(queue)]
  /\ queue' = Tail(queue)
  /\ UNCHANGED <<room, outbox, past, turns, asides>>

\* Mutant: the flag is cleared only by a decision that is applied.
ClearWorkerLate ==
  /\ At("deciding") /\ Unlocked
  /\ room' = [room EXCEPT !.worker = @ /\ room.version # loop.task.version]
  /\ loop' = [loop EXCEPT !.phase = "applying"]
  /\ UNCHANGED <<queue, outbox, past, turns, asides>>

\* DecideAction has answered or timed out: applyActionFromAI clears the flag,
\* and lets go of the mutex.
ClearWorker ==
  /\ At("deciding") /\ Unlocked
  /\ room' = [room EXCEPT !.worker = FALSE]
  /\ loop' = [loop EXCEPT !.phase = "applying"]
  /\ UNCHANGED <<queue, outbox, past, turns, asides>>

Accepted(t) ==
  /\ room.status = "playing" /\ t.player \in room.seated
  /\ room.version = t.version /\ CanAct(room, t.player)

ApplyDecision ==
  /\ At("applying") /\ Unlocked /\ Accepted(loop.task)
  /\ AfterAction(loop.task.player) /\ Back
  /\ UNCHANGED <<queue, asides>>

DecisionRefused ==
  /\ At("applying") /\ Unlocked /\ ~Accepted(loop.task)
  /\ IF loop.task.retries > 0
     THEN loop' = [loop EXCEPT !.phase = "failed"] /\ UNCHANGED gaveUp
     ELSE loop' = Ready /\ gaveUp' = ~room.worker
  /\ UNCHANGED <<room, queue, outbox, played, turns, asides>>

\* Mutant: a decision that was refused is not computed again.
RetryDropped ==
  /\ At("failed") /\ Unlocked /\ loop' = Ready
  /\ UNCHANGED <<room, queue, outbox, past, turns, asides>>

RetryDecision ==
  /\ At("failed") /\ Unlocked
  /\ room'   = EnqueueDecision(room)
  /\ outbox' = DecisionTask(room, loop.task.retries - 1)
  /\ gaveUp' = FALSE /\ played' = Asked(room)
  /\ Back
  /\ UNCHANGED <<queue, turns, asides>>

\* A summary waits while a decision of its room is on its way.
CheckWorker ==
  /\ At("checking") /\ Unlocked
  /\ loop' = [loop EXCEPT !.phase = IF room.worker THEN "putting back" ELSE "summarizing"]
  /\ UNCHANGED <<room, queue, outbox, past, turns, asides>>

\* Mutant: the summary is put back and written all the same.
PutBackAndGoOn ==
  /\ At("putting back") /\ Len(queue) < QueueCap
  /\ queue' = Append(queue, loop.task) /\ loop' = [loop EXCEPT !.phase = "summarizing"]
  /\ UNCHANGED <<room, outbox, past, turns, asides>>

PutBack ==
  /\ At("putting back") /\ Len(queue) < QueueCap
  /\ queue' = Append(queue, loop.task) /\ loop' = Ready
  /\ UNCHANGED <<room, outbox, past, turns, asides>>

SummaryFailed ==
  /\ At("summarizing") /\ loop' = Ready
  /\ UNCHANGED <<room, queue, outbox, past, turns, asides>>

LastOf(s, n) == IF Len(s) > n THEN SubSeq(s, Len(s) - n + 1, Len(s)) ELSE s

\* applySummary, which makes a memory again for a player who has left.
ApplySummary ==
  /\ At("summarizing") /\ Unlocked
  /\ LET t   == loop.task
         mem == Remember(room.memory, t.player)
     IN  room' = IF ~Exists THEN room
                 ELSE IF mem[t.player].summarized = t.hand THEN [room EXCEPT !.memory = mem]
                 ELSE [room EXCEPT !.memory = [mem EXCEPT ![t.player].summarized = t.hand,
                                ![t.player].log = LastOf(Append(@, t.hand), MaxSummaries)]]
  /\ loop' = Ready
  /\ UNCHANGED <<queue, outbox, past, turns, asides>>

EventLoop ==
  \/ Take \/ ClearWorker \/ ApplyDecision \/ DecisionRefused \/ RetryDecision
  \/ CheckWorker \/ PutBack \/ SummaryFailed \/ ApplySummary

Next == Request \/ Send \/ EventLoop

Spec == Init /\ [][Next]_vars

\* The goroutine runs, and DecideAction and SummarizeHand return: both have a
\* timeout.  Nobody has to act, deal or leave.
FairSpec == Spec /\ WF_vars(EventLoop) /\ WF_vars(Send)

-----------------------------------------------------------------------------
Tasks(s) == {s[i] : i \in DOMAIN s}

\* The decisions of the room that are still to be applied.
Pending ==
  Cardinality({i \in DOMAIN queue : queue[i].kind = "decide"})
  + Cardinality({i \in DOMAIN outbox : outbox[i].kind = "decide"})
  + (IF At("deciding") THEN 1 ELSE 0)

AITurn == room.status = "playing" /\ room.game.stage = "play"
          /\ room.game.turn \in Automatic(room) \cap room.game.able

\* The flag in aiWorkers tells exactly whether a decision of the room is on its
\* way: there are never two, whatever races with the moment between the
\* clearing of the flag and the action, and no flag is left behind that would
\* keep the room from ever asking again.
OneDecision == Exists => Pending = (IF room.worker THEN 1 ELSE 0)

\* An AI player's turn is never overlooked: a decision for the room is on its
\* way or being applied, unless the last one has used up its retries.
TurnAttended ==
  AITurn => room.worker \/ At("applying") \/ At("failed") \/ gaveUp

\* An AI player acts only on what it has seen: the hand in which a decision is
\* applied is the hand it was computed for, and its player is still to be
\* played by the AI, whatever happened while the model was thinking.
ActsOnWhatItSaw ==
  [][ApplyDecision => /\ room.game = loop.task.seen
                      /\ loop.task.player \in Automatic(room)]_vars

\* A summary is written at most once, however often it is put back: none is on
\* its way twice, or for a hand the memory already tells of.
SummaryOnce ==
  LET held == IF loop.phase \in {"ready", "sending"} THEN <<>> ELSE <<loop.task>>
      line == queue \o outbox \o held
  IN  \A i \in DOMAIN line : line[i].kind = "summarize" =>
        /\ \A j \in DOMAIN line : line[i] = line[j] => i = j
        /\ line[i].player \in DOMAIN room.memory =>
             line[i].hand \notin Tasks(room.memory[line[i].player].log)

\* When a hand that was played is over, by an action or by a leaving, everybody the
\* AI played in it and who stays has been shown it: the AI players, and the humans
\* for whom it was asked, if only once.  A hand the deal itself has finished, as the
\* blinds took all the chips, is shown to nobody: StartGame and NextHand ask for no
\* summary.
HandReviewed ==
  room.game.stage = "over" =>
    IF turns > 0
    THEN \A p \in (Bot \cup played) \cap room.game.in \cap room.seated :
           p \in DOMAIN room.memory /\ room.memory[p].observed = room.hand
    ELSE \A p \in DOMAIN room.memory : room.memory[p].observed # room.hand

\* Unless its retries are used up, an AI player's turn is taken or passes.
TurnTaken == AITurn ~> (~AITurn \/ gaveUp)

\* A summary does not go round for ever while its room is busy.
SummarySettled ==
  \A h \in 1 .. MaxHands :
    LET waits == \E t \in Tasks(queue) : t.kind = "summarize" /\ t.hand = h IN waits ~> ~waits

\* README.md:67, "an AI player's turn is acted on automatically".
AIActs == AITurn ~> ~AITurn

\* README.md:65, "under the lock there is only snapshot, check and commit": the
\* mutex is released again.
LockReleased == ~Unlocked ~> Unlocked
=============================================================================
