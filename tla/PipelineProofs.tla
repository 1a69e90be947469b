---------------------------- MODULE PipelineProofs ----------------------------
(***************************************************************************)
(* Proofs about AIPipeline, for any number of players, capacity of the     *)
(* queue, retries and hands: the flag of a room counts its decisions, an   *)
(* AI player's turn is attended to, a decision is applied only to what it  *)
(* was computed for, and summaries are asked for and written once.         *)
(*                                                                         *)
(* What the event loop will do with a task depends on what was true when   *)
(* the task was put on the queue.  The invariant says of every task, where *)
(* ever it is on its way, what must still hold for it: a decision of the   *)
(* present version has seen the present hand; a summary is of a hand that  *)
(* is over, and no memory tells of it yet.                                 *)
(***************************************************************************)
EXTENDS AIPipeline, SequenceTheorems, FiniteSetTheorems, TLAPS

-----------------------------------------------------------------------------
(* Types. *)

Hand   == [stage : {"play", "over"}, in : SUBSET Player, able : SUBSET Player, turn : Player]
Game   == {g \in Hand : g.able \subseteq g.in} \cup {NoGame}
Memory == [decided : Nat, observed : Nat, summarized : Nat, log : Seq(Nat)]
Room   == [status : {"waiting", "playing", "deleted"}, seated : SUBSET Player,
           managed : SUBSET Human, game : Game, version : Nat, hand : Nat, worker : BOOLEAN,
           memory : UNION {[D -> Memory] : D \in SUBSET Player}]

DecisionTasks == [kind : {"decide"}, player : Player, version : Nat, seen : Game, retries : Nat]
Summaries     == [kind : {"summarize"}, player : Player, hand : Nat]
Task          == DecisionTasks \cup Summaries

Idle      == {[phase |-> "ready"], [phase |-> "sending"]}
Deciding  == [phase : {"deciding", "applying", "failed"}, task : DecisionTasks]
Reviewing == [phase : {"checking", "putting back", "summarizing"}, task : Summaries]

TypeOK ==
  /\ room \in Room
  /\ queue \in Seq(Task) /\ outbox \in Seq(Task)
  /\ loop \in Idle \cup Deciding \cup Reviewing
  /\ (At("failed") => loop.task.retries > 0)
  /\ played \in SUBSET Player /\ turns \in Nat

-----------------------------------------------------------------------------
(* The invariant. *)

\* A decision of the room's present version has seen the room's present hand,
\* and its player is still played by the AI.
Current(t) ==
  /\ t.version <= room.version
  /\ t.version = room.version /\ Exists =>
       t.seen = room.game /\ t.player \in Automatic(room)

Fresh ==
  /\ \A t \in Tasks(queue) \cup Tasks(outbox) : t.kind = "decide" => Current(t)
  /\ At("deciding") \/ At("applying") => Current(loop.task)

\* A hand whose summaries are asked for, or written, is over.
Past(h) == h <= room.hand /\ (h = room.hand => room.game.stage # "play")

Held       == IF loop.phase \in {"ready", "sending"} THEN <<>> ELSE <<loop.task>>
Waiting(s) == {t \in Tasks(s) : t.kind = "summarize"}
Once(s)    == \A i, j \in DOMAIN s : s[i].kind = "summarize" /\ s[i] = s[j] => i = j

\* No summary is on its way twice.
OnTheirWayOnce ==
  /\ Once(queue) /\ Once(outbox)
  /\ Waiting(queue) \cap Waiting(outbox) = {}
  /\ Waiting(queue) \cap Waiting(Held) = {}
  /\ Waiting(outbox) \cap Waiting(Held) = {}

\* Every summary on its way is of a hand that is over and that the memory does not
\* tell of, and so is of such a hand every summary that was written.
Unwritten ==
  /\ \A t \in Waiting(queue) \cup Waiting(outbox) \cup Waiting(Held) :
       /\ Past(t.hand)
       /\ t.player \in DOMAIN room.memory => t.hand \notin Tasks(room.memory[t.player].log)
  /\ \A p \in DOMAIN room.memory : \A h \in Tasks(room.memory[p].log) : Past(h)

\* While a hand is on, the memory of a player notes that the AI has been asked;
\* when it is over, everybody who had to be is shown it.
Noted ==
  IF ~Exists THEN room.game.stage = "none"
  ELSE
    /\ room.game.in \cap Human \subseteq room.seated
    /\ room.game.stage = "play" =>
         \A p \in played \cap room.game.in \cap room.seated :
           p \in DOMAIN room.memory /\ room.memory[p].decided = room.hand
    /\ room.game.stage = "over" /\ turns > 0 =>
         \A p \in (Bot \cup played) \cap room.game.in \cap room.seated :
           p \in DOMAIN room.memory /\ room.memory[p].observed = room.hand

\* A hand is shown to a memory only when it is over, and only if it was played:
\* n tells whether it was.
UnseenIn(r, n) ==
  /\ r.game.stage # "none" => r.hand > 0
  /\ r.game.stage = "play" => n > 0
  /\ \A p \in DOMAIN r.memory :
       /\ r.memory[p].observed <= r.hand
       /\ r.game.stage = "play" \/ (r.game.stage = "over" /\ n = 0) => r.memory[p].observed # r.hand

Unseen == Exists => UnseenIn(room, turns)

Inv ==
  /\ TypeOK /\ OneDecision /\ TurnAttended
  /\ Fresh /\ OnTheirWayOnce /\ Unwritten /\ Noted /\ Unseen

-----------------------------------------------------------------------------
(* The loop. *)

LEMMA LoopFacts ==
  ASSUME NEW l \in Idle \cup Deciding \cup Reviewing
  PROVE  \/ l \in Idle /\ l.phase \in {"ready", "sending"}
         \/ /\ l \in Deciding /\ l.phase \in {"deciding", "applying", "failed"}
            /\ l.task \in DecisionTasks /\ l.task.kind = "decide"
         \/ /\ l \in Reviewing /\ l.phase \in {"checking", "putting back", "summarizing"}
            /\ l.task \in Summaries /\ l.task.kind = "summarize"
<1>1. CASE l \in Idle
  <2>1. l.phase = "ready" \/ l.phase = "sending"
    BY <1>1 DEF Idle
  <2> QED BY <1>1, <2>1
<1>2. CASE l \in Deciding
  BY <1>2 DEF Deciding, DecisionTasks
<1>3. CASE l \in Reviewing
  BY <1>3 DEF Reviewing, Summaries
<1>4. l \in Idle \/ l \in Deciding \/ l \in Reviewing
  OBVIOUS
<1> QED BY ONLY <1>1, <1>2, <1>3, <1>4

-----------------------------------------------------------------------------
(* How many decisions a sequence of tasks holds. *)

Decisions(s) == {i \in DOMAIN s : s[i].kind = "decide"}
One(t)       == IF t.kind = "decide" THEN 1 ELSE 0

LEMMA CountFinite ==
  ASSUME NEW s \in Seq(Task)
  PROVE  /\ IsFiniteSet(Decisions(s)) /\ Cardinality(Decisions(s)) \in Nat
         /\ Decisions(s) \subseteq 1 .. Len(s)
<1>1. Decisions(s) \in SUBSET (1 .. Len(s)) /\ Len(s) \in Nat
  BY DEF Decisions
<1>2. IsFiniteSet(1 .. Len(s))
  BY <1>1, FS_Interval
<1>3. IsFiniteSet(Decisions(s))
  BY <1>1, <1>2, FS_Subset
<1> QED BY <1>1, <1>3, FS_CardinalityType

LEMMA CountNone ==
  ASSUME NEW s \in Seq(Summaries)
  PROVE  s \in Seq(Task) /\ Cardinality(Decisions(s)) = 0
<1>1. \A i \in DOMAIN s : s[i] \in Summaries
  BY ElementOfSeq
<1>2. Decisions(s) = {}
  BY <1>1 DEF Decisions, Summaries
<1>3. s \in Seq(Task)
  BY SeqMonotonic DEF Task
<1> QED BY <1>2, <1>3, FS_EmptySet

LEMMA CountAppend ==
  ASSUME NEW s \in Seq(Task), NEW t \in Task
  PROVE  /\ Append(s, t) \in Seq(Task)
         /\ Cardinality(Decisions(Append(s, t))) = Cardinality(Decisions(s)) + One(t)
<1> DEFINE a == Append(s, t)
<1>1. /\ a \in Seq(Task) /\ Len(s) \in Nat
      /\ DOMAIN s = 1 .. Len(s) /\ DOMAIN a = 1 .. Len(s) + 1
      /\ a[Len(s) + 1] = t /\ \A i \in 1 .. Len(s) : a[i] = s[i]
  OBVIOUS
<1> HIDE DEF a
<1>2. IsFiniteSet(Decisions(s)) /\ Cardinality(Decisions(s)) \in Nat /\ Decisions(s) \subseteq 1 .. Len(s)
  BY CountFinite
<1>3. CASE t.kind = "decide"
  <2>1. Decisions(a) = Decisions(s) \cup {Len(s) + 1}
    BY <1>1, <1>3 DEF Decisions
  <2>2. Len(s) + 1 \notin Decisions(s)
    BY <1>1, <1>2
  <2>3. Cardinality(Decisions(a)) = Cardinality(Decisions(s)) + 1
    BY <1>2, <2>1, <2>2, FS_AddElement
  <2> QED BY <1>1, <1>3, <2>3 DEF One, a
<1>4. CASE t.kind # "decide"
  <2>1. Decisions(a) = Decisions(s)
    BY <1>1, <1>4 DEF Decisions
  <2> QED BY <1>1, <1>2, <1>4, <2>1 DEF One, a
<1> QED BY <1>3, <1>4

LEMMA CountTail ==
  ASSUME NEW s \in Seq(Task), s # <<>>
  PROVE  /\ Head(s) \in Task /\ Tail(s) \in Seq(Task)
         /\ Cardinality(Decisions(s)) = Cardinality(Decisions(Tail(s))) + One(Head(s))
<1> DEFINE z == Tail(s)
           f == [i \in Decisions(z) |-> i + 1]
<1>1. /\ z \in Seq(Task) /\ Head(s) \in Task /\ Head(s) = s[1] /\ Len(s) \in Nat \ {0}
      /\ DOMAIN s = 1 .. Len(s) /\ DOMAIN z = 1 .. Len(s) - 1
      /\ \A i \in 1 .. Len(s) - 1 : z[i] = s[i + 1]
  BY HeadTailProperties, EmptySeq
<1> HIDE DEF z
<1>2. /\ IsFiniteSet(Decisions(s)) /\ Cardinality(Decisions(s)) \in Nat
      /\ IsFiniteSet(Decisions(z)) /\ Cardinality(Decisions(z)) \in Nat
  BY <1>1, CountFinite
<1>3. \A i \in Decisions(z) : i \in Nat /\ i + 1 \in Decisions(s) \ {1}
  BY <1>1 DEF Decisions
<1>4. \A j \in Decisions(s) \ {1} : j - 1 \in Decisions(z) /\ j = (j - 1) + 1
  BY <1>1 DEF Decisions
<1>5. f \in Bijection(Decisions(z), Decisions(s) \ {1})
  <2>1. f \in [Decisions(z) -> Decisions(s) \ {1}]
    BY <1>3
  <2>2. \A i, j \in Decisions(z) : f[i] = f[j] => i = j
    BY <1>3
  <2>3. \A j \in Decisions(s) \ {1} : \E i \in Decisions(z) : f[i] = j
    BY <1>4
  <2> QED BY <2>1, <2>2, <2>3 DEF Bijection, Injection, Surjection, IsInjective
<1>6. ExistsBijection(Decisions(z), Decisions(s) \ {1})
  BY <1>5 DEF ExistsBijection
<1>7. Cardinality(Decisions(s) \ {1}) = Cardinality(Decisions(z))
  BY <1>2, <1>6, FS_Bijection
<1>8. 1 \in Decisions(s) <=> Head(s).kind = "decide"
  BY <1>1 DEF Decisions
<1>9. Cardinality(Decisions(s) \ {1})
        = IF 1 \in Decisions(s) THEN Cardinality(Decisions(s)) - 1 ELSE Cardinality(Decisions(s))
  BY <1>2, FS_RemoveElement
<1> QED BY <1>1, <1>2, <1>7, <1>8, <1>9 DEF One, z

-----------------------------------------------------------------------------
(* Memories, and the question put to the AI. *)

Memories == UNION {[D -> Memory] : D \in SUBSET Player}

LEMMA MemoriesFacts ==
  ASSUME NEW m
  PROVE  m \in Memories <=> /\ m = [p \in DOMAIN m |-> m[p]]
                            /\ DOMAIN m \in SUBSET Player /\ \A p \in DOMAIN m : m[p] \in Memory
<1>1. ASSUME m \in Memories
      PROVE  /\ m = [p \in DOMAIN m |-> m[p]]
             /\ DOMAIN m \in SUBSET Player /\ \A p \in DOMAIN m : m[p] \in Memory
  <2>1. PICK D \in SUBSET Player : m \in [D -> Memory]
    BY <1>1 DEF Memories
  <2> QED BY <2>1
<1>2. ASSUME m = [p \in DOMAIN m |-> m[p]],
             DOMAIN m \in SUBSET Player, \A p \in DOMAIN m : m[p] \in Memory
      PROVE  m \in Memories
  <2>1. m \in [DOMAIN m -> Memory]
    BY <1>2
  <2> QED BY <1>2, <2>1 DEF Memories
<1> QED BY <1>1, <1>2

LEMMA NoMemoryType == NoMemory \in Memory
<1>1. <<>> \in Seq(Nat)
  BY EmptySeq
<1> QED BY <1>1 DEF NoMemory, Memory

\* k is m with the memory of p in it.
Holds(k, m, p) ==
  /\ k \in Memories /\ DOMAIN k = DOMAIN m \cup {p}
  /\ \A q \in DOMAIN m : k[q] = m[q]
  /\ p \notin DOMAIN m => k[p] = NoMemory

LEMMA RememberFacts ==
  ASSUME NEW m \in Memories, NEW p \in Player
  PROVE  Holds(Remember(m, p), m, p)
<1>0. PICK k : k = Remember(m, p)
  OBVIOUS
<1>1. DOMAIN m \in SUBSET Player /\ \A q \in DOMAIN m : m[q] \in Memory
  BY MemoriesFacts
<1>2. /\ DOMAIN k = DOMAIN m \cup {p} /\ k = [q \in DOMAIN k |-> k[q]]
      /\ \A q \in DOMAIN k : k[q] = IF q \in DOMAIN m THEN m[q] ELSE NoMemory
  BY <1>0 DEF Remember
<1>3. \A q \in DOMAIN k : k[q] \in Memory
  BY <1>1, <1>2, NoMemoryType
<1>4. k \in Memories
  BY <1>1, <1>2, <1>3, MemoriesFacts
<1> QED BY <1>0, <1>2, <1>4 DEF Holds

\* What the memory of a player keeps when it is written to.
Kept(a, b) ==
  \A p \in DOMAIN b :
    IF p \in DOMAIN a THEN b[p].log = a[p].log /\ b[p].observed = a[p].observed
    ELSE b[p].log = <<>> /\ b[p].observed = 0

\* Asking changes the flag, and notes the hand in the memory of who is asked.
LEMMA AskFacts ==
  ASSUME NEW k \in Room, NEW e, e = EnqueueDecision(k)
  PROVE  /\ e \in Room
         /\ e.status = k.status /\ e.seated = k.seated /\ e.managed = k.managed
         /\ e.game = k.game /\ e.version = k.version /\ e.hand = k.hand
         /\ e.worker = IF Due(k) THEN k.game.turn \in k.game.able ELSE k.worker
         /\ DOMAIN k.memory \subseteq DOMAIN e.memory /\ Kept(k.memory, e.memory)
         /\ \A p \in DOMAIN k.memory :
              e.memory[p].decided \in {k.memory[p].decided, k.hand}
         /\ Due(k) => k.game.turn \in DOMAIN e.memory /\ e.memory[k.game.turn].decided = k.hand
<1>0. k.memory \in Memories /\ k.hand \in Nat /\ k.game \in Game
  BY DEF Room, Memories
<1>1. CASE ~Due(k)
  BY <1>1 DEF EnqueueDecision, Kept
<1>2. CASE Due(k)
  <2>1. PICK u : u = k.game.turn
    OBVIOUS
  <2>2. u \in Player
    BY <1>0, <1>2, <2>1 DEF Due, Game, NoGame, Hand
  <2>3. PICK mem : mem = k.memory
    OBVIOUS
  <2>4. PICK m : m = Remember(mem, u)
    OBVIOUS
  <2>5. /\ m \in Memories /\ DOMAIN m = DOMAIN mem \cup {u}
        /\ \A q \in DOMAIN mem : m[q] = mem[q]
        /\ u \notin DOMAIN mem => m[u] = NoMemory
    <3>1. mem \in Memories
      BY <1>0, <2>3
    <3>2. Holds(m, mem, u)
      BY ONLY <2>2, <2>4, <3>1, RememberFacts
    <3> QED BY ONLY <3>2 DEF Holds
  <2>6. m = [q \in DOMAIN m |-> m[q]] /\ DOMAIN m \in SUBSET Player /\ \A q \in DOMAIN m : m[q] \in Memory
    BY <2>5, MemoriesFacts
  <2>7. PICK mm : mm = [m EXCEPT ![u] = [@ EXCEPT !.decided = k.hand]]
    OBVIOUS
  <2>8. /\ DOMAIN mm = DOMAIN m /\ mm = [q \in DOMAIN mm |-> mm[q]]
        /\ mm[u] = [m[u] EXCEPT !.decided = k.hand]
        /\ \A q \in DOMAIN m : q # u => mm[q] = m[q]
    BY <2>5, <2>6, <2>7
  <2>9. m[u] \in Memory
    BY <2>5, <2>6
  <2>10. /\ mm[u] \in Memory /\ mm[u].decided = k.hand
         /\ mm[u].log = m[u].log /\ mm[u].observed = m[u].observed
    BY <1>0, <2>8, <2>9 DEF Memory
  <2>11. mm \in Memories
    BY <2>6, <2>8, <2>10, MemoriesFacts
  <2>12. e = [k EXCEPT !.memory = mm, !.worker = u \in k.game.able]
    BY <1>2, <2>1, <2>3, <2>4, <2>7 DEF EnqueueDecision
  <2>13. /\ e.status = k.status /\ e.seated = k.seated /\ e.managed = k.managed
         /\ e.game = k.game /\ e.version = k.version /\ e.hand = k.hand
         /\ e.memory = mm
    BY <2>12 DEF Room
  <2>14. PICK w : w = (u \in k.game.able)
    OBVIOUS
  <2>15. w \in BOOLEAN
    BY <2>14
  <2>16. e = [k EXCEPT !.memory = mm, !.worker = w]
    BY <2>12, <2>14
  <2>17. e \in Room /\ e.worker = w
    BY <2>11, <2>15, <2>16 DEF Room, Memories
  <2>18. Kept(mem, mm)
    <3>1. \A p \in DOMAIN mm : p # u => p \in DOMAIN mem /\ mm[p] = mem[p]
      BY <2>5, <2>8
    <3>2. u \in DOMAIN mem => m[u] = mem[u]
      BY <2>5
    <3>3. u \notin DOMAIN mem => m[u].log = <<>> /\ m[u].observed = 0
      BY <2>5 DEF NoMemory
    <3> QED BY <2>10, <3>1, <3>2, <3>3 DEF Kept
  <2>19. \A p \in DOMAIN mem : mm[p].decided \in {mem[p].decided, k.hand}
    BY <2>5, <2>8, <2>10
  <2>20. u \in DOMAIN mm /\ DOMAIN mem \subseteq DOMAIN mm
    BY <2>5, <2>8
  <2> QED BY <1>2, <2>1, <2>3, <2>10, <2>13, <2>14, <2>17, <2>18, <2>19, <2>20
<1> QED BY <1>1, <1>2

\* A task is sent exactly when the flag is raised.
LEMMA TaskFacts ==
  ASSUME NEW k \in Room, NEW n \in Nat, NEW d, d = DecisionTask(k, n), NEW e, e = EnqueueDecision(k)
  PROVE  \/ d = <<>> /\ e.worker = k.worker
         \/ \E t \in DecisionTasks :
              /\ d = <<t>> /\ ~k.worker /\ e.worker
              /\ t.version = k.version /\ t.seen = k.game /\ t.player \in Automatic(k)
<1>0. e.worker = IF Due(k) THEN k.game.turn \in k.game.able ELSE k.worker
  BY AskFacts
<1>00. k.worker \in BOOLEAN /\ k.game \in Game /\ k.version \in Nat
  BY DEF Room
<1>1. CASE Due(k) /\ k.game.turn \in k.game.able
  <2> DEFINE t == [kind |-> "decide", player |-> k.game.turn, version |-> k.version,
                   seen |-> k.game, retries |-> n]
  <2>1. d = <<t>>
    BY <1>1 DEF DecisionTask
  <2>2. k.game.turn \in Player
    BY <1>00, <1>1 DEF Due, Game, NoGame, Hand
  <2>3. t \in DecisionTasks /\ t.version = k.version /\ t.seen = k.game /\ t.player = k.game.turn
    BY <1>00, <2>2 DEF DecisionTasks
  <2> HIDE DEF t
  <2>4. ~k.worker /\ k.game.turn \in Automatic(k)
    BY <1>1 DEF Due
  <2>5. e.worker
    BY <1>0, <1>1
  <2> QED BY <2>1, <2>3, <2>4, <2>5
<1>2. CASE Due(k) /\ k.game.turn \notin k.game.able
  <2>1. d = <<>>
    BY <1>2 DEF DecisionTask
  <2>2. e.worker = FALSE /\ k.worker = FALSE
    BY <1>0, <1>00, <1>2 DEF Due
  <2> QED BY <2>1, <2>2
<1>3. CASE ~Due(k)
  BY <1>0, <1>3 DEF DecisionTask
<1> QED BY <1>1, <1>2, <1>3


-----------------------------------------------------------------------------
(* Summaries. *)

LEMMA OrderedSet ==
  ASSUME NEW S, IsFiniteSet(S)
  PROVE  /\ Cardinality(S) \in Nat
         /\ SetToSeq(S) \in [1 .. Cardinality(S) -> S]
         /\ \A i, j \in 1 .. Cardinality(S) : SetToSeq(S)[i] = SetToSeq(S)[j] => i = j
<1>1. Cardinality(S) \in Nat /\ ExistsBijection(1 .. Cardinality(S), S)
  BY FS_CardinalityType
<1>2. \E f \in [1 .. Cardinality(S) -> S] : IsInjective(f)
  BY <1>1 DEF ExistsBijection, Bijection, Injection, IsInjective
<1>3. SetToSeq(S) \in [1 .. Cardinality(S) -> S] /\ IsInjective(SetToSeq(S))
  BY <1>2 DEF SetToSeq
<1> QED BY <1>1, <1>3 DEF IsInjective

\* Everybody who is reviewed is shown the hand; nothing is written yet.
LEMMA SummariesFacts ==
  ASSUME NEW r \in Room, r.game \in Hand, NEW s, s = EnqueueSummaries(r)
  PROVE  /\ s \in Room
         /\ s.status = r.status /\ s.seated = r.seated /\ s.managed = r.managed
         /\ s.game = r.game /\ s.version = r.version /\ s.hand = r.hand /\ s.worker = r.worker
         /\ DOMAIN s.memory = DOMAIN r.memory \cup Reviewed(r)
         /\ \A p \in DOMAIN s.memory :
              s.memory[p].log = IF p \in DOMAIN r.memory THEN r.memory[p].log ELSE <<>>
         /\ \A p \in Reviewed(r) : s.memory[p].observed = r.hand
         /\ \A p \in DOMAIN r.memory : p \notin Reviewed(r) => s.memory[p] = r.memory[p]
<1>1. PICK mem : mem = r.memory
  OBVIOUS
<1>2. PICK R : R = Reviewed(r)
  OBVIOUS
<1>3. mem \in Memories /\ R \in SUBSET Player /\ r.hand \in Nat
  BY <1>1, <1>2 DEF Room, Memories, Reviewed, Hand
<1>4. DOMAIN mem \in SUBSET Player /\ \A p \in DOMAIN mem : mem[p] \in Memory
  BY <1>3, MemoriesFacts
<1>5. PICK m : m = [p \in DOMAIN mem \cup R |->
                      IF p \in R THEN [Remember(mem, p)[p] EXCEPT !.observed = r.hand] ELSE mem[p]]
  OBVIOUS
<1>6. s = [r EXCEPT !.memory = m]
  BY <1>1, <1>2, <1>5 DEF EnqueueSummaries
<1>7. \A p \in R : /\ Remember(mem, p)[p] \in Memory
                   /\ Remember(mem, p)[p] = IF p \in DOMAIN mem THEN mem[p] ELSE NoMemory
  <2>1. TAKE p \in R
  <2>2. PICK k : k = Remember(mem, p)
    OBVIOUS
  <2>3. k \in Memories /\ p \in DOMAIN k /\ k[p] = IF p \in DOMAIN mem THEN mem[p] ELSE NoMemory
    <3>1. p \in Player /\ mem \in Memories
      BY <1>3
    <3>2. /\ k \in Memories /\ DOMAIN k = DOMAIN mem \cup {p}
          /\ \A q \in DOMAIN mem : k[q] = mem[q]
          /\ p \notin DOMAIN mem => k[p] = NoMemory
      <4>1. Holds(k, mem, p)
        BY ONLY <2>2, <3>1, RememberFacts
      <4> QED BY ONLY <4>1 DEF Holds
    <3> QED BY ONLY <3>2
  <2> QED BY <2>2, <2>3, MemoriesFacts
<1>8. \A p \in R : /\ m[p] \in Memory /\ m[p].observed = r.hand
                   /\ m[p].log = IF p \in DOMAIN mem THEN mem[p].log ELSE <<>>
  <2>1. TAKE p \in R
  <2>2. PICK x : x = Remember(mem, p)[p]
    OBVIOUS
  <2>3. x \in Memory /\ m[p] = [x EXCEPT !.observed = r.hand]
    BY <1>5, <1>7, <2>2
  <2>4. x.log = IF p \in DOMAIN mem THEN mem[p].log ELSE <<>>
    BY <1>7, <2>2 DEF NoMemory
  <2> QED BY <1>3, <2>3, <2>4 DEF Memory
<1>9. \A p \in DOMAIN mem : p \notin R => m[p] = mem[p]
  BY <1>5
<1>10. /\ DOMAIN m = DOMAIN mem \cup R /\ m = [p \in DOMAIN m |-> m[p]]
       /\ \A p \in DOMAIN m : m[p] \in Memory
  BY <1>4, <1>5, <1>8, <1>9
<1>11. m \in Memories
  BY <1>3, <1>4, <1>10, MemoriesFacts
<1>12. /\ s \in Room /\ s.memory = m
       /\ s.status = r.status /\ s.seated = r.seated /\ s.managed = r.managed
       /\ s.game = r.game /\ s.version = r.version /\ s.hand = r.hand /\ s.worker = r.worker
  BY <1>6, <1>11 DEF Room, Memories
<1> QED BY <1>1, <1>2, <1>8, <1>9, <1>10, <1>12

LEMMA SummaryTasksFacts ==
  ASSUME NEW r \in Room, r.game \in Hand, NEW s, s = SummaryTasks(r)
  PROVE  /\ s \in Seq(Summaries) /\ \A t \in Tasks(s) : t.hand = r.hand
         /\ Once(s)
<1>1. PICK todo : todo = {p \in Reviewed(r) : p \notin DOMAIN r.memory \/ r.memory[p].summarized # r.hand}
  OBVIOUS
<1>2. todo \in SUBSET Player /\ r.hand \in Nat
  BY <1>1 DEF Reviewed, Hand, Room
<1>3. IsFiniteSet(todo)
  BY <1>2, PipelineAssumption, FS_Subset DEF Player
<1>4. PICK n, f : n = Cardinality(todo) /\ f = SetToSeq(todo)
  OBVIOUS
<1>5. n \in Nat /\ f \in [1 .. n -> todo] /\ \A i, j \in 1 .. n : f[i] = f[j] => i = j
  BY <1>3, <1>4, OrderedSet
<1>6. s = [i \in 1 .. n |-> [kind |-> "summarize", player |-> f[i], hand |-> r.hand]]
  BY <1>1, <1>4 DEF SummaryTasks
<1>7. \A i \in 1 .. n : /\ s[i] \in Summaries /\ s[i].hand = r.hand /\ s[i].player = f[i]
  BY <1>2, <1>5, <1>6 DEF Summaries
<1>8. s \in Seq(Summaries) /\ DOMAIN s = 1 .. n
  BY <1>5, <1>6, <1>7
<1> QED BY <1>5, <1>7, <1>8 DEF Tasks, Once

-----------------------------------------------------------------------------
(* Sequences of tasks. *)

LEMMA NoTasks == Tasks(<<>>) = {} /\ Waiting(<<>>) = {} /\ Once(<<>>)
BY DEF Tasks, Waiting, Once

LEMMA AppendTask ==
  ASSUME NEW s \in Seq(Task), NEW t \in Task
  PROVE  /\ Tasks(Append(s, t)) = Tasks(s) \cup {t}
         /\ Waiting(Append(s, t)) = Waiting(s) \cup (IF t.kind = "summarize" THEN {t} ELSE {})
         /\ Once(s) /\ t \notin Waiting(s) => Once(Append(s, t))
<1> DEFINE a == Append(s, t)
<1>1. /\ Len(s) \in Nat /\ DOMAIN s = 1 .. Len(s) /\ DOMAIN a = 1 .. Len(s) + 1
      /\ a[Len(s) + 1] = t /\ \A i \in 1 .. Len(s) : a[i] = s[i]
  OBVIOUS
<1> HIDE DEF a
<1>2. Tasks(a) = Tasks(s) \cup {t}
  BY <1>1 DEF Tasks
<1>3. Waiting(a) = Waiting(s) \cup (IF t.kind = "summarize" THEN {t} ELSE {})
  BY <1>2 DEF Waiting
<1>4. ASSUME Once(s), t \notin Waiting(s) PROVE Once(a)
  <2>1. \A i \in DOMAIN s : s[i].kind = "summarize" => s[i] # t
    BY <1>4 DEF Waiting, Tasks
  <2>2. \A i \in DOMAIN a : (i \in DOMAIN s /\ a[i] = s[i]) \/ (i = Len(s) + 1 /\ a[i] = t)
    BY <1>1
  <2> QED BY <1>1, <1>4, <2>1, <2>2 DEF Once
<1> QED BY <1>2, <1>3, <1>4 DEF a

LEMMA TailTask ==
  ASSUME NEW s \in Seq(Task), s # <<>>
  PROVE  /\ Tasks(s) = Tasks(Tail(s)) \cup {Head(s)}
         /\ Waiting(s) = Waiting(Tail(s)) \cup (IF Head(s).kind = "summarize" THEN {Head(s)} ELSE {})
         /\ Once(s) => Once(Tail(s)) /\ Head(s) \notin Waiting(Tail(s))
<1> DEFINE z == Tail(s)
           x == Head(s)
<1>1. /\ z \in Seq(Task) /\ x = s[1] /\ Len(s) \in Nat \ {0}
      /\ DOMAIN s = 1 .. Len(s) /\ DOMAIN z = 1 .. Len(s) - 1
      /\ \A i \in 1 .. Len(s) - 1 : z[i] = s[i + 1]
  BY HeadTailProperties, EmptySeq
<1> HIDE DEF z, x
<1>2. \A i \in DOMAIN z : i + 1 \in DOMAIN s /\ i \in Nat /\ i + 1 # 1 /\ z[i] = s[i + 1]
  BY <1>1
<1>3. \A j \in DOMAIN s : s[j] = x \/ (j - 1 \in DOMAIN z /\ s[j] = z[j - 1])
  BY <1>1
<1>4. 1 \in DOMAIN s
  BY <1>1
<1>5. Tasks(s) = Tasks(z) \cup {x}
  BY <1>1, <1>2, <1>3, <1>4 DEF Tasks
<1>6. Waiting(s) = Waiting(z) \cup (IF x.kind = "summarize" THEN {x} ELSE {})
  BY <1>5 DEF Waiting
<1>7. ASSUME Once(s) PROVE Once(z) /\ x \notin Waiting(z)
  <2>1. Once(z)
    BY <1>2, <1>7 DEF Once
  <2>2. ASSUME NEW i \in DOMAIN z, z[i] = x, x.kind = "summarize" PROVE FALSE
    BY <1>1, <1>2, <1>4, <1>7, <2>2 DEF Once
  <2> QED BY <2>1, <2>2 DEF Waiting, Tasks
<1> QED BY <1>5, <1>6, <1>7 DEF z, x

-----------------------------------------------------------------------------
(* The methods that may have changed whose turn it is end with Commit. *)

\* What Commit needs of the room it is given, r, and of the tasks it is to send.
LegalRoom(r) ==
  /\ r \in Room /\ r.worker = room.worker /\ r.version = room.version /\ r.status # "deleted"
  /\ r.hand \in {room.hand, room.hand + 1}
  /\ r.hand = room.hand /\ r.game.stage = "play" => room.game.stage = "play"
  /\ r.game.in \cap Human \subseteq r.seated
  /\ \A p \in DOMAIN r.memory :
       \/ r.memory[p].log = <<>>
       \/ p \in DOMAIN room.memory /\ r.memory[p].log = room.memory[p].log

LegalTasks(r, tasks) ==
  /\ tasks \in Seq(Summaries) /\ Once(tasks)
  /\ \A t \in Tasks(tasks) : /\ t.hand = r.hand /\ r.hand = room.hand
                             /\ room.game.stage = "play" /\ r.game.stage = "over"

LegalNotes(r) ==
  IF r.hand = room.hand
  THEN /\ r.game.stage = "play" =>
            \A p \in played \cap r.game.in \cap r.seated :
              p \in DOMAIN r.memory /\ r.memory[p].decided = r.hand
       /\ r.game.stage = "over" /\ turns' > 0 =>
            \A p \in (Bot \cup played) \cap r.game.in \cap r.seated :
              p \in DOMAIN r.memory /\ r.memory[p].observed = r.hand
  ELSE r.game.stage = "over" => turns' = 0

LEMMA CommitFacts ==
  ASSUME TypeOK, Unlocked, NEW r \in Room, NEW tasks \in Seq(Summaries), Commit(r, tasks)
  PROVE  /\ room' \in Room
         /\ room'.status = r.status /\ room'.seated = r.seated /\ room'.managed = r.managed
         /\ room'.game = r.game /\ room'.hand = r.hand /\ room'.version = r.version + 1
         /\ DOMAIN r.memory \subseteq DOMAIN room'.memory /\ Kept(r.memory, room'.memory)
         /\ \A p \in DOMAIN r.memory : room'.memory[p].decided \in {r.memory[p].decided, r.hand}
         /\ \/ outbox' = tasks /\ room'.worker = r.worker
            \/ \E t \in DecisionTasks :
                 /\ outbox' = Append(tasks, t) /\ ~r.worker /\ room'.worker
                 /\ t.version = room'.version /\ t.seen = room'.game /\ t.player \in Automatic(room')
         /\ AITurn' => room'.worker
         /\ played' \in SUBSET Player
         /\ \A p \in played' : \/ r.hand = room.hand /\ p \in played
                               \/ /\ p \in DOMAIN room'.memory /\ room'.memory[p].decided = r.hand
                                  /\ r.game.stage = "play"
<1> DEFINE k == [r EXCEPT !.version = @ + 1]
<1>1. /\ k \in Room
      /\ k.status = r.status /\ k.seated = r.seated /\ k.managed = r.managed
      /\ k.game = r.game /\ k.hand = r.hand /\ k.version = r.version + 1
      /\ k.worker = r.worker /\ k.memory = r.memory
  BY DEF Room
<1>2. /\ room' = EnqueueDecision(k) /\ outbox' = tasks \o DecisionTask(k, Retries)
      /\ played' = Asked(k)
  BY DEF Commit
<1> HIDE DEF k
<1>3. /\ room' \in Room
      /\ room'.status = k.status /\ room'.seated = k.seated /\ room'.managed = k.managed
      /\ room'.game = k.game /\ room'.hand = k.hand /\ room'.version = k.version
      /\ room'.worker = IF Due(k) THEN k.game.turn \in k.game.able ELSE k.worker
      /\ DOMAIN k.memory \subseteq DOMAIN room'.memory /\ Kept(k.memory, room'.memory)
      /\ \A p \in DOMAIN k.memory : room'.memory[p].decided \in {k.memory[p].decided, k.hand}
      /\ Due(k) => /\ k.game.turn \in DOMAIN room'.memory
                   /\ room'.memory[k.game.turn].decided = k.hand
  BY <1>1, <1>2, AskFacts
<1>4. \/ outbox' = tasks /\ room'.worker = r.worker
      \/ \E t \in DecisionTasks :
           /\ outbox' = Append(tasks, t) /\ ~r.worker /\ room'.worker
           /\ t.version = room'.version /\ t.seen = room'.game /\ t.player \in Automatic(room')
  <2>1. PICK d : d = DecisionTask(k, Retries)
    OBVIOUS
  <2>2. \/ d = <<>> /\ room'.worker = k.worker
        \/ \E t \in DecisionTasks :
             /\ d = <<t>> /\ ~k.worker /\ room'.worker
             /\ t.version = k.version /\ t.seen = k.game /\ t.player \in Automatic(k)
    BY <1>1, <1>2, <2>1, TaskFacts, PipelineAssumption
  <2>3. tasks \in Seq(Task)
    BY CountNone
  <2>4. CASE d = <<>> /\ room'.worker = k.worker
    <3>1. outbox' = tasks
      BY <1>2, <2>1, <2>3, <2>4, ConcatEmptySeq
    <3> QED BY <1>1, <2>4, <3>1
  <2>5. ASSUME NEW t \in DecisionTasks,
               d = <<t>> /\ ~k.worker /\ room'.worker
               /\ t.version = k.version /\ t.seen = k.game /\ t.player \in Automatic(k)
        PROVE  /\ outbox' = Append(tasks, t) /\ ~r.worker /\ room'.worker
               /\ t.version = room'.version /\ t.seen = room'.game /\ t.player \in Automatic(room')
    <3>1. t \in Task
      BY DEF Task
    <3>2. outbox' = Append(tasks, t)
      BY <1>2, <2>1, <2>3, <2>5, <3>1, AppendIsConcat
    <3> QED BY <1>1, <1>3, <2>5, <3>2 DEF Automatic
  <2> QED BY <2>2, <2>4, <2>5
<1>5. AITurn' => room'.worker
  <2>1. SUFFICES ASSUME AITurn' PROVE room'.worker
    OBVIOUS
  <2>2. /\ k.status = "playing" /\ k.game.stage = "play"
        /\ k.game.turn \in Automatic(k) /\ k.game.turn \in k.game.able
    BY <1>3, <2>1 DEF AITurn, Automatic
  <2>3. k.game.in # {}
    BY <1>1, <2>2 DEF Room, Game, NoGame
  <2>4. CASE Due(k)
    BY <1>3, <2>2, <2>4
  <2>5. CASE ~Due(k)
    <3>1. k.worker
      BY <2>2, <2>3, <2>5 DEF Due
    <3> QED BY <1>3, <2>5, <3>1
  <2> QED BY <2>4, <2>5
<1>6. \A p \in played' : \/ r.hand = room.hand /\ p \in played
                         \/ Due(k) /\ k.game.stage = "play" /\ p = k.game.turn
  BY <1>1, <1>2 DEF Asked
<1>7. played' \in SUBSET Player
  <2>1. Due(k) => k.game.turn \in Player
    BY <1>1 DEF Due, Room, Game, NoGame, Hand
  <2> QED BY <1>6, <2>1 DEF TypeOK
<1> QED BY <1>1, <1>3, <1>4, <1>5, <1>6, <1>7

LEMMA CommitOneDecision ==
  ASSUME TypeOK, OneDecision, Unlocked, Exists, NEW r \in Room, NEW tasks \in Seq(Summaries),
         Commit(r, tasks), r.worker = room.worker, queue' = queue,
         At("deciding")' <=> At("deciding")
  PROVE  OneDecision'
<1>1. \/ outbox' = tasks /\ room'.worker = r.worker
      \/ \E t \in DecisionTasks : outbox' = Append(tasks, t) /\ ~r.worker /\ room'.worker
  BY CommitFacts
<1>2. /\ tasks \in Seq(Task) /\ Cardinality(Decisions(tasks)) = 0
      /\ Cardinality(Decisions(outbox)) = 0
  <2>1. outbox \in Seq(Summaries)
    BY EmptySeq DEF Unlocked
  <2> QED BY <2>1, CountNone
<1>3. Cardinality(Decisions(queue)) \in Nat /\ room.worker \in BOOLEAN
  BY CountFinite DEF TypeOK, Room
<1>4. /\ Pending  = Cardinality(Decisions(queue)) + Cardinality(Decisions(outbox))
                    + (IF At("deciding") THEN 1 ELSE 0)
      /\ Pending' = Cardinality(Decisions(queue')) + Cardinality(Decisions(outbox'))
                    + (IF At("deciding")' THEN 1 ELSE 0)
  BY DEF Pending, Decisions
<1>5. Pending = IF room.worker THEN 1 ELSE 0
  BY DEF OneDecision
<1>6. CASE outbox' = tasks /\ room'.worker = r.worker
  <2>1. Pending' = Pending
    BY <1>2, <1>3, <1>4, <1>6
  <2> QED BY <1>5, <1>6, <2>1 DEF OneDecision
<1>7. ASSUME NEW t \in DecisionTasks, outbox' = Append(tasks, t), ~r.worker, room'.worker
      PROVE  OneDecision'
  <2>1. t \in Task /\ One(t) = 1
    BY DEF Task, DecisionTasks, One
  <2>2. Cardinality(Decisions(outbox')) = 1
    BY <1>2, <1>7, <2>1, CountAppend
  <2>3. Pending' = Pending + 1 /\ Pending = 0
    BY <1>2, <1>3, <1>4, <1>5, <1>7, <2>2
  <2> QED BY <1>7, <2>3 DEF OneDecision
<1> QED BY <1>1, <1>6, <1>7

LEMMA CommitFresh ==
  ASSUME TypeOK, Fresh, Unlocked, Exists, NEW r \in Room, NEW tasks \in Seq(Summaries),
         Commit(r, tasks), r.version = room.version, queue' = queue,
         loop' = loop \/ loop' \in Idle
  PROVE  Fresh'
<1>1. /\ room'.version = room.version + 1
      /\ \/ outbox' = tasks
         \/ \E t \in DecisionTasks :
              /\ outbox' = Append(tasks, t) /\ t.version = room'.version /\ t.seen = room'.game
              /\ t.player \in Automatic(room')
  BY CommitFacts
<1>2. room.version \in Nat
  BY DEF TypeOK, Room
<1>3. \A t \in DecisionTasks : t.version \in Nat
  BY DEF DecisionTasks
<1>4. ASSUME NEW t \in DecisionTasks, Current(t) PROVE Current(t)'
  BY <1>1, <1>2, <1>3, <1>4 DEF Current
<1>5. \A t \in Tasks(tasks) : t.kind # "decide"
  <2>1. \A i \in DOMAIN tasks : tasks[i] \in Summaries
    BY ElementOfSeq
  <2> QED BY <2>1 DEF Tasks, Summaries
<1>6. \A t \in Tasks(queue) : t.kind = "decide" => Current(t)'
  <2>1. \A t \in Tasks(queue) : t.kind = "decide" => t \in DecisionTasks
    <3>1. queue \in Seq(Task)
      BY DEF TypeOK
    <3>2. \A i \in DOMAIN queue : queue[i] \in Task
      BY <3>1, ElementOfSeq
    <3> QED BY <3>2 DEF Tasks, Task, Summaries
  <2> QED BY <1>4, <2>1 DEF Fresh
<1>7. \A t \in Tasks(outbox') : t.kind = "decide" => Current(t)'
  <2>1. ASSUME NEW u \in DecisionTasks, outbox' = Append(tasks, u),
               u.version = room'.version, u.seen = room'.game, u.player \in Automatic(room')
        PROVE  \A t \in Tasks(outbox') : t.kind = "decide" => Current(t)'
    <3>1. tasks \in Seq(Task) /\ u \in Task
      BY CountNone DEF Task
    <3>2. Tasks(outbox') = Tasks(tasks) \cup {u}
      BY <2>1, <3>1, AppendTask
    <3>3. Current(u)'
      BY <1>1, <1>2, <2>1 DEF Current
    <3> QED BY <1>5, <3>2, <3>3
  <2> QED BY <1>1, <1>5, <2>1
<1>8. (At("deciding") \/ At("applying") => Current(loop.task))'
  <2>1. CASE loop' = loop
    <3>1. loop \in Idle \cup Deciding \cup Reviewing
      BY DEF TypeOK
    <3>2. At("deciding") \/ At("applying") => loop.task \in DecisionTasks /\ Current(loop.task)
      BY <3>1, LoopFacts DEF At, Fresh
    <3>3. ASSUME loop.task \in DecisionTasks, Current(loop.task) PROVE Current(loop.task)'
      BY <1>1, <1>2, <1>3, <2>1, <3>3 DEF Current
    <3> QED BY <2>1, <3>2, <3>3 DEF At
  <2>2. CASE loop' \in Idle
    BY <2>2 DEF Idle, At
  <2> QED BY <2>1, <2>2
<1> QED BY <1>6, <1>7, <1>8 DEF Fresh

\* The summaries: r's tasks are of a hand that is over now and was not before,
\* so nothing that is on its way or written is of the same hand.
LEMMA CommitSummaries ==
  ASSUME TypeOK, OnTheirWayOnce, Unwritten, Unlocked, NEW r, LegalRoom(r),
         NEW tasks, LegalTasks(r, tasks), Commit(r, tasks), queue' = queue,
         loop' = loop \/ loop' \in Idle
  PROVE  OnTheirWayOnce' /\ Unwritten'
<1>1. /\ r \in Room /\ tasks \in Seq(Summaries) /\ tasks \in Seq(Task)
      /\ r.hand \in {room.hand, room.hand + 1} /\ room.hand \in Nat
  BY CountNone DEF LegalRoom, LegalTasks, TypeOK, Room
<1>2. /\ room'.game = r.game /\ room'.hand = r.hand
      /\ DOMAIN r.memory \subseteq DOMAIN room'.memory /\ Kept(r.memory, room'.memory)
      /\ \/ outbox' = tasks
         \/ \E t \in DecisionTasks : outbox' = Append(tasks, t)
  BY <1>1, CommitFacts
<1>3. /\ \A t \in Summaries : t.hand \in Nat
      /\ \A t \in Waiting(queue) \cup Waiting(Held) : Past(t.hand) /\ t.hand \in Nat
  <2>1. \A i \in DOMAIN queue : queue[i] \in Task
    BY ElementOfSeq DEF TypeOK
  <2>2. Waiting(queue) \subseteq Summaries
    BY <2>1 DEF Waiting, Tasks, Task, DecisionTasks
  <2>3. loop \in Idle \cup Deciding \cup Reviewing
    BY DEF TypeOK
  <2>4. \A t \in Waiting(Held) : t = loop.task /\ t.kind = "summarize" /\ loop.phase \notin {"ready", "sending"}
    BY DEF Waiting, Tasks, Held
  <2>5. Waiting(Held) \subseteq Summaries
    BY <2>3, <2>4, LoopFacts
  <2>6. \A t \in Summaries : t.hand \in Nat
    BY DEF Summaries
  <2> QED BY <2>2, <2>5, <2>6 DEF Unwritten
<1>4. \A h \in Nat : Past(h) => Past(h)'
  BY <1>1, <1>2 DEF Past, LegalRoom
<1>5. Once(outbox') /\ Waiting(outbox') = Waiting(tasks)
  <2>1. ASSUME NEW t \in DecisionTasks, outbox' = Append(tasks, t)
        PROVE  Once(outbox') /\ Waiting(outbox') = Waiting(tasks)
    <3>1. t \in Task /\ t.kind = "decide"
      BY DEF Task, DecisionTasks
    <3>2. t \notin Waiting(tasks)
      BY <3>1 DEF Waiting
    <3>3. Once(tasks)
      BY DEF LegalTasks
    <3> QED BY <1>1, <2>1, <3>1, <3>2, <3>3, AppendTask
  <2>2. CASE outbox' = tasks
    BY <2>2 DEF LegalTasks
  <2> QED BY <1>2, <2>1, <2>2
<1>6. Waiting(Held') \subseteq Waiting(Held)
  <2>1. CASE loop' = loop
    BY <2>1 DEF Held
  <2>2. CASE loop' \in Idle
    <3>1. Held' = <<>>
      BY <2>2 DEF Held, Idle
    <3> QED BY <3>1, NoTasks
  <2> QED BY <2>1, <2>2
<1>7. \A t \in Waiting(tasks) : /\ t.hand = room.hand /\ t.hand = r.hand
                                /\ room.game.stage = "play" /\ r.game.stage = "over"
  BY DEF LegalTasks, Waiting
<1>8. \A t \in Waiting(tasks) : \A w \in Waiting(queue) \cup Waiting(Held) : w # t
  BY <1>3, <1>7 DEF Past
<1>9. OnTheirWayOnce'
  <2>1. Once(queue') /\ Waiting(queue') \cap Waiting(Held') = {}
    BY <1>6 DEF OnTheirWayOnce
  <2>2. Waiting(queue') \cap Waiting(outbox') = {} /\ Waiting(outbox') \cap Waiting(Held') = {}
    BY <1>5, <1>6, <1>8
  <2> QED BY <1>5, <2>1, <2>2 DEF OnTheirWayOnce, Once, Waiting, Tasks, Held
<1>10. ASSUME NEW p \in DOMAIN room'.memory
       PROVE  \/ room'.memory[p].log = <<>>
              \/ p \in DOMAIN room.memory /\ room'.memory[p].log = room.memory[p].log
  BY <1>2 DEF Kept, LegalRoom
<1>11. \A p \in DOMAIN room.memory : \A h \in Tasks(room.memory[p].log) : h \in Nat /\ Past(h)
  <2>1. TAKE p \in DOMAIN room.memory
  <2>2. room.memory \in Memories
    BY DEF TypeOK, Room, Memories
  <2>3. room.memory[p].log \in Seq(Nat)
    BY <2>2, MemoriesFacts DEF Memory
  <2>4. \A i \in DOMAIN room.memory[p].log : room.memory[p].log[i] \in Nat
    BY <2>3, ElementOfSeq
  <2> QED BY <2>4 DEF Tasks, Unwritten
<1>12. \A p \in DOMAIN room'.memory : \A h \in Tasks(room'.memory[p].log) : Past(h)'
  BY <1>4, <1>10, <1>11, NoTasks
<1>13. \A t \in Waiting(queue) \cup Waiting(Held) : t.player \in DOMAIN room'.memory =>
         t.hand \notin Tasks(room'.memory[t.player].log)
  BY <1>10, NoTasks DEF Unwritten
<1>14. \A t \in Waiting(tasks) : t.player \in DOMAIN room'.memory =>
         t.hand \notin Tasks(room'.memory[t.player].log)
  BY <1>7, <1>10, <1>11, NoTasks DEF Past
<1>15. \A t \in Waiting(tasks) : Past(t.hand)'
  BY <1>1, <1>2, <1>7 DEF Past
<1>16. \A t \in Waiting(queue) \cup Waiting(Held) : Past(t.hand)'
  BY <1>3, <1>4
<1>17. \A t \in Waiting(queue') \cup Waiting(outbox') \cup Waiting(Held') :
         /\ Past(t.hand)'
         /\ t.player \in DOMAIN room'.memory => t.hand \notin Tasks(room'.memory[t.player].log)
  BY <1>5, <1>6, <1>13, <1>14, <1>15, <1>16
<1> QED BY <1>9, <1>12, <1>17 DEF Unwritten, Waiting, Tasks, Held

LEMMA CommitNoted ==
  ASSUME TypeOK, Noted, Unlocked, Exists, NEW r, LegalRoom(r), LegalNotes(r), turns' \in Nat,
         NEW tasks \in Seq(Summaries), Commit(r, tasks)
  PROVE  Noted'
<1>1. /\ r \in Room /\ r.hand \in {room.hand, room.hand + 1} /\ room.hand \in Nat
  BY DEF LegalRoom, TypeOK, Room
<1>2. /\ room'.seated = r.seated /\ room'.game = r.game /\ room'.hand = r.hand
      /\ room'.status # "deleted" /\ r.game.in \cap Human \subseteq r.seated
      /\ DOMAIN r.memory \subseteq DOMAIN room'.memory /\ Kept(r.memory, room'.memory)
      /\ \A p \in DOMAIN r.memory : room'.memory[p].decided \in {r.memory[p].decided, r.hand}
      /\ \A p \in played' : \/ r.hand = room.hand /\ p \in played
                            \/ /\ p \in DOMAIN room'.memory /\ room'.memory[p].decided = r.hand
                               /\ r.game.stage = "play"
  BY <1>1, CommitFacts DEF LegalRoom
<1>3. ASSUME r.game.stage = "play", NEW p \in played' \cap r.game.in \cap r.seated
      PROVE  p \in DOMAIN room'.memory /\ room'.memory[p].decided = r.hand
  BY <1>2, <1>3 DEF LegalNotes
<1>4. ASSUME r.game.stage = "over", turns' > 0,
             NEW p \in (Bot \cup played') \cap r.game.in \cap r.seated
      PROVE  p \in DOMAIN room'.memory /\ room'.memory[p].observed = r.hand
  <2>1. r.hand = room.hand
    BY <1>4 DEF LegalNotes
  <2>2. p \in Bot \cup played
    BY <1>2, <1>4
  <2>3. p \in DOMAIN r.memory /\ r.memory[p].observed = r.hand
    BY <1>4, <2>1, <2>2 DEF LegalNotes
  <2> QED BY <1>2, <2>3 DEF Kept
<1> QED BY <1>2, <1>3, <1>4 DEF Noted, Exists

\* A memory that is kept, or new, has been shown no more than it was.
LEMMA KeptUnseen ==
  ASSUME NEW r \in Room, NEW k \in Room, NEW n, UnseenIn(r, n),
         k.game = r.game, k.hand = r.hand, Kept(r.memory, k.memory)
  PROVE  UnseenIn(k, n)
<1>1. ASSUME NEW p \in DOMAIN k.memory
      PROVE  /\ k.memory[p].observed <= k.hand
             /\ r.game.stage = "play" \/ (r.game.stage = "over" /\ n = 0) => k.memory[p].observed # k.hand
  <2>1. r.hand \in Nat
    BY DEF Room
  <2>2. CASE p \in DOMAIN r.memory
    BY <2>2 DEF Kept, UnseenIn
  <2>3. CASE p \notin DOMAIN r.memory
    BY <2>1, <2>3 DEF Kept, UnseenIn
  <2> QED BY <2>2, <2>3
<1> QED BY <1>1 DEF UnseenIn

LEMMA CommitUnseen ==
  ASSUME TypeOK, Unlocked, NEW r \in Room, UnseenIn(r, turns'),
         NEW tasks \in Seq(Summaries), Commit(r, tasks)
  PROVE  Unseen'
<1>1. /\ room' \in Room /\ room'.game = r.game /\ room'.hand = r.hand
      /\ Kept(r.memory, room'.memory)
  BY CommitFacts
<1>2. PICK k, n : k = room' /\ n = turns'
  OBVIOUS
<1>3. UnseenIn(k, n)
  BY <1>1, <1>2, KeptUnseen
<1> QED BY <1>2, <1>3 DEF Unseen, UnseenIn

LEMMA CommitInv ==
  ASSUME Inv, Unlocked, Exists, NEW r, LegalRoom(r), LegalNotes(r), UnseenIn(r, turns'),
         NEW tasks, LegalTasks(r, tasks), Commit(r, tasks), queue' = queue, turns' \in Nat,
         loop' = loop \/ (At("applying") /\ loop' \in Idle)
  PROVE  Inv'
<1>1. /\ TypeOK /\ OneDecision /\ TurnAttended
      /\ Fresh /\ OnTheirWayOnce /\ Unwritten /\ Noted /\ Unseen
  BY DEF Inv
<1>2. /\ r \in Room /\ tasks \in Seq(Summaries) /\ tasks \in Seq(Task)
      /\ r.worker = room.worker /\ r.version = room.version
  BY CountNone DEF LegalRoom, LegalTasks
<1>3. /\ room' \in Room /\ played' \in SUBSET Player /\ (AITurn' => room'.worker)
      /\ \/ outbox' = tasks
         \/ \E t \in DecisionTasks : outbox' = Append(tasks, t)
  BY <1>1, <1>2, CommitFacts
<1>4. outbox' \in Seq(Task)
  <2>1. \A t \in DecisionTasks : Append(tasks, t) \in Seq(Task)
    BY <1>2, CountAppend DEF Task
  <2> QED BY <1>2, <1>3, <2>1
<1>5. At("deciding")' <=> At("deciding")
  BY DEF At, Idle
<1>6. loop' \in Idle \cup Deciding \cup Reviewing /\ (At("failed") => loop.task.retries > 0)'
  <2>1. loop \in Idle \cup Deciding \cup Reviewing /\ (At("failed") => loop.task.retries > 0)
    BY <1>1 DEF TypeOK
  <2>2. CASE loop' = loop
    BY <2>1, <2>2 DEF At
  <2>3. CASE loop' \in Idle
    BY <2>3 DEF At, Idle
  <2> QED BY <2>2, <2>3
<1>7. TypeOK'
  <2>1. queue' \in Seq(Task)
    BY <1>1 DEF TypeOK
  <2> QED BY <1>3, <1>4, <1>6, <2>1 DEF TypeOK
<1>8. OneDecision'
  BY <1>1, <1>2, <1>5, CommitOneDecision
<1>9. TurnAttended'
  BY <1>3 DEF TurnAttended
<1>10. Fresh'
  BY <1>1, <1>2, CommitFresh
<1>11. OnTheirWayOnce' /\ Unwritten'
  BY <1>1, CommitSummaries
<1>12. Noted'
  BY <1>1, <1>2, CommitNoted
<1>13. Unseen'
  BY <1>1, <1>2, CommitUnseen
<1> QED BY <1>7, <1>8, <1>9, <1>10, <1>11, <1>12, <1>13 DEF Inv

\* What a method may do to the room besides: the hand loses players, memories
\* are dropped, and the hand goes on or stays over, or is ended.
Smaller(r) ==
  /\ r \in Room /\ r.worker = room.worker /\ r.version = room.version /\ r.hand = room.hand
  /\ r.status # "deleted" /\ r.game.in \subseteq room.game.in /\ r.seated \subseteq room.seated
  /\ r.game.in \cap Human \subseteq r.seated
  /\ \A p \in DOMAIN r.memory : p \in DOMAIN room.memory /\ r.memory[p] = room.memory[p]
  /\ \A p \in r.seated \cap DOMAIN room.memory : p \in DOMAIN r.memory

LEMMA KeepInv ==
  ASSUME Inv, Unlocked, Exists, NEW r, Smaller(r), r.game.stage = room.game.stage,
         Commit(r, <<>>), queue' = queue, turns' \in Nat,
         r.game.stage = "over" => turns' = turns, turns' >= turns,
         loop' = loop \/ (At("applying") /\ loop' \in Idle)
  PROVE  Inv'
<1>1. LegalRoom(r)
  BY DEF LegalRoom, Smaller
<1>2. LegalNotes(r)
  BY DEF LegalNotes, Smaller, Inv, Noted
<1>3. <<>> \in Seq(Summaries)
  BY EmptySeq
<1>4. LegalTasks(r, <<>>)
  BY <1>3, NoTasks DEF LegalTasks
<1>5. UnseenIn(r, turns')
  <2>1. turns \in Nat /\ UnseenIn(room, turns)
    BY DEF Inv, TypeOK, Unseen
  <2>2. \A p \in DOMAIN r.memory : p \in DOMAIN room.memory /\ r.memory[p] = room.memory[p]
    BY DEF Smaller
  <2>3. r.hand = room.hand /\ (r.game.stage = "over" /\ turns' = 0 => turns = 0)
    BY DEF Smaller
  <2> QED BY <2>1, <2>2, <2>3 DEF UnseenIn
<1> QED BY <1>1, <1>2, <1>4, <1>5, CommitInv

LEMMA EndInv ==
  ASSUME Inv, Unlocked, Exists, NEW r, Smaller(r), room.game.stage = "play",
         r.game \in Hand, r.game.stage = "over",
         Commit(EnqueueSummaries(r), SummaryTasks(r)), queue' = queue, turns' = turns,
         loop' = loop \/ (At("applying") /\ loop' \in Idle)
  PROVE  Inv'
<1>1. PICK s, tasks : s = EnqueueSummaries(r) /\ tasks = SummaryTasks(r)
  OBVIOUS
<1>2. /\ s \in Room /\ s.seated = r.seated /\ s.game = r.game /\ s.status # "deleted"
      /\ s.version = r.version /\ s.hand = r.hand /\ s.worker = r.worker
      /\ DOMAIN s.memory = DOMAIN r.memory \cup Reviewed(r)
      /\ \A p \in DOMAIN s.memory :
           s.memory[p].log = IF p \in DOMAIN r.memory THEN r.memory[p].log ELSE <<>>
      /\ \A p \in Reviewed(r) : s.memory[p].observed = r.hand
      /\ \A p \in DOMAIN r.memory : p \notin Reviewed(r) => s.memory[p] = r.memory[p]
  BY <1>1, SummariesFacts DEF Smaller
<1>3. tasks \in Seq(Summaries) /\ Once(tasks) /\ \A t \in Tasks(tasks) : t.hand = r.hand
  BY <1>1, SummaryTasksFacts DEF Smaller
<1>4. LegalRoom(s)
  BY <1>2 DEF LegalRoom, Smaller
<1>5. LegalTasks(s, tasks)
  BY <1>2, <1>3 DEF LegalTasks, Smaller
<1>6. ASSUME NEW p \in (Bot \cup played) \cap r.game.in \cap r.seated PROVE p \in Reviewed(r)
  <2>1. CASE p \in Bot
    BY <1>6, <2>1 DEF Reviewed
  <2>2. CASE p \in played
    <3>1. p \in DOMAIN room.memory /\ room.memory[p].decided = room.hand
      BY <1>6, <2>2 DEF Smaller, Inv, Noted
    <3>2. p \in DOMAIN r.memory /\ r.memory[p].decided = r.hand
      BY <1>6, <3>1 DEF Smaller
    <3> QED BY <1>6, <3>2 DEF Reviewed
  <2> QED BY <1>6, <2>1, <2>2
<1>7. LegalNotes(s)
  BY <1>2, <1>6 DEF LegalNotes, Smaller
<1>8. Commit(s, tasks)
  BY <1>1
<1>9. turns \in Nat /\ turns > 0 /\ UnseenIn(room, turns)
  BY DEF Inv, TypeOK, Unseen, UnseenIn
<1>10. UnseenIn(s, turns')
  <2>1. room.hand \in Nat /\ r.hand = room.hand
    BY DEF Inv, TypeOK, Room, Smaller
  <2>2. ASSUME NEW p \in DOMAIN s.memory PROVE s.memory[p].observed <= s.hand
    <3>1. CASE p \in Reviewed(r)
      BY <1>2, <2>1, <3>1
    <3>2. CASE p \notin Reviewed(r)
      <4>1. p \in DOMAIN room.memory /\ s.memory[p] = room.memory[p]
        BY <1>2, <3>2 DEF Smaller
      <4> QED BY <1>2, <1>9, <2>1, <4>1 DEF UnseenIn
    <3> QED BY <3>1, <3>2
  <2> QED BY <1>2, <1>9, <2>1, <2>2 DEF UnseenIn
<1> QED BY <1>4, <1>5, <1>7, <1>8, <1>9, <1>10, CommitInv

-----------------------------------------------------------------------------
(* The requests. *)

LEMMA HandDealt ==
  ASSUME TypeOK, room.game.stage # "none"
  PROVE  room.game \in Hand /\ room.game.able \subseteq room.game.in
BY DEF TypeOK, Room, Game, NoGame

LEMMA DealInv ==
  ASSUME Inv, Deal
  PROVE  Inv'
<1>1. /\ Unlocked /\ Exists /\ queue' = queue /\ loop' = loop
      /\ room \in Room /\ room.hand \in Nat
  BY DEF Deal, Inv, TypeOK, Room
<1>2. PICK in \in SUBSET room.seated, stage \in {"play", "over"} :
        \E turn \in in :
          /\ turns' = IF stage = "play" THEN 1 ELSE 0
          /\ Commit([room EXCEPT !.status = "playing", !.hand = @ + 1,
                       !.game = [stage |-> stage, in |-> in, turn |-> turn,
                                 able |-> IF stage = "play" THEN in ELSE {}]], <<>>)
  BY DEF Deal
<1>20. PICK turn \in in :
        /\ turns' = IF stage = "play" THEN 1 ELSE 0
        /\ Commit([room EXCEPT !.status = "playing", !.hand = @ + 1,
                     !.game = [stage |-> stage, in |-> in, turn |-> turn,
                               able |-> IF stage = "play" THEN in ELSE {}]], <<>>)
  BY <1>2
<1>3. PICK g : g = [stage |-> stage, in |-> in, turn |-> turn,
                    able |-> IF stage = "play" THEN in ELSE {}]
  OBVIOUS
<1>4. g \in Game /\ g.in \subseteq room.seated /\ g.stage = stage
  <2>1. in \in SUBSET Player /\ turn \in Player
    BY <1>1 DEF Room
  <2> QED BY <1>3, <2>1 DEF Game, Hand
<1>5. PICK r : r = [room EXCEPT !.status = "playing", !.hand = @ + 1, !.game = g]
  OBVIOUS
<1>6. /\ r \in Room /\ r.worker = room.worker /\ r.version = room.version
      /\ r.hand = room.hand + 1 /\ r.memory = room.memory /\ r.status = "playing"
      /\ r.game.in \subseteq r.seated /\ r.game.stage = stage
  <2>1. PICK n : n = room.hand + 1
    OBVIOUS
  <2>2. n \in Nat /\ r = [room EXCEPT !.status = "playing", !.hand = n, !.game = g]
    BY <1>1, <1>5, <2>1
  <2>3. /\ r.worker = room.worker /\ r.version = room.version /\ r.hand = n /\ r.memory = room.memory
        /\ r.game = g /\ r.seated = room.seated
    BY <1>1, <2>2 DEF Room
  <2>4. r \in Room /\ r.status = "playing"
    BY <1>1, <1>4, <2>2 DEF Room
  <2> QED BY <1>4, <2>1, <2>3, <2>4
<1>7. LegalRoom(r) /\ LegalNotes(r)
  BY <1>1, <1>20, <1>6 DEF LegalRoom, LegalNotes
<1>8. <<>> \in Seq(Summaries)
  BY EmptySeq
<1>9. LegalTasks(r, <<>>)
  BY <1>8, NoTasks DEF LegalTasks
<1>10. Commit(r, <<>>)
  BY <1>20, <1>3, <1>5
<1>11. UnseenIn(r, turns')
  <2>1. \A p \in DOMAIN room.memory : /\ room.memory[p].observed <= room.hand
                                       /\ room.memory[p].observed \in Nat
    <3>1. room.memory \in Memories
      BY <1>1 DEF Room, Memories
    <3>2. \A p \in DOMAIN room.memory : room.memory[p] \in Memory
      BY <3>1, MemoriesFacts
    <3> QED BY <1>1, <3>2 DEF Inv, Unseen, UnseenIn, Memory
  <2> QED BY <1>1, <1>20, <1>6, <2>1 DEF UnseenIn
<1>12. turns' \in Nat
  BY <1>20
<1> QED BY <1>1, <1>7, <1>9, <1>10, <1>11, <1>12, CommitInv

\* An action of a player who can act, from a request or from the event loop.
LEMMA ActionInv ==
  ASSUME Inv, Unlocked, NEW u, room.status = "playing", CanAct(room, u), AfterAction(u),
         queue' = queue, loop' = loop \/ (At("applying") /\ loop' \in Idle)
  PROVE  Inv'
<1>1. /\ Exists /\ room \in Room /\ turns \in Nat /\ room.game.stage = "play"
      /\ room.game \in Hand /\ room.game.able \subseteq room.game.in
      /\ room.game.in \cap Human \subseteq room.seated
  BY HandDealt DEF Exists, CanAct, Inv, TypeOK, Noted
<1>2. ASSUME turns' = turns + 1, NEW able \in {room.game.able, room.game.able \ {u}},
             NEW turn \in able, Commit([room EXCEPT !.game.able = able, !.game.turn = turn], <<>>)
      PROVE  Inv'
  <2>1. PICK g : g = [room.game EXCEPT !.able = able, !.turn = turn]
    OBVIOUS
  <2>2. g \in Game /\ g.stage = "play" /\ g.in = room.game.in
    BY <1>1, <2>1 DEF Game, Hand
  <2>3. PICK r : r = [room EXCEPT !.game = g]
    OBVIOUS
  <2>4. Smaller(r) /\ r.game = g
    BY <1>1, <2>2, <2>3 DEF Room, Smaller, Exists
  <2>5. r = [room EXCEPT !.game.able = able, !.game.turn = turn]
    BY <1>1, <2>1, <2>3 DEF Room
  <2>6. Commit(r, <<>>)
    BY <1>2, <2>5
  <2>7. turns' \in Nat /\ turns' >= turns /\ r.game.stage = room.game.stage /\ r.game.stage # "over"
    BY <1>1, <1>2, <2>2, <2>4
  <2> QED BY <1>1, <2>4, <2>6, <2>7, KeepInv
<1>3. ASSUME turns' = turns,
             NEW r, r = [room EXCEPT !.game.stage = "over", !.game.able = {}, !.status = "waiting"],
             Commit(EnqueueSummaries(r), SummaryTasks(r))
      PROVE  Inv'
  <2>1. PICK g : g = [room.game EXCEPT !.stage = "over", !.able = {}]
    OBVIOUS
  <2>2. g \in Game /\ g \in Hand /\ g.stage = "over" /\ g.in = room.game.in
    BY <1>1, <2>1 DEF Game, Hand
  <2>3. r = [room EXCEPT !.game = g, !.status = "waiting"]
    BY <1>1, <1>3, <2>1 DEF Room
  <2>4. Smaller(r) /\ r.game = g
    BY <1>1, <2>2, <2>3 DEF Room, Smaller, Exists
  <2>5. turns' = turns /\ r.game \in Hand /\ r.game.stage = "over"
    BY <1>1, <1>3, <2>2, <2>4
  <2>6. /\ Inv /\ Unlocked /\ Exists /\ room.game.stage = "play" /\ queue' = queue
        /\ loop' = loop \/ (At("applying") /\ loop' \in Idle)
    BY <1>1
  <2>7. Commit(EnqueueSummaries(r), SummaryTasks(r))
    BY <1>3
  <2> QED BY ONLY <2>4, <2>5, <2>6, <2>7, EndInv
<1>4. \/ /\ turns' = turns + 1
         /\ \E able \in {room.game.able, room.game.able \ {u}} : \E turn \in able :
              Commit([room EXCEPT !.game.able = able, !.game.turn = turn], <<>>)
      \/ /\ turns' = turns
         /\ \E r : /\ r = [room EXCEPT !.game.stage = "over", !.game.able = {}, !.status = "waiting"]
                   /\ Commit(EnqueueSummaries(r), SummaryTasks(r))
  BY DEF AfterAction
<1> QED BY <1>2, <1>3, <1>4

LEMMA ManagedInv ==
  ASSUME Inv, NEW u, SetPlayerAIManaged(u)
  PROVE  Inv'
<1>1. /\ Unlocked /\ Exists /\ queue' = queue /\ loop' = loop /\ turns' = turns
      /\ room \in Room /\ turns \in Nat /\ u \in Human
      /\ room.game.in \cap Human \subseteq room.seated
  BY DEF SetPlayerAIManaged, Aside, Inv, TypeOK, Noted
<1>2. PICK r : r = [room EXCEPT !.managed = IF u \in @ THEN @ \ {u} ELSE @ \cup {u}]
  OBVIOUS
<1>3. Smaller(r) /\ r.game = room.game
  BY <1>1, <1>2 DEF Room, Smaller, Exists
<1>4. Commit(r, <<>>)
  BY <1>2 DEF SetPlayerAIManaged
<1> QED BY <1>1, <1>3, <1>4, KeepInv

LEMMA GoneFacts ==
  ASSUME TypeOK, Exists, Noted, NEW u \in Human, NEW g, g = Without(u)
  PROVE  /\ Smaller(g) /\ g.game.stage = room.game.stage /\ g.status = room.status
         /\ room.game.stage # "none" => g.game \in Hand /\ g.game.able \subseteq g.game.in
         /\ g.game.in = room.game.in \ {u}
<1>1. /\ room \in Room /\ room.memory \in Memories /\ room.game \in Game
      /\ room.seated \in SUBSET Player /\ room.managed \in SUBSET Human
  BY DEF TypeOK, Room, Memories
<1>2. PICK mem, k : mem = room.memory /\ k = Restrict(room.memory, DOMAIN room.memory \ {u})
  OBVIOUS
<1>3. /\ DOMAIN k = DOMAIN mem \ {u} /\ k = [p \in DOMAIN k |-> k[p]]
      /\ \A p \in DOMAIN k : k[p] = mem[p]
  BY <1>2 DEF Restrict
<1>4. k \in Memories
  BY <1>1, <1>2, <1>3, MemoriesFacts
<1>5. PICK h : h = [room.game EXCEPT !.in = @ \ {u}, !.able = @ \ {u}]
  OBVIOUS
<1>6. /\ h \in Game /\ h.stage = room.game.stage /\ h.in = room.game.in \ {u}
      /\ room.game.stage # "none" => h \in Hand /\ h.able \subseteq h.in
  <2>1. CASE room.game = NoGame
    <3>1. {} \ {u} = {}
      OBVIOUS
    <3>2. h = [NoGame EXCEPT !.in = {}, !.able = {}]
      BY <1>5, <2>1, <3>1 DEF NoGame
    <3>3. h = NoGame
      BY <3>2 DEF NoGame
    <3> QED BY <2>1, <3>1, <3>3 DEF Game, NoGame
  <2>2. CASE room.game \in Hand /\ room.game.able \subseteq room.game.in
    <3>1. h \in Hand /\ h.stage = room.game.stage /\ h.in = room.game.in \ {u} /\ h.able = room.game.able \ {u}
      BY <1>5, <2>2 DEF Hand
    <3> QED BY <2>2, <3>1 DEF Game
  <2> QED BY <1>1, <2>1, <2>2 DEF Game
<1>7. g = [room EXCEPT !.seated = @ \ {u}, !.managed = @ \ {u}, !.game = h, !.memory = k]
  BY <1>1, <1>2, <1>5 DEF Without, Room
<1>8. PICK st, mg : st = room.seated \ {u} /\ mg = room.managed \ {u}
  OBVIOUS
<1>9. /\ st \in SUBSET Player /\ mg \in SUBSET Human
      /\ g = [room EXCEPT !.seated = st, !.managed = mg, !.game = h, !.memory = k]
  BY <1>1, <1>7, <1>8
<1>10. /\ g.seated = st /\ g.game = h /\ g.memory = k /\ g.status = room.status
       /\ g.worker = room.worker /\ g.version = room.version /\ g.hand = room.hand
  BY <1>1, <1>9 DEF Room
<1>11. g \in Room
  BY <1>1, <1>4, <1>6, <1>9 DEF Room, Memories
<1>12. u \notin st /\ st \subseteq room.seated /\ h.in \cap Human \subseteq st
  BY <1>6, <1>8 DEF Noted
<1>13. Smaller(g)
  BY <1>2, <1>3, <1>6, <1>10, <1>11, <1>12 DEF Smaller, Exists
<1> QED BY <1>6, <1>10, <1>13

\* The hand that u leaves: it is over, or goes on with somebody's turn.
LeftHands(u, gone, over, won) ==
  /\ gone = Without(u) /\ over = [gone EXCEPT !.game.stage = "over"]
  /\ won = [over EXCEPT !.status = "waiting", !.game.able = {}]
  /\ Smaller(gone) /\ gone.game.stage = room.game.stage
  /\ room.game.stage # "none" /\ room.status = "playing" =>
       /\ Smaller(won) /\ won.game \in Hand /\ won.game.stage = "over"
       /\ \A turn \in room.game.in \ {u} :
            \A r, s : r = [over EXCEPT !.game.turn = turn] /\ s = [gone EXCEPT !.game.turn = turn] =>
                /\ Smaller(r) /\ r.game \in Hand /\ r.game.stage = "over"
                /\ Smaller(s) /\ s.game.stage = room.game.stage

LEMMA LeaveHands ==
  ASSUME Inv, Exists, NEW u \in Human
  PROVE  \E gone, over, won : LeftHands(u, gone, over, won)
<1>1. TypeOK /\ Noted
  BY DEF Inv
<1>2. PICK gone : gone = Without(u)
  OBVIOUS
<1>3. PICK over : over = [gone EXCEPT !.game.stage = "over"]
  OBVIOUS
<1>4. /\ Smaller(gone) /\ gone.game.stage = room.game.stage /\ gone.status = room.status
      /\ room.game.stage # "none" => gone.game \in Hand /\ gone.game.able \subseteq gone.game.in
      /\ gone.game.in = room.game.in \ {u}
  BY ONLY <1>1, <1>2, Exists, u \in Human, GoneFacts
<1>5. PICK won : won = [over EXCEPT !.status = "waiting", !.game.able = {}]
  OBVIOUS
<1>6. ASSUME room.game.stage # "none", room.status = "playing"
      PROVE  /\ Smaller(won) /\ won.game \in Hand /\ won.game.stage = "over"
             /\ \A turn \in room.game.in \ {u} :
                  \A r, s : r = [over EXCEPT !.game.turn = turn] /\ s = [gone EXCEPT !.game.turn = turn] =>
                      /\ Smaller(r) /\ r.game \in Hand /\ r.game.stage = "over"
                      /\ Smaller(s) /\ s.game.stage = room.game.stage
  <2>1. /\ Smaller(gone) /\ gone.game.stage = room.game.stage /\ gone.status = "playing"
        /\ gone.game \in Hand /\ gone.game.able \subseteq gone.game.in
        /\ gone.game.in = room.game.in \ {u}
    BY ONLY <1>4, <1>6
  <2>2. gone \in Room
    BY <2>1 DEF Smaller
  <2>3. Smaller(won) /\ won.game \in Hand /\ won.game.stage = "over"
    <3>1. PICK h : h = [gone.game EXCEPT !.stage = "over", !.able = {}]
      OBVIOUS
    <3>2. h \in Game /\ h \in Hand /\ h.in \subseteq gone.game.in /\ h.stage = "over"
      BY <2>1, <3>1 DEF Game, Hand
    <3>3. won = [gone EXCEPT !.game = h, !.status = "waiting"]
      BY <2>1, <2>2, <1>3, <1>5, <3>1 DEF Room, Hand
    <3>4. Smaller(won) /\ won.game = h
      BY ONLY <2>1, <2>2, <3>2, <3>3 DEF Room, Smaller
    <3> QED BY <3>2, <3>4
  <2>4. ASSUME NEW turn \in room.game.in \ {u},
               NEW r, r = [over EXCEPT !.game.turn = turn],
               NEW s, s = [gone EXCEPT !.game.turn = turn]
        PROVE  /\ Smaller(r) /\ r.game \in Hand /\ r.game.stage = "over"
               /\ Smaller(s) /\ s.game.stage = room.game.stage
    <3>1. turn \in Player
      BY <2>1 DEF Hand
    <3>2. PICK h : h = [gone.game EXCEPT !.stage = "over", !.turn = turn]
      OBVIOUS
    <3>3. PICK k : k = [gone.game EXCEPT !.turn = turn]
      OBVIOUS
    <3>4. h \in Game /\ h \in Hand /\ h.in \subseteq gone.game.in /\ h.stage = "over"
      BY <2>1, <3>1, <3>2 DEF Game, Hand
    <3>5. k \in Game /\ k.in \subseteq gone.game.in /\ k.stage = room.game.stage
      BY <2>1, <3>1, <3>3 DEF Game, Hand
    <3>6. r = [gone EXCEPT !.game = h, !.status = "playing"]
      BY <2>1, <2>2, <1>3, <2>4, <3>2 DEF Room, Hand
    <3>7. s = [gone EXCEPT !.game = k, !.status = "playing"]
      BY <2>1, <2>2, <2>4, <3>3 DEF Room, Hand
    <3>8. Smaller(r) /\ r.game = h
      BY ONLY <2>1, <2>2, <3>4, <3>6 DEF Room, Smaller
    <3>9. Smaller(s) /\ s.game = k
      BY ONLY <2>1, <2>2, <3>5, <3>7 DEF Room, Smaller
    <3> QED BY <3>4, <3>5, <3>8, <3>9
  <2> QED BY <2>3, <2>4
<1>7. LeftHands(u, gone, over, won)
  BY ONLY <1>2, <1>3, <1>4, <1>5, <1>6 DEF LeftHands
<1> QED BY <1>7

\* The last user has left: the room is gone, and what is on its way will find
\* nothing.
LEMMA DeletedInv ==
  ASSUME Inv, NEW u, room.game \in Game,
         room' = [Without(u) EXCEPT !.status = "deleted", !.worker = FALSE, !.game = NoGame,
                                    !.memory = <<>>],
         Smaller(Without(u)), UNCHANGED <<outbox, past, queue, loop, turns>>
  PROVE  Inv'
<1>1. PICK g, mem : g = Without(u) /\ mem = <<>>
  OBVIOUS
<1>2. g \in Room /\ g.version = room.version /\ g.hand = room.hand
  BY <1>1 DEF Smaller
<1>3. mem \in Memories /\ DOMAIN mem = {}
  <2>1. DOMAIN mem = {} /\ mem = [p \in DOMAIN mem |-> mem[p]]
    BY <1>1
  <2> QED BY <2>1, MemoriesFacts
<1>4. room' = [g EXCEPT !.status = "deleted", !.worker = FALSE, !.game = NoGame, !.memory = mem]
  BY <1>1
<1>5. /\ room' \in Room /\ room'.status = "deleted" /\ room'.game = NoGame
      /\ room'.version = room.version /\ room'.hand = room.hand /\ DOMAIN room'.memory = {}
  BY <1>2, <1>3, <1>4 DEF Room, Memories, Game
<1>6. room'.game.stage = "none"
  BY <1>5 DEF NoGame
<1>7. /\ queue' = queue /\ outbox' = outbox /\ loop' = loop /\ turns' = turns /\ played' = played
  BY DEF past
<1>8. TypeOK' /\ OneDecision' /\ TurnAttended'
  BY <1>5, <1>7 DEF Inv, TypeOK, OneDecision, TurnAttended, Exists, AITurn, At
<1>9. \A t : Current(t) => Current(t)'
  BY <1>5 DEF Current, Exists
<1>10. Fresh'
  BY <1>7, <1>9 DEF Inv, Fresh, At, Tasks
<1>11. OnTheirWayOnce'
  BY <1>7 DEF Inv, OnTheirWayOnce, Once, Waiting, Tasks, Held
<1>12. \A x : Past(x) => Past(x)'
  BY <1>5, <1>6 DEF Past
<1>13. Unwritten'
  BY <1>5, <1>7, <1>12 DEF Inv, Unwritten, Waiting, Tasks, Held
<1>14. Noted' /\ Unseen'
  BY <1>5, <1>6 DEF Noted, Unseen, Exists
<1> QED BY <1>8, <1>10, <1>11, <1>13, <1>14 DEF Inv

LEMMA LeaveInv ==
  ASSUME Inv, NEW u, LeaveRoom(u)
  PROVE  Inv'
<1>1. /\ Unlocked /\ Exists /\ queue' = queue /\ loop' = loop /\ turns' = turns
      /\ TypeOK /\ room \in Room /\ turns \in Nat /\ u \in Human
  BY DEF LeaveRoom, Aside, Inv, TypeOK
<1>20. PICK gone, over, won : LeftHands(u, gone, over, won)
  BY <1>1, LeaveHands
<1>2. /\ gone = Without(u) /\ over = [gone EXCEPT !.game.stage = "over"]
      /\ won = [over EXCEPT !.status = "waiting", !.game.able = {}]
      /\ Smaller(gone) /\ gone.game.stage = room.game.stage
      /\ room.game.stage # "none" /\ room.status = "playing" =>
           /\ Smaller(won) /\ won.game \in Hand /\ won.game.stage = "over"
           /\ \A turn \in room.game.in \ {u} :
                \A r, s : r = [over EXCEPT !.game.turn = turn] /\ s = [gone EXCEPT !.game.turn = turn] =>
                    /\ Smaller(r) /\ r.game \in Hand /\ r.game.stage = "over"
                    /\ Smaller(s) /\ s.game.stage = room.game.stage
  BY <1>20 DEF LeftHands
\* the hand is left as it is, or goes on, or had ended before
<1>7. ASSUME NEW r, Smaller(r), r.game.stage = room.game.stage, Commit(r, <<>>) PROVE Inv'
  BY <1>1, <1>7, KeepInv
\* the hand ends
<1>8. ASSUME NEW r, Smaller(r), r.game \in Hand, r.game.stage = "over", room.game.stage = "play",
             Commit(EnqueueSummaries(r), SummaryTasks(r))
      PROVE  Inv'
  BY <1>1, <1>8, EndInv
<1>9. CASE /\ room' = [gone EXCEPT !.status = "deleted", !.worker = FALSE, !.game = NoGame,
                                    !.memory = <<>>]
           /\ UNCHANGED <<outbox, past>>
  BY <1>1, <1>2, <1>9, DeletedInv DEF Room
<1>10. CASE room.status = "waiting" /\ Commit(gone, <<>>)
  BY <1>2, <1>7, <1>10
<1>11. CASE room.status = "playing" /\ room.game.stage = "play" /\ Commit(EnqueueSummaries(won), SummaryTasks(won))
  BY <1>2, <1>8, <1>11
<1>12. CASE room.status = "playing" /\ room.game.stage = "over" /\ Commit(won, <<>>)
  BY <1>2, <1>7, <1>12
<1>13. ASSUME NEW turn \in room.game.in \ {u}, room.status = "playing", room.game.stage \in {"play", "over"},
              NEW r, r = [over EXCEPT !.game.turn = turn], NEW s, s = [gone EXCEPT !.game.turn = turn],
              \/ room.game.stage = "play" /\ Commit(s, <<>>)
              \/ room.game.stage = "play" /\ Commit(EnqueueSummaries(r), SummaryTasks(r))
              \/ room.game.stage = "over" /\ Commit(r, <<>>)
       PROVE  Inv'
  <2>1. /\ Smaller(r) /\ r.game \in Hand /\ r.game.stage = "over"
        /\ Smaller(s) /\ s.game.stage = room.game.stage
    BY <1>2, <1>13
  <2> QED BY <1>7, <1>8, <1>13, <2>1
<1>14. \/ /\ room' = [gone EXCEPT !.status = "deleted", !.worker = FALSE, !.game = NoGame,
                                    !.memory = <<>>]
          /\ UNCHANGED <<outbox, past>>
       \/ room.status = "waiting" /\ Commit(gone, <<>>)
       \/ room.status = "playing" /\ room.game.stage = "play" /\ Commit(EnqueueSummaries(won), SummaryTasks(won))
       \/ room.status = "playing" /\ room.game.stage = "over" /\ Commit(won, <<>>)
       \/ \E turn \in room.game.in \ {u} : \E r, s :
            /\ r = [over EXCEPT !.game.turn = turn] /\ s = [gone EXCEPT !.game.turn = turn]
            /\ room.status = "playing" /\ room.game.stage \in {"play", "over"}
            /\ \/ room.game.stage = "play" /\ Commit(s, <<>>)
               \/ room.game.stage = "play" /\ Commit(EnqueueSummaries(r), SummaryTasks(r))
               \/ room.game.stage = "over" /\ Commit(r, <<>>)
  BY <1>2 DEF LeaveRoom, Left
<1> QED BY <1>9, <1>10, <1>11, <1>12, <1>13, <1>14


-----------------------------------------------------------------------------
(* Steps that leave the hand alone. *)

LEMMA BumpInv ==
  ASSUME Inv, NEW r \in Room, Bump(r),
         r.status = room.status, r.worker = room.worker, r.version = room.version,
         r.hand = room.hand, r.game = room.game, r.managed = room.managed,
         r.seated \cap r.game.in \subseteq room.seated, r.game.in \cap Human \subseteq r.seated,
         \A p \in DOMAIN r.memory : p \in DOMAIN room.memory /\ r.memory[p] = room.memory[p],
         \A p \in r.seated \cap DOMAIN room.memory : p \in DOMAIN r.memory
  PROVE  Inv'
<1>1. /\ Unlocked /\ Exists /\ room \in Room /\ room.version \in Nat
      /\ queue' = queue /\ outbox' = outbox /\ loop' = loop /\ turns' = turns
      /\ played' = played /\ gaveUp' = gaveUp
  BY DEF Bump, Aside, past, Inv, TypeOK, Room
<1>2. room' = [r EXCEPT !.version = @ + 1]
  BY DEF Bump
<1>3. /\ room' \in Room /\ room'.status = room.status /\ room'.worker = room.worker
      /\ room'.version = room.version + 1 /\ room'.hand = room.hand /\ room'.game = room.game
      /\ room'.managed = room.managed /\ room'.seated = r.seated /\ room'.memory = r.memory
  BY <1>2 DEF Room
<1>4. TypeOK'
  BY <1>1, <1>3 DEF Inv, TypeOK, At
<1>5. OneDecision'
  <2>1. Pending' = Pending
    BY <1>1 DEF Pending, At
  <2> QED BY <1>1, <1>3, <2>1 DEF Inv, OneDecision, Exists
<1>6. TurnAttended'
  BY <1>1, <1>3 DEF Inv, TurnAttended, AITurn, Automatic, At
<1>7. Fresh'
  <2>1. ASSUME NEW t \in DecisionTasks, Current(t) PROVE Current(t)'
    <3>1. t.version \in Nat
      BY DEF DecisionTasks
    <3> QED BY <1>1, <1>3, <2>1, <3>1 DEF Current
  <2>2. \A i \in DOMAIN queue : queue[i] \in Task
    BY ElementOfSeq DEF Inv, TypeOK
  <2>3. Tasks(outbox) = {}
    BY <1>1, NoTasks DEF Unlocked
  <2>4. \A t \in Tasks(queue) : t.kind = "decide" => t \in DecisionTasks
    BY <2>2 DEF Tasks, Task, Summaries
  <2>5. loop \in Idle \cup Deciding \cup Reviewing
    BY DEF Inv, TypeOK
  <2>6. At("deciding") \/ At("applying") => loop.task \in DecisionTasks
    BY <2>5, LoopFacts DEF At
  <2>7. \A t \in Tasks(queue) \cup Tasks(outbox) : t.kind = "decide" => Current(t)'
    BY <2>1, <2>3, <2>4 DEF Inv, Fresh
  <2>8. At("deciding") \/ At("applying") => Current(loop.task)'
    <3>1. PICK t : t = loop.task
      OBVIOUS
    <3>2. At("deciding") \/ At("applying") => t \in DecisionTasks /\ Current(t)
      BY <2>6, <3>1 DEF Inv, Fresh
    <3>3. At("deciding") \/ At("applying") => Current(t)'
      BY <2>1, <3>2
    <3> QED BY <1>1, <3>1, <3>3
  <2> QED BY <1>1, <2>7, <2>8 DEF Fresh, At, Tasks
<1>8. OnTheirWayOnce'
  BY <1>1 DEF Inv, OnTheirWayOnce, Once, Waiting, Tasks, Held
<1>9. \A x : Past(x) => Past(x)'
  BY <1>3 DEF Past
<1>10. Unwritten'
  <2>1. \A p \in DOMAIN room'.memory : p \in DOMAIN room.memory /\ room'.memory[p] = room.memory[p]
    BY <1>3
  <2> QED BY <1>1, <1>9, <2>1 DEF Inv, Unwritten, Waiting, Tasks, Held
<1>11. Noted'
  BY <1>1, <1>3 DEF Inv, Noted, Exists
<1>12. Unseen'
  BY <1>1, <1>3 DEF Inv, Unseen, UnseenIn, Exists
<1> QED BY <1>4, <1>5, <1>6, <1>7, <1>8, <1>10, <1>11, <1>12 DEF Inv

LEMMA WatchInv ==
  ASSUME Inv, Watch
  PROVE  Inv'
<1>1. room \in Room /\ Exists /\ Noted
  BY DEF Watch, Bump, Aside, Inv, TypeOK
<1> QED BY <1>1, BumpInv DEF Watch, Noted

LEMMA JoinInv ==
  ASSUME Inv, NEW u \in Human, JoinRoom(u)
  PROVE  Inv'
<1>1. PICK r : r = [room EXCEPT !.seated = @ \cup {u}]
  OBVIOUS
<1>2. room \in Room /\ Exists /\ Noted /\ Bump(r) /\ u \in Player
  BY <1>1 DEF JoinRoom, Bump, Aside, Inv, TypeOK, Player
<1>3. PICK st : st = room.seated \cup {u}
  OBVIOUS
<1>4. st \in SUBSET Player /\ r = [room EXCEPT !.seated = st]
  BY <1>1, <1>2, <1>3 DEF Room
<1>5. /\ r \in Room /\ r.seated = st
      /\ r.status = room.status /\ r.worker = room.worker /\ r.version = room.version
      /\ r.hand = room.hand /\ r.game = room.game /\ r.managed = room.managed
      /\ r.memory = room.memory
  BY <1>2, <1>4 DEF Room
<1>6. u \notin room.game.in \/ u \in room.seated
  BY <1>2 DEF Noted
<1>7. r.seated \cap r.game.in \subseteq room.seated /\ r.game.in \cap Human \subseteq r.seated
  BY <1>2, <1>3, <1>5, <1>6 DEF Noted
<1> QED BY <1>2, <1>5, <1>7, BumpInv

LEMMA RemoveInv ==
  ASSUME Inv, NEW b \in Bot, RemoveAI(b)
  PROVE  Inv'
<1>1. PICK st, k : st = room.seated \ {b} /\ k = Restrict(room.memory, DOMAIN room.memory \ {b})
  OBVIOUS
<1>2. room \in Room /\ room.memory \in Memories /\ Exists /\ Noted /\ b \notin Human
  BY PipelineAssumption DEF RemoveAI, Bump, Aside, Inv, TypeOK, Room, Memories
<1>3. PICK mem : mem = room.memory
  OBVIOUS
<1>4. /\ DOMAIN k = DOMAIN mem \ {b} /\ k = [p \in DOMAIN k |-> k[p]]
      /\ \A p \in DOMAIN k : k[p] = mem[p]
  BY <1>1, <1>3 DEF Restrict
<1>5. k \in Memories
  BY <1>2, <1>3, <1>4, MemoriesFacts
<1>6. PICK r : r = [room EXCEPT !.seated = st, !.memory = k]
  OBVIOUS
<1>7. Bump(r)
  BY <1>1, <1>2, <1>6 DEF RemoveAI, Room
<1>8. st \in SUBSET Player
  BY <1>1, <1>2 DEF Room
<1>9. /\ r \in Room /\ r.seated = st
      /\ r.status = room.status /\ r.worker = room.worker /\ r.version = room.version
      /\ r.hand = room.hand /\ r.game = room.game /\ r.managed = room.managed
      /\ r.memory = k
  BY <1>2, <1>5, <1>6, <1>8 DEF Room, Memories
<1>10. r.seated \cap r.game.in \subseteq room.seated /\ r.game.in \cap Human \subseteq r.seated
  BY <1>1, <1>2, <1>9 DEF Noted
<1>11. /\ \A p \in DOMAIN r.memory : p \in DOMAIN room.memory /\ r.memory[p] = room.memory[p]
       /\ \A p \in r.seated \cap DOMAIN room.memory : p \in DOMAIN r.memory
  BY <1>1, <1>3, <1>4, <1>9
<1> QED BY <1>7, <1>9, <1>10, <1>11, BumpInv


-----------------------------------------------------------------------------
(* The queue. *)

LEMMA HeldFacts ==
  ASSUME NEW l \in Idle \cup Deciding \cup Reviewing, NEW x,
         x = IF l.phase \in {"ready", "sending"} THEN <<>> ELSE <<l.task>>
  PROVE  /\ l \in Idle \cup Deciding => Waiting(x) = {}
         /\ l \in Reviewing => Waiting(x) = {l.task}
<1>1. CASE l.phase \in {"ready", "sending"}
  <2>1. l \notin Reviewing
    BY <1>1 DEF Reviewing
  <2> QED BY <1>1, <2>1, NoTasks
<1>2. CASE l.phase \notin {"ready", "sending"}
  <2>1. Tasks(x) = {l.task}
    BY <1>2 DEF Tasks
  <2>2. l \notin Idle
    BY <1>2 DEF Idle
  <2>3. l \in Deciding => l.task.kind = "decide"
    BY DEF Deciding, DecisionTasks
  <2>4. l \in Reviewing => l.task.kind = "summarize"
    BY DEF Reviewing, Summaries
  <2> QED BY <2>1, <2>2, <2>3, <2>4 DEF Waiting
<1> QED BY <1>1, <1>2

LEMMA HeldNow ==
  ASSUME TypeOK
  PROVE  /\ loop \in Idle \cup Deciding => Waiting(Held) = {}
         /\ loop \in Reviewing => Waiting(Held) = {loop.task}
<1>1. loop \in Idle \cup Deciding \cup Reviewing
  BY DEF TypeOK
<1> QED BY <1>1, HeldFacts DEF Held

\* Tasks that only move from one place to another find the same room.
LEMMA StillNoted ==
  ASSUME Inv, room' = room, played' = played, turns' = turns,
         Waiting(queue') \cup Waiting(outbox') \cup Waiting(Held')
           \subseteq Waiting(queue) \cup Waiting(outbox) \cup Waiting(Held)
  PROVE  Unwritten' /\ Noted' /\ Unseen'
<1>1. \A h : Past(h) => Past(h)'
  BY DEF Past
<1>2. Unwritten'
  BY <1>1 DEF Inv, Unwritten, Waiting, Tasks, Held
<1>3. Noted' /\ Unseen'
  BY DEF Inv, Noted, Unseen, UnseenIn, Exists
<1> QED BY <1>2, <1>3

LEMMA SendInv ==
  ASSUME Inv, Send
  PROVE  Inv'
<1>1. /\ queue \in Seq(Task) /\ outbox \in Seq(Task) /\ outbox # <<>>
      /\ room' = room /\ gaveUp' = gaveUp /\ played' = played /\ turns' = turns
      /\ loop \in Idle \cup Deciding \cup Reviewing
      /\ queue' = Append(queue, Head(outbox)) /\ outbox' = Tail(outbox)
      /\ OneDecision /\ TurnAttended /\ Fresh /\ OnTheirWayOnce
  BY DEF Inv, TypeOK, Send, Unlocked, past
<1>2. PICK t : t = Head(outbox)
  OBVIOUS
<1>3. /\ t \in Task /\ outbox' \in Seq(Task)
      /\ Cardinality(Decisions(outbox)) = Cardinality(Decisions(outbox')) + One(t)
      /\ Tasks(outbox) = Tasks(outbox') \cup {t}
      /\ Waiting(outbox) = Waiting(outbox') \cup (IF t.kind = "summarize" THEN {t} ELSE {})
      /\ Once(outbox') /\ t \notin Waiting(outbox')
  BY <1>1, <1>2, CountTail, TailTask DEF OnTheirWayOnce
<1>4. /\ queue' \in Seq(Task)
      /\ Cardinality(Decisions(queue')) = Cardinality(Decisions(queue)) + One(t)
      /\ Tasks(queue') = Tasks(queue) \cup {t}
      /\ Waiting(queue') = Waiting(queue) \cup (IF t.kind = "summarize" THEN {t} ELSE {})
  BY <1>1, <1>2, <1>3, CountAppend, AppendTask
<1>5. t \notin Waiting(queue)
  BY <1>3, <1>1 DEF OnTheirWayOnce, Waiting
<1>6. Once(queue')
  BY <1>1, <1>2, <1>3, <1>5, AppendTask DEF OnTheirWayOnce
<1>7. \/ loop' = loop
      \/ loop \in Idle /\ loop' \in Idle
  <2>1. At("sending") => loop \in Idle
    BY <1>1, LoopFacts DEF At
  <2> QED BY <2>1 DEF Send, Ready, Idle
<1>8. Held' = Held
  <2>1. CASE loop' = loop
    BY <2>1 DEF Held
  <2>2. CASE loop \in Idle /\ loop' \in Idle
    BY <2>2 DEF Held, Idle
  <2> QED BY <1>7, <2>1, <2>2
<1>9. \A x \in {"deciding", "applying", "failed"} : (loop'.phase = x) <=> (loop.phase = x)
  BY <1>7 DEF Idle
<1>10. loop' \in Idle \cup Deciding \cup Reviewing /\ (At("failed") => loop.task.retries > 0)'
  BY <1>1, <1>7 DEF Inv, TypeOK, At, Idle
<1>11. TypeOK'
  BY <1>1, <1>3, <1>4, <1>10 DEF Inv, TypeOK
<1>12. OneDecision'
  <2>1. /\ Cardinality(Decisions(queue)) \in Nat /\ Cardinality(Decisions(outbox')) \in Nat
        /\ One(t) \in Nat
    BY <1>1, <1>3, CountFinite DEF One
  <2>2. /\ Pending  = Cardinality(Decisions(queue)) + Cardinality(Decisions(outbox))
                      + (IF At("deciding") THEN 1 ELSE 0)
        /\ Pending' = Cardinality(Decisions(queue')) + Cardinality(Decisions(outbox'))
                      + (IF At("deciding")' THEN 1 ELSE 0)
    BY DEF Pending, Decisions
  <2>3. At("deciding")' <=> At("deciding")
    BY <1>9 DEF At
  <2>4. Pending' = Pending
    BY <1>3, <1>4, <2>1, <2>2, <2>3
  <2> QED BY <1>1, <2>4 DEF OneDecision, Exists
<1>13. TurnAttended'
  BY <1>1, <1>9 DEF TurnAttended, AITurn, Automatic, At
<1>14. Fresh'
  <2>1. \A u : Current(u) => Current(u)'
    BY <1>1 DEF Current, Exists, Automatic
  <2>2. \A u \in Tasks(queue') \cup Tasks(outbox') : u.kind = "decide" => Current(u)'
    BY <1>1, <1>3, <1>4, <2>1 DEF Fresh
  <2>3. (At("deciding") \/ At("applying") => Current(loop.task))'
    BY <1>1, <1>7, <2>1 DEF Fresh, At, Idle
  <2> QED BY <2>2, <2>3 DEF Fresh, Tasks
<1>15. OnTheirWayOnce'
  <2>1. /\ Waiting(queue') \cap Waiting(outbox') = {}
        /\ Waiting(queue') \cap Waiting(Held') = {}
        /\ Waiting(outbox') \cap Waiting(Held') = {}
    BY <1>1, <1>3, <1>4, <1>5, <1>8 DEF OnTheirWayOnce
  <2> QED BY <1>3, <1>6, <2>1 DEF OnTheirWayOnce, Once, Waiting, Tasks, Held
<1>16. Unwritten' /\ Noted' /\ Unseen'
  BY <1>1, <1>3, <1>4, <1>8, StillNoted
<1> QED BY <1>11, <1>12, <1>13, <1>14, <1>15, <1>16 DEF Inv

LEMMA TakeInv ==
  ASSUME Inv, Take
  PROVE  Inv'
<1>1. /\ queue \in Seq(Task) /\ queue # <<>> /\ outbox \in Seq(Task)
      /\ room' = room /\ gaveUp' = gaveUp /\ played' = played /\ turns' = turns
      /\ outbox' = outbox /\ queue' = Tail(queue)
      /\ loop \in Idle \cup Deciding \cup Reviewing /\ loop.phase = "ready"
      /\ OneDecision /\ TurnAttended /\ Fresh /\ OnTheirWayOnce /\ TypeOK
  BY DEF Inv, TypeOK, Take, At, past
<1>2. PICK t : t = Head(queue)
  OBVIOUS
<1>3. /\ t \in Task /\ queue' \in Seq(Task)
      /\ Cardinality(Decisions(queue)) = Cardinality(Decisions(queue')) + One(t)
      /\ Tasks(queue) = Tasks(queue') \cup {t}
      /\ Waiting(queue) = Waiting(queue') \cup (IF t.kind = "summarize" THEN {t} ELSE {})
      /\ Once(queue') /\ t \notin Waiting(queue')
  BY <1>1, <1>2, CountTail, TailTask DEF OnTheirWayOnce
<1>4. loop' = [phase |-> IF t.kind = "decide" THEN "deciding" ELSE "checking", task |-> t]
  BY <1>2 DEF Take
<1>5. \/ t \in DecisionTasks /\ t.kind = "decide" /\ loop' \in Deciding /\ loop'.phase = "deciding"
      \/ t \in Summaries /\ t.kind = "summarize" /\ loop' \in Reviewing /\ loop'.phase = "checking"
  BY <1>3, <1>4 DEF Task, DecisionTasks, Summaries, Deciding, Reviewing
<1>6. loop'.task = t /\ loop \in Idle
  BY <1>1, <1>4, LoopFacts
<1>7. TypeOK'
  BY <1>1, <1>3, <1>5 DEF TypeOK, At
<1>8. Waiting(Held) = {} /\ Waiting(Held') = IF t.kind = "summarize" THEN {t} ELSE {}
  <2>1. Waiting(Held) = {}
    BY <1>1, <1>6, HeldNow
  <2>2. Held' = IF loop'.phase \in {"ready", "sending"} THEN <<>> ELSE <<loop'.task>>
    BY DEF Held
  <2>3. PICK l, x : l = loop' /\ x = Held'
    OBVIOUS
  <2>4. /\ l \in Idle \cup Deciding => Waiting(x) = {}
        /\ l \in Reviewing => Waiting(x) = {l.task}
    BY <1>5, <2>2, <2>3, HeldFacts
  <2> QED BY <1>5, <1>6, <2>1, <2>3, <2>4
<1>9. OneDecision'
  <2>1. /\ Cardinality(Decisions(queue')) \in Nat /\ Cardinality(Decisions(outbox)) \in Nat
    BY <1>1, <1>3, CountFinite
  <2>2. /\ Pending  = Cardinality(Decisions(queue)) + Cardinality(Decisions(outbox))
                      + (IF At("deciding") THEN 1 ELSE 0)
        /\ Pending' = Cardinality(Decisions(queue')) + Cardinality(Decisions(outbox'))
                      + (IF At("deciding")' THEN 1 ELSE 0)
    BY DEF Pending, Decisions
  <2>3. ~At("deciding") /\ (At("deciding")' <=> t.kind = "decide")
    BY <1>1, <1>5 DEF At
  <2>4. Pending' = Pending
    BY <1>1, <1>3, <2>1, <2>2, <2>3 DEF One
  <2> QED BY <1>1, <2>4 DEF OneDecision, Exists
<1>10. TurnAttended'
  BY <1>1 DEF TurnAttended, AITurn, Automatic, At
<1>11. Fresh'
  <2>1. \A u : Current(u) => Current(u)'
    BY <1>1 DEF Current, Exists, Automatic
  <2>2. \A u \in Tasks(queue') \cup Tasks(outbox') : u.kind = "decide" => Current(u)'
    BY <1>1, <1>3, <2>1 DEF Fresh
  <2>3. t.kind = "decide" => Current(t)'
    BY <1>1, <1>3, <2>1 DEF Fresh
  <2>4. (At("deciding") \/ At("applying") => Current(loop.task))'
    BY <1>5, <1>6, <2>3 DEF At
  <2> QED BY <2>2, <2>4 DEF Fresh, Tasks
<1>12. OnTheirWayOnce'
  <2>1. /\ Waiting(queue') \cap Waiting(outbox') = {}
        /\ Waiting(queue') \cap Waiting(Held') = {}
        /\ Waiting(outbox') \cap Waiting(Held') = {}
    BY <1>1, <1>3, <1>8 DEF OnTheirWayOnce
  <2>2. Once(outbox)
    BY <1>1 DEF OnTheirWayOnce
  <2> QED BY <1>1, <1>3, <2>1, <2>2 DEF OnTheirWayOnce, Once, Waiting, Tasks, Held
<1>13. Unwritten' /\ Noted' /\ Unseen'
  BY <1>1, <1>3, <1>8, StillNoted
<1> QED BY <1>7, <1>9, <1>10, <1>11, <1>12, <1>13 DEF Inv


-----------------------------------------------------------------------------
(* The event loop. *)

\* The loop only moves on: it lets go of a decision after its refusal, of a
\* summary, or goes on to the next thing to do for its task.
LEMMA MoveInv ==
  ASSUME Inv, room' = room, queue' = queue, outbox' = outbox, played' = played, turns' = turns,
         ~At("deciding"), ~At("deciding")', ~At("applying")',
         loop' \in Idle \cup Deciding \cup Reviewing, (At("failed") => loop.task.retries > 0)',
         Waiting(Held') \subseteq Waiting(Held), TurnAttended'
  PROVE  Inv'
<1>1. TypeOK /\ OneDecision /\ Fresh /\ OnTheirWayOnce
  BY DEF Inv
<1>2. TypeOK'
  BY <1>1 DEF TypeOK
<1>3. OneDecision'
  <2>1. Pending' = Pending
    BY DEF Pending
  <2> QED BY <1>1, <2>1 DEF OneDecision, Exists
<1>4. Fresh'
  BY <1>1 DEF Fresh, Current, Exists, Automatic, Tasks
<1>5. OnTheirWayOnce'
  <2>1. /\ Waiting(queue) \cap Waiting(outbox) = {}
        /\ Waiting(queue) \cap Waiting(Held') = {}
        /\ Waiting(outbox) \cap Waiting(Held') = {}
        /\ Once(queue) /\ Once(outbox)
    BY <1>1 DEF OnTheirWayOnce
  <2> QED BY <2>1 DEF OnTheirWayOnce, Once, Waiting, Tasks, Held
<1>6. Unwritten' /\ Noted' /\ Unseen'
  BY StillNoted
<1> QED BY <1>2, <1>3, <1>4, <1>5, <1>6 DEF Inv

LEMMA ClearInv ==
  ASSUME Inv, ClearWorker
  PROVE  Inv'
<1>1. /\ Unlocked /\ room \in Room /\ loop \in Idle \cup Deciding \cup Reviewing /\ loop.phase = "deciding"
      /\ queue' = queue /\ outbox' = outbox /\ played' = played /\ turns' = turns
      /\ TypeOK /\ OneDecision /\ Fresh /\ OnTheirWayOnce
      /\ room' = [room EXCEPT !.worker = FALSE] /\ loop' = [loop EXCEPT !.phase = "applying"]
  BY DEF ClearWorker, Inv, TypeOK, At, past
<1>2. /\ room' \in Room /\ ~room'.worker /\ room'.status = room.status /\ room'.seated = room.seated
      /\ room'.version = room.version /\ room'.hand = room.hand /\ room'.game = room.game
      /\ room'.managed = room.managed /\ room'.memory = room.memory
  BY <1>1 DEF Room
<1>3. loop \in Deciding
  BY <1>1, LoopFacts
<1>4. loop' \in Deciding /\ loop'.phase = "applying" /\ loop'.task = loop.task
  BY <1>1, <1>3 DEF Deciding
<1>5. Held' = Held
  BY <1>1, <1>4 DEF Held
<1>6. TypeOK'
  BY <1>1, <1>2, <1>4 DEF TypeOK, At
<1>7. OneDecision'
  <2>1. Cardinality(Decisions(queue)) \in Nat /\ Cardinality(Decisions(outbox)) \in Nat
    BY <1>1, CountFinite DEF TypeOK
  <2>2. /\ Pending  = (Cardinality(Decisions(queue)) + Cardinality(Decisions(outbox))) + 1
        /\ Pending' = (Cardinality(Decisions(queue)) + Cardinality(Decisions(outbox))) + 0
    BY <1>1, <1>4, <2>1 DEF Pending, Decisions, At
  <2>3. Exists => Pending \in {0, 1}
    BY <1>1 DEF OneDecision
  <2>4. Exists => Pending' = 0
    BY <2>1, <2>2, <2>3
  <2> QED BY <1>2, <2>4 DEF OneDecision, Exists
<1>8. TurnAttended'
  BY <1>4 DEF TurnAttended, At
<1>9. Fresh'
  <2>1. \A u : Current(u) => Current(u)'
    BY <1>2 DEF Current, Exists, Automatic
  <2> QED BY <1>1, <1>4, <2>1 DEF Fresh, At, Tasks
<1>10. OnTheirWayOnce'
  BY <1>1, <1>5 DEF OnTheirWayOnce, Once, Waiting, Tasks, Held
<1>11. Unwritten'
  <2>1. \A h : Past(h) => Past(h)'
    BY <1>2 DEF Past
  <2> QED BY <1>1, <1>2, <1>5, <2>1 DEF Inv, Unwritten, Waiting, Tasks, Held
<1>12. Noted' /\ Unseen'
  BY <1>1, <1>2 DEF Inv, Noted, Unseen, UnseenIn, Exists
<1> QED BY <1>6, <1>7, <1>8, <1>9, <1>10, <1>11, <1>12 DEF Inv

LEMMA ApplyDecisionInv ==
  ASSUME Inv, ApplyDecision
  PROVE  Inv'
<1>1. PICK u : u = loop.task.player
  OBVIOUS
<1>2. /\ Unlocked /\ room.status = "playing" /\ CanAct(room, u) /\ AfterAction(u)
      /\ queue' = queue /\ At("applying")
  BY <1>1 DEF ApplyDecision, Accepted
<1>3. loop' \in Idle
  BY DEF ApplyDecision, Back, Ready, Idle
<1> QED BY <1>2, <1>3, ActionInv

LEMMA RefusedInv ==
  ASSUME Inv, DecisionRefused
  PROVE  Inv'
<1>1. /\ room' = room /\ queue' = queue /\ outbox' = outbox /\ played' = played /\ turns' = turns
      /\ loop \in Idle \cup Deciding \cup Reviewing /\ loop.phase = "applying" /\ room \in Room
  BY DEF DecisionRefused, At, Inv, TypeOK
<1>2. loop \in Deciding
  BY <1>1, LoopFacts
<1>3. CASE loop.task.retries > 0
  <2>1. loop' = [loop EXCEPT !.phase = "failed"]
    BY <1>3 DEF DecisionRefused
  <2>2. loop' \in Deciding /\ loop'.phase = "failed" /\ loop'.task = loop.task
    BY <1>2, <2>1 DEF Deciding
  <2>3. Held' = Held
    BY <1>1, <2>2 DEF Held
  <2>4. TurnAttended'
    BY <2>2 DEF TurnAttended, At
  <2>5. /\ ~At("deciding") /\ ~At("deciding")' /\ ~At("applying")'
        /\ (At("failed") => loop.task.retries > 0)'
    BY <1>1, <1>3, <2>2 DEF At
  <2> QED BY <1>1, <2>2, <2>3, <2>4, <2>5, MoveInv
<1>4. CASE ~(loop.task.retries > 0)
  <2>1. loop' = [phase |-> "ready"] /\ gaveUp' = ~room.worker
    BY <1>4 DEF DecisionRefused, Ready
  <2>2. loop' \in Idle /\ loop'.phase = "ready" /\ Held' = <<>>
    BY <2>1 DEF Idle, Held
  <2>3. TurnAttended'
    BY <1>1, <2>1 DEF TurnAttended, Room
  <2>4. /\ ~At("deciding") /\ ~At("deciding")' /\ ~At("applying")'
        /\ (At("failed") => loop.task.retries > 0)'
    BY <1>1, <2>2 DEF At
  <2>5. Waiting(Held') \subseteq Waiting(Held)
    BY <2>2, NoTasks
  <2> QED BY <1>1, <2>2, <2>3, <2>4, <2>5, MoveInv
<1> QED BY <1>3, <1>4

LEMMA CheckInv ==
  ASSUME Inv, CheckWorker
  PROVE  Inv'
<1>1. /\ room' = room /\ queue' = queue /\ outbox' = outbox /\ played' = played /\ turns' = turns
      /\ gaveUp' = gaveUp
      /\ loop \in Idle \cup Deciding \cup Reviewing /\ loop.phase = "checking"
      /\ loop' = [loop EXCEPT !.phase = IF room.worker THEN "putting back" ELSE "summarizing"]
  BY DEF CheckWorker, At, Inv, TypeOK, past
<1>2. loop \in Reviewing
  BY <1>1, LoopFacts
<1>3. loop' \in Reviewing /\ loop'.phase \in {"putting back", "summarizing"} /\ loop'.task = loop.task
  BY <1>1, <1>2 DEF Reviewing
<1>4. Held' = Held
  <2>1. loop.phase \notin {"ready", "sending"} /\ loop'.phase \notin {"ready", "sending"}
    BY <1>1, <1>3
  <2> QED BY <1>3, <2>1 DEF Held
<1>5. TurnAttended'
  BY <1>1 DEF Inv, TurnAttended, AITurn, Automatic, At
<1>6. /\ ~At("deciding") /\ ~At("deciding")' /\ ~At("applying")'
      /\ (At("failed") => loop.task.retries > 0)'
  BY <1>1, <1>3 DEF At
<1> QED BY <1>1, <1>3, <1>4, <1>5, <1>6, MoveInv

LEMMA FailedInv ==
  ASSUME Inv, SummaryFailed
  PROVE  Inv'
<1>1. /\ room' = room /\ queue' = queue /\ outbox' = outbox /\ played' = played /\ turns' = turns
      /\ gaveUp' = gaveUp /\ loop.phase = "summarizing" /\ loop' = [phase |-> "ready"]
  BY DEF SummaryFailed, At, Ready, past
<1>2. loop' \in Idle /\ loop'.phase = "ready" /\ Held' = <<>>
  BY <1>1 DEF Idle, Held
<1>3. TurnAttended'
  BY <1>1 DEF Inv, TurnAttended, AITurn, Automatic, At
<1>4. /\ ~At("deciding") /\ ~At("deciding")' /\ ~At("applying")'
      /\ (At("failed") => loop.task.retries > 0)'
  BY <1>1, <1>2 DEF At
<1>5. Waiting(Held') \subseteq Waiting(Held)
  BY <1>2, NoTasks
<1> QED BY <1>1, <1>2, <1>3, <1>4, <1>5, MoveInv

LEMMA PutBackInv ==
  ASSUME Inv, PutBack
  PROVE  Inv'
<1>1. /\ queue \in Seq(Task) /\ outbox \in Seq(Task)
      /\ room' = room /\ gaveUp' = gaveUp /\ played' = played /\ turns' = turns
      /\ outbox' = outbox /\ queue' = Append(queue, loop.task)
      /\ loop \in Idle \cup Deciding \cup Reviewing /\ loop.phase = "putting back"
      /\ loop' = [phase |-> "ready"]
      /\ OneDecision /\ TurnAttended /\ Fresh /\ OnTheirWayOnce /\ TypeOK
  BY DEF Inv, TypeOK, PutBack, Ready, At, past
<1>2. PICK t : t = loop.task
  OBVIOUS
<1>3. loop \in Reviewing /\ t \in Task /\ t.kind = "summarize" /\ Waiting(Held) = {t}
  <2>1. loop \in Reviewing
    BY <1>1, LoopFacts
  <2> QED BY <1>1, <1>2, <2>1, HeldNow DEF Reviewing, Task, Summaries
<1>4. /\ queue' \in Seq(Task)
      /\ Cardinality(Decisions(queue')) = Cardinality(Decisions(queue)) + One(t)
      /\ Tasks(queue') = Tasks(queue) \cup {t}
      /\ Waiting(queue') = Waiting(queue) \cup (IF t.kind = "summarize" THEN {t} ELSE {})
  BY <1>1, <1>2, <1>3, CountAppend, AppendTask
<1>5. t \notin Waiting(queue) /\ t \notin Waiting(outbox)
  BY <1>1, <1>3 DEF OnTheirWayOnce
<1>6. Once(queue')
  BY <1>1, <1>2, <1>3, <1>5, AppendTask DEF OnTheirWayOnce
<1>7. loop' \in Idle /\ loop'.phase = "ready" /\ Held' = <<>>
  BY <1>1 DEF Idle, Held
<1>8. TypeOK'
  BY <1>1, <1>4, <1>7 DEF TypeOK, At
<1>9. OneDecision'
  <2>1. Cardinality(Decisions(queue)) \in Nat /\ One(t) = 0
    BY <1>1, <1>3, CountFinite DEF One
  <2>2. Cardinality(Decisions(queue')) = Cardinality(Decisions(queue))
    BY <1>4, <2>1
  <2>3. ~At("deciding") /\ ~At("deciding")'
    BY <1>1, <1>7 DEF At
  <2>4. Pending' = Pending
    BY <1>1, <2>2, <2>3 DEF Pending, Decisions
  <2> QED BY <1>1, <2>4 DEF OneDecision, Exists
<1>10. TurnAttended'
  BY <1>1 DEF TurnAttended, AITurn, Automatic, At
<1>11. Fresh'
  <2>1. \A u : Current(u) => Current(u)'
    BY <1>1 DEF Current, Exists, Automatic
  <2>2. \A u \in Tasks(queue') \cup Tasks(outbox) : u.kind = "decide" => Current(u)'
    BY <1>1, <1>3, <1>4, <2>1 DEF Fresh
  <2> QED BY <1>1, <1>7, <2>2 DEF Fresh, At, Tasks
<1>12. OnTheirWayOnce'
  <2>1. /\ Waiting(queue') \cap Waiting(outbox') = {}
        /\ Waiting(queue') \cap Waiting(Held') = {}
        /\ Waiting(outbox') \cap Waiting(Held') = {}
    BY <1>1, <1>3, <1>4, <1>5, <1>7, NoTasks DEF OnTheirWayOnce
  <2>2. Once(outbox)
    BY <1>1 DEF OnTheirWayOnce
  <2> QED BY <1>1, <1>6, <2>1, <2>2 DEF OnTheirWayOnce, Once, Waiting, Tasks, Held
<1>13. Unwritten' /\ Noted' /\ Unseen'
  BY <1>1, <1>3, <1>4, <1>7, NoTasks, StillNoted
<1> QED BY <1>8, <1>9, <1>10, <1>11, <1>12, <1>13 DEF Inv


LEMMA RetryInv ==
  ASSUME Inv, RetryDecision
  PROVE  Inv'
<1>1. /\ queue \in Seq(Task) /\ outbox = <<>> /\ room \in Room /\ played \in SUBSET Player
      /\ turns' = turns /\ queue' = queue
      /\ loop \in Idle \cup Deciding \cup Reviewing /\ loop.phase = "failed" /\ loop.task.retries > 0
      /\ OneDecision /\ TurnAttended /\ Fresh /\ OnTheirWayOnce /\ TypeOK
      /\ room' = EnqueueDecision(room) /\ outbox' = DecisionTask(room, loop.task.retries - 1)
      /\ played' = Asked(room)
  BY DEF Inv, TypeOK, RetryDecision, Unlocked, At
<1>2. PICK n : n = loop.task.retries - 1
  OBVIOUS
<1>3. n \in Nat
  <2>1. loop.task \in DecisionTasks
    BY <1>1, LoopFacts
  <2>2. loop.task.retries \in Nat
    BY <2>1 DEF DecisionTasks
  <2> QED BY <1>1, <1>2, <2>2
<1>4. /\ room' \in Room
      /\ room'.status = room.status /\ room'.seated = room.seated /\ room'.managed = room.managed
      /\ room'.game = room.game /\ room'.version = room.version /\ room'.hand = room.hand
      /\ room'.worker = IF Due(room) THEN room.game.turn \in room.game.able ELSE room.worker
      /\ DOMAIN room.memory \subseteq DOMAIN room'.memory /\ Kept(room.memory, room'.memory)
      /\ \A p \in DOMAIN room.memory : room'.memory[p].decided \in {room.memory[p].decided, room.hand}
      /\ Due(room) => /\ room.game.turn \in DOMAIN room'.memory
                      /\ room'.memory[room.game.turn].decided = room.hand
  BY <1>1, AskFacts
<1>5. \/ outbox' = <<>> /\ room'.worker = room.worker
      \/ \E t \in DecisionTasks :
           /\ outbox' = <<t>> /\ ~room.worker /\ room'.worker
           /\ t.version = room.version /\ t.seen = room.game /\ t.player \in Automatic(room)
  BY <1>1, <1>2, <1>3, TaskFacts
<1>6. \A p \in played' : p \in played \/ (Due(room) /\ room.game.stage = "play" /\ p = room.game.turn)
  BY <1>1 DEF Asked
<1>7. loop' \in Idle /\ loop'.phase \in {"ready", "sending"} /\ Held' = <<>>
  BY DEF RetryDecision, Back, Ready, Idle, Held
<1>8. /\ outbox' \in Seq(Task) /\ Waiting(outbox') = {} /\ Once(outbox')
      /\ Cardinality(Decisions(outbox')) = IF outbox' = <<>> THEN 0 ELSE 1
  <2>1. <<>> \in Seq(Summaries)
    BY EmptySeq
  <2>2. <<>> \in Seq(Task) /\ Cardinality(Decisions(<<>>)) = 0
    BY <2>1, CountNone
  <2>3. CASE outbox' = <<>>
    BY <2>2, <2>3, NoTasks
  <2>4. ASSUME NEW t \in DecisionTasks, outbox' = <<t>>
        PROVE  /\ outbox' \in Seq(Task) /\ Waiting(outbox') = {} /\ Once(outbox')
               /\ Cardinality(Decisions(outbox')) = IF outbox' = <<>> THEN 0 ELSE 1
    <3>1. t \in Task /\ t.kind = "decide"
      BY DEF Task, DecisionTasks
    <3>2. PICK e, o : e = <<>> /\ o = outbox'
      OBVIOUS
    <3>3. o = Append(e, t) /\ o # <<>> /\ e \in Seq(Task) /\ Cardinality(Decisions(e)) = 0
      BY <2>2, <2>4, <3>2
    <3>4. Cardinality(Decisions(o)) = Cardinality(Decisions(e)) + One(t) /\ o \in Seq(Task)
      BY <3>1, <3>3, CountAppend
    <3>5. One(t) = 1 /\ Waiting(e) = {} /\ Once(e)
      BY <3>1, <3>2, NoTasks DEF One
    <3>6. Waiting(o) = {} /\ Once(o)
      BY <3>1, <3>3, <3>5, AppendTask
    <3> QED BY <3>2, <3>3, <3>4, <3>5, <3>6
  <2> QED BY <1>5, <2>3, <2>4
<1>9. TypeOK'
  <2>1. Due(room) => room.game.turn \in Player
    BY <1>1 DEF Due, Room, Game, NoGame, Hand
  <2>2. played' \in SUBSET Player
    BY <1>1, <1>6, <2>1
  <2>3. (At("failed") => loop.task.retries > 0)'
    BY <1>7 DEF At
  <2> QED BY <1>1, <1>4, <1>7, <1>8, <2>2, <2>3 DEF TypeOK
<1>10. OneDecision'
  <2>1. Cardinality(Decisions(queue)) \in Nat /\ Cardinality(Decisions(outbox)) = 0
    <3>1. outbox \in Seq(Summaries)
      BY <1>1, EmptySeq
    <3> QED BY <1>1, <3>1, CountFinite, CountNone
  <2>2. /\ Pending  = Cardinality(Decisions(queue)) + Cardinality(Decisions(outbox))
                      + (IF At("deciding") THEN 1 ELSE 0)
        /\ Pending' = Cardinality(Decisions(queue')) + Cardinality(Decisions(outbox'))
                      + (IF At("deciding")' THEN 1 ELSE 0)
    BY DEF Pending, Decisions
  <2>3. ~At("deciding") /\ ~At("deciding")'
    BY <1>1, <1>7 DEF At
  <2>4. Pending' = Pending + (IF outbox' = <<>> THEN 0 ELSE 1)
    BY <1>1, <1>8, <2>1, <2>2, <2>3
  <2>5. Exists' => Pending = (IF room.worker THEN 1 ELSE 0)
    BY <1>1, <1>4 DEF OneDecision, Exists
  <2>6. CASE outbox' = <<>>
    <3>1. room'.worker = room.worker /\ Pending' = Pending
      BY <1>5, <2>1, <2>2, <2>3, <2>4, <2>6, <1>1
    <3> QED BY <2>5, <3>1 DEF OneDecision
  <2>7. CASE outbox' # <<>>
    BY <1>5, <2>4, <2>5, <2>7 DEF OneDecision
  <2> QED BY <2>6, <2>7
<1>11. TurnAttended'
  <2>1. SUFFICES ASSUME AITurn' PROVE room'.worker
    BY DEF TurnAttended
  <2>2. /\ room.status = "playing" /\ room.game.stage = "play"
        /\ room.game.turn \in Automatic(room) /\ room.game.turn \in room.game.able
    BY <1>4, <2>1 DEF AITurn, Automatic
  <2>3. room.game.in # {}
    BY <1>1, <2>2 DEF Room, Game, NoGame
  <2>4. CASE Due(room)
    BY <1>4, <2>2, <2>4
  <2>5. CASE ~Due(room)
    <3>1. room.worker
      BY <2>2, <2>3, <2>5 DEF Due
    <3> QED BY <1>4, <2>5, <3>1
  <2> QED BY <2>4, <2>5
<1>12. Fresh'
  <2>1. \A u : Current(u) => Current(u)'
    BY <1>4 DEF Current, Exists, Automatic
  <2>2. \A u \in Tasks(queue) : u.kind = "decide" => Current(u)'
    BY <1>1, <2>1 DEF Fresh
  <2>3. \A u \in Tasks(outbox') : Current(u)'
    <3>1. ASSUME NEW t \in DecisionTasks, outbox' = <<t>>,
                 t.version = room.version, t.seen = room.game, t.player \in Automatic(room)
          PROVE  \A u \in Tasks(outbox') : Current(u)'
      <4>1. Tasks(outbox') = {t} /\ room.version \in Nat
        BY <1>1, <3>1 DEF Tasks, Room
      <4>2. Current(t)'
        BY <1>4, <3>1, <4>1 DEF Current, Automatic
      <4> QED BY <4>1, <4>2
    <3> QED BY <1>5, <3>1, NoTasks
  <2>4. ~At("deciding")' /\ ~At("applying")'
    BY <1>7 DEF At
  <2> QED BY <1>1, <2>2, <2>3, <2>4 DEF Fresh, Tasks
<1>13. OnTheirWayOnce'
  <2>1. /\ Waiting(queue') \cap Waiting(outbox') = {}
        /\ Waiting(queue') \cap Waiting(Held') = {}
        /\ Waiting(outbox') \cap Waiting(Held') = {}
    BY <1>7, <1>8, NoTasks
  <2>2. Once(queue)
    BY <1>1 DEF OnTheirWayOnce
  <2> QED BY <1>1, <1>8, <2>1, <2>2 DEF OnTheirWayOnce, Once, Waiting, Tasks, Held
<1>14. Unwritten'
  <2>1. \A h : Past(h) => Past(h)'
    BY <1>4 DEF Past
  <2>2. ASSUME NEW p \in DOMAIN room'.memory
        PROVE  \/ room'.memory[p].log = <<>>
               \/ p \in DOMAIN room.memory /\ room'.memory[p].log = room.memory[p].log
    BY <1>4 DEF Kept
  <2>3. \A p \in DOMAIN room'.memory : \A h \in Tasks(room'.memory[p].log) : Past(h)'
    BY <2>1, <2>2, NoTasks DEF Inv, Unwritten
  <2>4. \A t \in Waiting(queue) : /\ Past(t.hand)'
                                  /\ t.player \in DOMAIN room'.memory =>
                                       t.hand \notin Tasks(room'.memory[t.player].log)
    BY <2>1, <2>2, NoTasks DEF Inv, Unwritten
  <2>5. \A t \in Waiting(queue') \cup Waiting(outbox') \cup Waiting(Held') :
          /\ Past(t.hand)'
          /\ t.player \in DOMAIN room'.memory => t.hand \notin Tasks(room'.memory[t.player].log)
    BY <1>1, <1>7, <1>8, <2>4, NoTasks
  <2> QED BY <2>3, <2>5 DEF Unwritten, Waiting, Tasks, Held
<1>15. Noted'
  <2>1. Noted
    BY DEF Inv
  <2>2. ASSUME Exists, room.game.stage = "play", NEW p \in played' \cap room.game.in \cap room.seated
        PROVE  p \in DOMAIN room'.memory /\ room'.memory[p].decided = room.hand
    BY <1>4, <1>6, <2>1, <2>2 DEF Noted
  <2>3. ASSUME Exists, room.game.stage = "over", turns > 0,
               NEW p \in (Bot \cup played') \cap room.game.in \cap room.seated
        PROVE  p \in DOMAIN room'.memory /\ room'.memory[p].observed = room.hand
    <3>1. p \in Bot \cup played
      BY <1>6, <2>3
    <3>2. p \in DOMAIN room.memory /\ room.memory[p].observed = room.hand
      BY <2>1, <2>3, <3>1 DEF Noted
    <3> QED BY <1>4, <3>2 DEF Kept
  <2>4. Exists' <=> Exists
    BY <1>4 DEF Exists
  <2> QED BY <1>1, <1>4, <2>1, <2>2, <2>3, <2>4 DEF Noted, Exists
<1>16. Unseen'
  <2>1. PICK k, m : k = room' /\ m = turns'
    OBVIOUS
  <2>2. Exists' => UnseenIn(room, m)
    BY <1>1, <1>4, <2>1 DEF Inv, Unseen, Exists
  <2>3. Exists' => UnseenIn(k, m)
    BY <1>1, <1>4, <2>1, <2>2, KeptUnseen
  <2> QED BY <2>1, <2>3 DEF Unseen, UnseenIn
<1> QED BY <1>9, <1>10, <1>11, <1>12, <1>13, <1>14, <1>15, <1>16 DEF Inv

LEMMA LastFacts ==
  ASSUME NEW s \in Seq(Nat), NEW n \in Nat \ {0}, NEW h \in Nat,
         NEW l, l = LastOf(Append(s, h), n)
  PROVE  l \in Seq(Nat) /\ Tasks(l) \subseteq Tasks(s) \cup {h}
<1>1. PICK a : a = Append(s, h)
  OBVIOUS
<1>2. /\ a \in Seq(Nat) /\ Len(a) \in Nat /\ DOMAIN a = 1 .. Len(a) /\ Len(a) = Len(s) + 1
      /\ Tasks(a) \subseteq Tasks(s) \cup {h}
  BY <1>1 DEF Tasks
<1>3. CASE Len(a) > n
  <2>1. PICK m : m = (Len(a) - n) + 1
    OBVIOUS
  <2>2. m \in 1 .. Len(a) + 1
    BY <1>2, <1>3, <2>1
  <2>3. l = SubSeq(a, m, Len(a))
    BY <1>1, <1>3, <2>1 DEF LastOf
  <2>4. /\ l \in Seq(Nat) /\ DOMAIN l = 1 .. (Len(a) - m) + 1
        /\ \A i \in 1 .. (Len(a) - m) + 1 : l[i] = a[(m + i) - 1]
    <3>1. PICK c : c = Len(a)
      OBVIOUS
    <3>2. c \in Int /\ m \in Int /\ m <= c + 1
      BY <1>2, <2>2, <3>1
    <3>3. \A i \in 1 .. c : a[i] \in Nat
      BY <1>2, <3>1
    <3>4. \A i \in m .. c : a[i] \in Nat
      BY <2>2, <3>1, <3>2, <3>3
    <3>5. /\ SubSeq(a, m, c) \in Seq(Nat)
          /\ Len(SubSeq(a, m, c)) = IF m <= c THEN (c - m) + 1 ELSE 0
          /\ \A i \in 1 .. (c - m) + 1 : SubSeq(a, m, c)[i] = a[(m + i) - 1]
      <4>1. /\ SubSeq(a, m, c) \in Seq(Nat)
            /\ Len(SubSeq(a, m, c)) = IF m <= c THEN c - m + 1 ELSE 0
            /\ \A i \in 1 .. c - m + 1 : SubSeq(a, m, c)[i] = a[m + i - 1]
        BY ONLY <3>2, <3>4, SubSeqProperties
      <4> QED BY <3>2, <4>1
    <3>6. l \in Seq(Nat) /\ Len(l) = IF m <= c THEN (c - m) + 1 ELSE 0
      BY <2>3, <3>1, <3>5
    <3>7. Len(l) = (c - m) + 1
      BY <3>2, <3>6
    <3> QED BY <2>3, <3>1, <3>5, <3>6, <3>7
  <2>5. \A i \in 1 .. (Len(a) - m) + 1 : (m + i) - 1 \in 1 .. Len(a)
    BY <1>2, <2>2
  <2>6. Tasks(l) \subseteq Tasks(a)
    BY <1>2, <2>4, <2>5 DEF Tasks
  <2> QED BY <1>2, <2>4, <2>6
<1>4. CASE ~(Len(a) > n)
  BY <1>1, <1>2, <1>4 DEF LastOf
<1> QED BY <1>3, <1>4

\* What is written for a summary.
LEMMA WrittenFacts ==
  ASSUME TypeOK, Exists, ApplySummary, loop \in Reviewing
  PROVE  \E m \in Memories :
           /\ room' = [room EXCEPT !.memory = m]
           /\ DOMAIN m = DOMAIN room.memory \cup {loop.task.player}
           /\ \A p \in DOMAIN room.memory :
                /\ m[p].decided = room.memory[p].decided /\ m[p].observed = room.memory[p].observed
                /\ p # loop.task.player => m[p] = room.memory[p]
           /\ loop.task.player \notin DOMAIN room.memory => m[loop.task.player].observed = 0
           /\ \A h \in Tasks(m[loop.task.player].log) :
                \/ h = loop.task.hand
                \/ /\ loop.task.player \in DOMAIN room.memory
                   /\ h \in Tasks(room.memory[loop.task.player].log)
<1>1. PICK t, p, h, old : t = loop.task /\ p = t.player /\ h = t.hand /\ old = room.memory
  OBVIOUS
<1>0. PICK mem : mem = Remember(old, p)
  OBVIOUS
<1>2. old \in Memories /\ room \in Room /\ t \in Summaries /\ p \in Player /\ h \in Nat
  BY <1>1 DEF TypeOK, Room, Memories, Reviewing, Summaries
<1>3. /\ mem \in Memories /\ DOMAIN mem = DOMAIN old \cup {p}
      /\ \A q \in DOMAIN old : mem[q] = old[q]
      /\ p \notin DOMAIN old => mem[p] = NoMemory
  <2>1. Holds(mem, old, p)
    BY ONLY <1>0, <1>2, RememberFacts
  <2> QED BY ONLY <2>1 DEF Holds
<1>4. mem = [q \in DOMAIN mem |-> mem[q]] /\ DOMAIN mem \in SUBSET Player /\ \A q \in DOMAIN mem : mem[q] \in Memory
  BY <1>3, MemoriesFacts
<1>5. \A x \in Tasks(mem[p].log) : p \in DOMAIN old /\ x \in Tasks(old[p].log)
  BY <1>3, NoTasks DEF NoMemory
<1>8. p \notin DOMAIN old => mem[p].observed = 0
  BY <1>3 DEF NoMemory
<1>6. CASE mem[p].summarized = h
  <2>1. room' = [room EXCEPT !.memory = mem]
    BY <1>0, <1>1, <1>6 DEF ApplySummary
  <2> QED BY <1>1, <1>3, <1>5, <1>8, <2>1
<1>7. CASE mem[p].summarized # h
  <2>1. PICK s : s = mem[p].log
    OBVIOUS
  <2>2. PICK l : l = LastOf(Append(s, h), MaxSummaries)
    OBVIOUS
  <2>3. mem[p] \in Memory /\ s \in Seq(Nat)
    BY <1>3, <1>4, <2>1 DEF Memory
  <2>4. l \in Seq(Nat) /\ Tasks(l) \subseteq Tasks(s) \cup {h}
    BY <1>2, <2>2, <2>3, LastFacts, PipelineAssumption
  <2>5. PICK x : x = [mem[p] EXCEPT !.summarized = h, !.log = l]
    OBVIOUS
  <2>6. x \in Memory /\ x.log = l /\ x.decided = mem[p].decided /\ x.observed = mem[p].observed
    BY <1>2, <2>3, <2>4, <2>5 DEF Memory
  <2>7. PICK m : m = [mem EXCEPT ![p] = x]
    OBVIOUS
  <2>8. /\ DOMAIN m = DOMAIN mem /\ m = [q \in DOMAIN m |-> m[q]]
        /\ m[p] = x /\ \A q \in DOMAIN mem : q # p => m[q] = mem[q]
    BY <1>3, <1>4, <2>7
  <2>9. m \in Memories
    BY <1>4, <2>6, <2>8, MemoriesFacts
  <2>10. room' = [room EXCEPT !.memory = [mem EXCEPT ![p].summarized = h,
                                           ![p].log = LastOf(Append(@, h), MaxSummaries)]]
    BY <1>0, <1>1, <1>7 DEF ApplySummary
  <2>11. [mem EXCEPT ![p].summarized = h, ![p].log = LastOf(Append(@, h), MaxSummaries)] = m
    BY <1>3, <1>4, <2>1, <2>2, <2>3, <2>5, <2>7 DEF Memory
  <2>12. room' = [room EXCEPT !.memory = m]
    BY <2>10, <2>11
  <2>13. \A y \in Tasks(m[p].log) : y = h \/ (p \in DOMAIN old /\ y \in Tasks(old[p].log))
    BY <1>5, <2>1, <2>4, <2>6, <2>8
  <2>14. \A q \in DOMAIN old : /\ m[q].decided = old[q].decided /\ m[q].observed = old[q].observed
                               /\ q # p => m[q] = old[q]
    BY <1>3, <2>6, <2>8
  <2>15. DOMAIN m = DOMAIN old \cup {p}
    BY <1>3, <2>8
  <2>18. p \notin DOMAIN old => m[p].observed = 0
    BY <1>8, <2>6, <2>8
  <2>16. loop.task.player = p /\ loop.task.hand = h /\ room.memory = old
    BY <1>1
  <2>17. /\ DOMAIN m = DOMAIN room.memory \cup {loop.task.player}
         /\ \A q \in DOMAIN room.memory :
              /\ m[q].decided = room.memory[q].decided /\ m[q].observed = room.memory[q].observed
              /\ q # loop.task.player => m[q] = room.memory[q]
         /\ loop.task.player \notin DOMAIN room.memory => m[loop.task.player].observed = 0
         /\ \A y \in Tasks(m[loop.task.player].log) :
              \/ y = loop.task.hand
              \/ /\ loop.task.player \in DOMAIN room.memory
                 /\ y \in Tasks(room.memory[loop.task.player].log)
    BY ONLY <2>13, <2>14, <2>15, <2>16, <2>18
  <2> QED BY ONLY <2>9, <2>12, <2>17, Zenon
<1> QED BY <1>6, <1>7

LEMMA ApplySummaryInv ==
  ASSUME Inv, ApplySummary
  PROVE  Inv'
<1>1. /\ outbox = <<>> /\ room \in Room
      /\ turns' = turns /\ queue' = queue /\ outbox' = outbox /\ played' = played /\ gaveUp' = gaveUp
      /\ loop \in Idle \cup Deciding \cup Reviewing /\ loop.phase = "summarizing"
      /\ loop' = [phase |-> "ready"]
      /\ OneDecision /\ TurnAttended /\ Fresh /\ OnTheirWayOnce /\ TypeOK
  BY DEF Inv, TypeOK, ApplySummary, Ready, Unlocked, At, past
<1>2. PICK t : t = loop.task
  OBVIOUS
<1>3. loop \in Reviewing /\ t \in Summaries /\ t.kind = "summarize" /\ Waiting(Held) = {t}
  <2>1. loop \in Reviewing /\ loop.task \in Summaries /\ loop.task.kind = "summarize"
    BY <1>1, LoopFacts
  <2> QED BY <1>1, <1>2, <2>1, HeldNow
<1>4. loop' \in Idle /\ loop'.phase = "ready" /\ Held' = <<>>
  BY <1>1 DEF Idle, Held
<1>5. /\ ~At("deciding") /\ ~At("deciding")' /\ ~At("applying") /\ ~At("applying")'
      /\ ~At("failed") /\ (At("failed") => loop.task.retries > 0)'
  BY <1>1, <1>4 DEF At
<1>6. Waiting(Held') = {}
  BY <1>4, NoTasks
<1>7. CASE ~Exists
  <2>1. room' = room
    BY <1>7 DEF ApplySummary
  <2>2. TurnAttended'
    BY <1>1, <1>5, <2>1 DEF TurnAttended, AITurn, Automatic
  <2> QED BY <1>1, <1>4, <1>5, <1>6, <2>1, <2>2, MoveInv
<1>8. CASE Exists
  <2>1. PICK m \in Memories :
          /\ room' = [room EXCEPT !.memory = m]
          /\ DOMAIN m = DOMAIN room.memory \cup {t.player}
          /\ \A p \in DOMAIN room.memory :
               /\ m[p].decided = room.memory[p].decided /\ m[p].observed = room.memory[p].observed
               /\ p # t.player => m[p] = room.memory[p]
          /\ t.player \notin DOMAIN room.memory => m[t.player].observed = 0
          /\ \A h \in Tasks(m[t.player].log) :
               \/ h = t.hand
               \/ t.player \in DOMAIN room.memory /\ h \in Tasks(room.memory[t.player].log)
    BY <1>1, <1>2, <1>3, <1>8, WrittenFacts
  <2>2. /\ room' \in Room /\ room'.status = room.status /\ room'.seated = room.seated
        /\ room'.version = room.version /\ room'.hand = room.hand /\ room'.game = room.game
        /\ room'.managed = room.managed /\ room'.worker = room.worker /\ room'.memory = m
    BY <1>1, <2>1 DEF Room, Memories
  <2>3. TypeOK'
    BY <1>1, <1>4, <1>5, <2>2 DEF TypeOK
  <2>4. OneDecision'
    <3>1. Pending' = Pending
      BY <1>1, <1>5 DEF Pending
    <3> QED BY <1>1, <2>2, <3>1 DEF OneDecision, Exists
  <2>5. TurnAttended'
    BY <1>1, <1>5, <2>2 DEF TurnAttended, AITurn, Automatic
  <2>6. Fresh'
    <3>1. \A u : Current(u) => Current(u)'
      BY <2>2 DEF Current, Exists, Automatic
    <3> QED BY <1>1, <1>5, <3>1 DEF Fresh, Tasks
  <2>7. OnTheirWayOnce'
    <3>1. /\ Waiting(queue') \cap Waiting(outbox') = {}
          /\ Waiting(queue') \cap Waiting(Held') = {}
          /\ Waiting(outbox') \cap Waiting(Held') = {}
          /\ Once(queue) /\ Once(outbox)
      BY <1>1, <1>6 DEF OnTheirWayOnce
    <3> QED BY <1>1, <3>1 DEF OnTheirWayOnce, Once, Waiting, Tasks, Held
  <2>8. Unwritten'
    <3>1. \A h : Past(h) => Past(h)'
      BY <2>2 DEF Past
    <3>2. /\ \A u \in Waiting(queue) \cup {t} :
              /\ Past(u.hand)
              /\ u.player \in DOMAIN room.memory => u.hand \notin Tasks(room.memory[u.player].log)
          /\ \A p \in DOMAIN room.memory : \A h \in Tasks(room.memory[p].log) : Past(h)
      BY <1>3 DEF Inv, Unwritten
    <3>3. \A p \in DOMAIN m : \A h \in Tasks(m[p].log) : Past(h)
      BY <2>1, <3>2
    <3>4. ASSUME NEW u \in Waiting(queue), u.player \in DOMAIN m
          PROVE  u.hand \notin Tasks(m[u.player].log)
      <4>1. u \in Summaries
        <5>1. \A i \in DOMAIN queue : queue[i] \in Task
          BY <1>1, ElementOfSeq DEF TypeOK
        <5> QED BY <5>1 DEF Waiting, Tasks, Task, DecisionTasks
      <4>2. u # t
        BY <1>1, <1>3 DEF OnTheirWayOnce
      <4>3. u.player # t.player \/ u.hand # t.hand
        BY <1>3, <4>1, <4>2 DEF Summaries
      <4> QED BY <2>1, <3>2, <3>4, <4>3
    <3>5. \A u \in Waiting(queue') \cup Waiting(outbox') \cup Waiting(Held') :
            /\ Past(u.hand)'
            /\ u.player \in DOMAIN room'.memory => u.hand \notin Tasks(room'.memory[u.player].log)
      BY <1>1, <1>6, <2>2, <3>1, <3>2, <3>4, NoTasks
    <3>6. \A p \in DOMAIN room'.memory : \A h \in Tasks(room'.memory[p].log) : Past(h)'
      BY <2>2, <3>1, <3>3
    <3> QED BY <3>5, <3>6 DEF Unwritten, Waiting, Tasks, Held
  <2>9. Noted'
    BY <1>1, <1>8, <2>1, <2>2 DEF Inv, Noted, Exists
  <2>10. Unseen'
    <3>1. UnseenIn(room, turns) /\ room.hand \in Nat
      BY <1>1, <1>8 DEF Inv, Unseen, Room
    <3>2. \A p \in DOMAIN m : m[p].observed = 0 \/ (p \in DOMAIN room.memory /\ m[p].observed = room.memory[p].observed)
      BY <2>1
    <3> QED BY <1>1, <2>2, <3>1, <3>2 DEF Unseen, UnseenIn
  <2> QED BY <2>3, <2>4, <2>5, <2>6, <2>7, <2>8, <2>9, <2>10 DEF Inv
<1> QED BY <1>7, <1>8


-----------------------------------------------------------------------------
(* The invariant holds from the first state on. *)

LEMMA InitInv ==
  ASSUME Init
  PROVE  Inv
<1>1. PICK mem : mem = [b \in Bot |-> NoMemory]
  OBVIOUS
<1>2. mem \in Memories
  <2>1. DOMAIN mem \in SUBSET Player /\ mem = [p \in DOMAIN mem |-> mem[p]] /\ \A p \in DOMAIN mem : mem[p] \in Memory
    BY <1>1, NoMemoryType DEF Player
  <2> QED BY <2>1, MemoriesFacts
<1>3. /\ room = [status |-> "waiting", seated |-> Player, managed |-> {}, game |-> NoGame,
                 version |-> 1, hand |-> 0, worker |-> FALSE, memory |-> mem]
      /\ queue = <<>> /\ outbox = <<>> /\ loop = [phase |-> "ready"] /\ played = {} /\ turns = 0
  BY <1>1 DEF Init
<1>4. room \in Room
  BY <1>2, <1>3 DEF Room, Memories, Game
<1>5. /\ room.status = "waiting" /\ ~room.worker /\ room.game.stage = "none" /\ room.game.in = {}
      /\ room.hand = 0 /\ room.memory = mem /\ loop.phase = "ready"
  BY <1>3 DEF NoGame
<1>6. /\ Held = <<>> /\ ~At("deciding") /\ ~At("applying") /\ ~At("failed") /\ loop \in Idle
  BY <1>3 DEF Held, At, Idle
<1>7. queue \in Seq(Task) /\ Cardinality(Decisions(queue)) = 0
  <2>1. queue \in Seq(Summaries)
    BY <1>3, EmptySeq
  <2> QED BY <2>1, CountNone
<1>8. TypeOK
  BY <1>3, <1>4, <1>6, <1>7 DEF TypeOK
<1>9. OneDecision
  <2>1. Pending = Cardinality(Decisions(queue)) + Cardinality(Decisions(outbox))
                  + (IF At("deciding") THEN 1 ELSE 0)
    BY DEF Pending, Decisions
  <2>2. outbox = queue
    BY <1>3
  <2>3. Pending = 0
    BY <1>6, <1>7, <2>1, <2>2
  <2> QED BY <1>5, <2>3 DEF OneDecision
<1>10. TurnAttended
  BY <1>5 DEF TurnAttended, AITurn
<1>11. Fresh /\ OnTheirWayOnce
  BY <1>3, <1>6, NoTasks DEF Fresh, OnTheirWayOnce
<1>12. Unwritten
  <2>1. \A p \in DOMAIN room.memory : Tasks(room.memory[p].log) = {}
    BY <1>1, <1>5, NoTasks DEF NoMemory
  <2> QED BY <1>3, <1>6, <2>1, NoTasks DEF Unwritten
<1>13. Noted
  BY <1>5 DEF Noted, Exists
<1>14. Unseen
  <2>1. \A p \in DOMAIN room.memory : room.memory[p].observed = 0
    BY <1>1, <1>5 DEF NoMemory
  <2> QED BY <1>5, <2>1 DEF Unseen, UnseenIn
<1> QED BY <1>8, <1>9, <1>10, <1>11, <1>12, <1>13, <1>14 DEF Inv

LEMMA StutterInv ==
  ASSUME Inv, UNCHANGED vars
  PROVE  Inv'
<1>1. /\ room' = room /\ queue' = queue /\ outbox' = outbox /\ loop' = loop
      /\ gaveUp' = gaveUp /\ played' = played /\ turns' = turns
  BY DEF vars, past
<1>2. TypeOK' /\ TurnAttended'
  BY <1>1 DEF Inv, TypeOK, TurnAttended, AITurn, Automatic, At
<1>3. OneDecision'
  <2>1. Pending' = Pending
    BY <1>1 DEF Pending, At
  <2> QED BY <1>1, <2>1 DEF Inv, OneDecision, Exists
<1>4. Fresh'
  BY <1>1 DEF Inv, Fresh, Current, Exists, Automatic, At, Tasks
<1>5. OnTheirWayOnce'
  BY <1>1 DEF Inv, OnTheirWayOnce, Once, Waiting, Tasks, Held
<1>6. Held' = Held
  BY <1>1 DEF Held
<1>7. Unwritten' /\ Noted' /\ Unseen'
  BY <1>1, <1>6, StillNoted
<1> QED BY <1>2, <1>3, <1>4, <1>5, <1>7 DEF Inv

LEMMA StepInv ==
  ASSUME Inv, [Next]_vars
  PROVE  Inv'
<1>1. CASE Deal
  BY <1>1, DealInv
<1>2. CASE Watch
  BY <1>2, WatchInv
<1>3. ASSUME NEW u \in Human, ApplyAction(u) PROVE Inv'
  <2>1. Unlocked /\ room.status = "playing" /\ CanAct(room, u) /\ AfterAction(u) /\ queue' = queue /\ loop' = loop
    BY <1>3 DEF ApplyAction
  <2> QED BY <2>1, ActionInv
<1>4. ASSUME NEW u \in Human, LeaveRoom(u) PROVE Inv'
  BY <1>4, LeaveInv
<1>5. ASSUME NEW u \in Human, SetPlayerAIManaged(u) PROVE Inv'
  BY <1>5, ManagedInv
<1>6. ASSUME NEW u \in Human, JoinRoom(u) PROVE Inv'
  BY <1>6, JoinInv
<1>7. ASSUME NEW b \in Bot, RemoveAI(b) PROVE Inv'
  BY <1>7, RemoveInv
<1>8. CASE Send
  BY <1>8, SendInv
<1>9. CASE Take
  BY <1>9, TakeInv
<1>10. CASE ClearWorker
  BY <1>10, ClearInv
<1>11. CASE ApplyDecision
  BY <1>11, ApplyDecisionInv
<1>12. CASE DecisionRefused
  BY <1>12, RefusedInv
<1>13. CASE RetryDecision
  BY <1>13, RetryInv
<1>14. CASE CheckWorker
  BY <1>14, CheckInv
<1>15. CASE PutBack
  BY <1>15, PutBackInv
<1>16. CASE SummaryFailed
  BY <1>16, FailedInv
<1>17. CASE ApplySummary
  BY <1>17, ApplySummaryInv
<1>18. CASE UNCHANGED vars
  BY <1>18, StutterInv
<1> QED
  BY <1>1, <1>2, <1>3, <1>4, <1>5, <1>6, <1>7, <1>8, <1>9, <1>10, <1>11, <1>12, <1>13, <1>14,
     <1>15, <1>16, <1>17, <1>18 DEF Next, Request, EventLoop

\* Everything the invariant says holds in every state the room can reach.
THEOREM AlwaysInv == Spec => []Inv
<1>1. Init => Inv
  BY InitInv
<1>2. Inv /\ [Next]_vars => Inv'
  BY StepInv
<1> QED BY <1>1, <1>2, PTL DEF Spec

-----------------------------------------------------------------------------
(* What follows. *)

\* The flag in aiWorkers counts the decisions of the room that are on their way:
\* there is one or there is none, for any number of players and whatever requests
\* come while the model thinks (enqueueAIDecisionLocked, applyActionFromAI).
THEOREM OneDecisionAtATime == Spec => []OneDecision
<1>1. Inv => OneDecision
  BY DEF Inv
<1> QED BY <1>1, AlwaysInv, PTL

\* Whenever an AI player is to act, a decision is on its way or being applied, or
\* its retries are used up (the last lines of every method that moves the turn).
THEOREM TurnNeverOverlooked == Spec => []TurnAttended
<1>1. Inv => TurnAttended
  BY DEF Inv
<1> QED BY <1>1, AlwaysInv, PTL

\* A decision is applied only to the hand it was computed for, and for a player
\* whom the AI still plays: the version in the task guards it (applyActionFromAI).
THEOREM DecisionsAreFresh == Spec => ActsOnWhatItSaw
<1>1. ASSUME Inv, [Next]_vars
      PROVE  [ApplyDecision => /\ room.game = loop.task.seen
                               /\ loop.task.player \in Automatic(room)]_vars
  <2>1. SUFFICES ASSUME ApplyDecision
                 PROVE  room.game = loop.task.seen /\ loop.task.player \in Automatic(room)
    OBVIOUS
  <2>2. At("applying") /\ room.status = "playing" /\ room.version = loop.task.version
    BY <2>1 DEF ApplyDecision, Accepted
  <2>3. Current(loop.task)
    BY <1>1, <2>2 DEF Inv, Fresh
  <2> QED BY <2>2, <2>3 DEF Current, Exists
<1> QED BY <1>1, AlwaysInv, PTL DEF Spec, ActsOnWhatItSaw

LEMMA ConcatOnce ==
  ASSUME NEW a \in Seq(Task), NEW b \in Seq(Task), Once(a), Once(b), Waiting(a) \cap Waiting(b) = {}
  PROVE  a \o b \in Seq(Task) /\ Once(a \o b) /\ Waiting(a \o b) \subseteq Waiting(a) \cup Waiting(b)
<1>1. PICK c : c = a \o b
  OBVIOUS
<1>2. /\ c \in Seq(Task) /\ Len(c) = Len(a) + Len(b)
      /\ \A i \in 1 .. Len(c) : c[i] = IF i <= Len(a) THEN a[i] ELSE b[i - Len(a)]
  BY <1>1, ConcatProperties
<1>3. Len(a) \in Nat /\ Len(b) \in Nat /\ DOMAIN a = 1 .. Len(a) /\ DOMAIN b = 1 .. Len(b) /\ DOMAIN c = 1 .. Len(c)
  BY <1>2
<1>4. \A i \in DOMAIN c :
        \/ i \in DOMAIN a /\ c[i] = a[i]
        \/ i - Len(a) \in DOMAIN b /\ c[i] = b[i - Len(a)] /\ i \notin DOMAIN a
  BY <1>2, <1>3
<1>5. Waiting(c) \subseteq Waiting(a) \cup Waiting(b)
  BY <1>4 DEF Waiting, Tasks
<1>6. ASSUME NEW i \in DOMAIN c, NEW j \in DOMAIN c, c[i].kind = "summarize", c[i] = c[j]
      PROVE  i = j
  <2>1. CASE i \in DOMAIN a /\ c[i] = a[i] /\ j \in DOMAIN a /\ c[j] = a[j]
    BY <1>6, <2>1 DEF Once
  <2>2. CASE /\ i - Len(a) \in DOMAIN b /\ c[i] = b[i - Len(a)]
             /\ j - Len(a) \in DOMAIN b /\ c[j] = b[j - Len(a)]
    <3>1. i - Len(a) = j - Len(a)
      BY <1>6, <2>2 DEF Once
    <3> QED BY <1>3, <3>1
  <2>3. CASE i \in DOMAIN a /\ c[i] = a[i] /\ j - Len(a) \in DOMAIN b /\ c[j] = b[j - Len(a)]
    <3>1. c[i] \in Waiting(a) /\ c[i] \in Waiting(b)
      BY <1>6, <2>3 DEF Waiting, Tasks
    <3> QED BY <3>1
  <2>4. CASE j \in DOMAIN a /\ c[j] = a[j] /\ i - Len(a) \in DOMAIN b /\ c[i] = b[i - Len(a)]
    <3>1. c[i] \in Waiting(a) /\ c[i] \in Waiting(b)
      BY <1>6, <2>4 DEF Waiting, Tasks
    <3> QED BY <3>1
  <2> QED BY <1>4, <2>1, <2>2, <2>3, <2>4
<1>7. Once(c)
  BY <1>6 DEF Once
<1> QED BY <1>1, <1>2, <1>5, <1>7

\* Nothing is reviewed twice: no summary is on its way twice, or for a hand that
\* the player's memory tells of, though summaries are put back on the queue as
\* often as the room is busy (aiEventLoop, applySummary).
THEOREM SummariesAreWrittenOnce == Spec => []SummaryOnce
<1>1. ASSUME Inv PROVE SummaryOnce
  <2>1. /\ TypeOK /\ OnTheirWayOnce /\ Unwritten /\ queue \in Seq(Task) /\ outbox \in Seq(Task)
    BY <1>1 DEF Inv, TypeOK
  <2>2. Held \in Seq(Task) /\ Once(Held)
    <3>1. loop \in Idle \cup Deciding \cup Reviewing
      BY <2>1 DEF TypeOK
    <3>2. CASE loop.phase \in {"ready", "sending"}
      BY <3>2, EmptySeq, NoTasks DEF Held
    <3>3. CASE loop.phase \notin {"ready", "sending"}
      <4>1. loop.task \in Task
        BY <3>1, <3>3, LoopFacts DEF Task
      <4> QED BY <3>3, <4>1 DEF Held, Once
    <3> QED BY <3>2, <3>3
  <2>3. PICK a : a = queue \o outbox
    OBVIOUS
  <2>4. a \in Seq(Task) /\ Once(a) /\ Waiting(a) \subseteq Waiting(queue) \cup Waiting(outbox)
    BY <2>1, <2>3, ConcatOnce DEF OnTheirWayOnce
  <2>5. PICK line : line = a \o Held
    OBVIOUS
  <2>6. Waiting(a) \cap Waiting(Held) = {}
    BY <2>1, <2>4 DEF OnTheirWayOnce
  <2>7. /\ line \in Seq(Task) /\ Once(line)
        /\ Waiting(line) \subseteq Waiting(queue) \cup Waiting(outbox) \cup Waiting(Held)
    <3>1. line \in Seq(Task) /\ Once(line) /\ Waiting(line) \subseteq Waiting(a) \cup Waiting(Held)
      BY <2>2, <2>4, <2>5, <2>6, ConcatOnce
    <3> QED BY <2>4, <3>1
  <2>8. ASSUME NEW i \in DOMAIN line, line[i].kind = "summarize"
        PROVE  /\ \A j \in DOMAIN line : line[i] = line[j] => i = j
               /\ line[i].player \in DOMAIN room.memory =>
                    line[i].hand \notin Tasks(room.memory[line[i].player].log)
    <3>1. line[i] \in Waiting(line)
      BY <2>8 DEF Waiting, Tasks
    <3> QED BY <2>1, <2>7, <2>8, <3>1 DEF Once, Unwritten
  <2>9. line = queue \o outbox \o Held
    BY <2>3, <2>5
  <2> QED BY <2>8, <2>9 DEF SummaryOnce, Held
<1> QED BY <1>1, AlwaysInv, PTL

\* When a hand that was played is over, everybody the AI played in it and who stays
\* has been shown it, the humans it was asked for included (enqueueAISummaryLocked);
\* a hand that the deal itself has finished is shown to nobody (StartGame, NextHand).
THEOREM HandsAreReviewed == Spec => []HandReviewed
<1>1. ASSUME Inv PROVE HandReviewed
  <2>1. SUFFICES ASSUME room.game.stage = "over" PROVE HandReviewed
    BY DEF HandReviewed
  <2>2. Exists /\ UnseenIn(room, turns) /\ turns \in Nat
    BY <1>1, <2>1 DEF Inv, Noted, Unseen, TypeOK
  <2>3. CASE turns > 0
    BY <1>1, <2>1, <2>2, <2>3 DEF Inv, Noted, HandReviewed
  <2>4. CASE turns = 0
    BY <2>1, <2>2, <2>4 DEF UnseenIn, HandReviewed
  <2> QED BY <2>2, <2>3, <2>4
<1> QED BY <1>1, AlwaysInv, PTL

=============================================================================
