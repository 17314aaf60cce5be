-------------------------- MODULE WorkerCallsProofs --------------------------
(***************************************************************************)
(* Proofs about WorkerCalls, for any number of requests and of callers     *)
(* that give up.                                                           *)
(***************************************************************************)
EXTENDS WorkerCalls, SequenceTheorems, TLAPS

----------------------------------------------------------------------------
(* The inductive invariant *)

\* What the lock of a handler can be where it stands, and that nothing it reads has
\* changed under it.
Fits(x) ==
    /\ x.at = "idle" => x.lock = "none"
    /\ x.at = "body" => \/ x.op = "sub" /\ x.lock \in {"blocked", "reading"}
                        \/ x.op = "delete" /\ x.lock = "none"
                        \/ x.op = "change" /\ x.lock \in {"queued", "pending", "writing"}
    /\ x.at = "json" => x.lock \in {"blocked", "reading"}
    /\ x.at \in {"conf", "exec"} => x.lock = "reading"
    /\ x.at \in {"edit", "sync"} => x.lock \in {"queued", "pending", "writing"}
    /\ x.at = "filling" => x.lock = "writing"
    /\ x.at = "reply" => x.lock \in {"none", "reading", "writing"}
    /\ x.stale = FALSE

HandlersFit == \A h \in Handlers : Fits(handler[h])

\* One writer at most has the inner mutex.
OneWriter ==
    \A h, g \in Handlers :
        handler[h].lock \in {"pending", "writing"} /\ g # h =>
            handler[g].lock \notin {"pending", "writing"}

TodoIsFunction == todo = [c \in Callers |-> todo[c]]

CallsInv == TodoIsFunction /\ HandlersFit /\ OneWriter

----------------------------------------------------------------------------
(* Scripts *)

\* A request's script is not empty, and what is left of it is empty or one call.
LEMMA RequestScriptsAre ==
    ASSUME NEW s \in RequestScripts
    PROVE  /\ s # <<>>
           /\ Head(s) \in Ops
           /\ Tail(s) = <<>> \/ (Tail(s) # <<>> /\ Head(Tail(s)) \in Ops /\ Tail(Tail(s)) = <<>>)
<1>1. CASE s \in {<<op>> : op \in Ops \ {"sub"}}
  <2>1. PICK op \in Ops : s = <<op>>
    BY <1>1
  <2> QED BY <2>1
<1>2. CASE s = <<"sub", "config">>
  <2>1. {"config", "sub"} \subseteq Ops
    BY DEF Ops, ReadOps
  <2> QED BY <1>2, <2>1
<1> QED BY <1>1, <1>2 DEF RequestScripts

\* What is left of a pass of the service is nothing or a shorter pass.
LEMMA PassesAre ==
    ASSUME NEW k \in Nat
    PROVE  /\ Pass(k) # <<>>
           /\ Head(Pass(k)) \in Ops
           /\ Tail(Pass(k)) = IF k = 0 THEN <<>> ELSE Pass(k - 1)
<1>1. {"change", "stats"} \subseteq Ops
  BY DEF Ops, ReadOps, WriteOps
<1>2. ASSUME NEW j \in Nat
      PROVE  /\ Pass(j) \in Seq(Ops)
             /\ Len(Pass(j)) = j + 1
             /\ \A i \in 1..j+1 : Pass(j)[i] = IF i <= j THEN "change" ELSE "stats"
  BY <1>1 DEF Pass
<1>3. Pass(k) # <<>> /\ Head(Pass(k)) \in Ops
  BY <1>1, <1>2
<1>4. Len(Pass(k)) - 1 = k
  BY <1>2
<1> DEFINE rest == Tail(Pass(k))
<1>5. /\ rest \in Seq(Ops)
      /\ Len(rest) = Len(Pass(k)) - 1
      /\ \A i \in 1..Len(rest) : rest[i] = Pass(k)[i + 1]
  BY <1>2, <1>3, HeadTailProperties, Zenon
<1>6. Len(rest) = k /\ \A i \in 1..k : rest[i] = Pass(k)[i + 1]
  BY <1>4, <1>5
<1> HIDE DEF rest
<1>7. CASE k = 0
  <2>1. rest = <<>>
    BY <1>7, <1>5, <1>6
  <2> QED BY <1>3, <1>7, <2>1 DEF rest
<1>8. CASE k # 0
  <2>1. k - 1 \in Nat
    BY <1>8
  <2> DEFINE next == Pass(k - 1)
  <2>2. /\ next \in Seq(Ops)
        /\ Len(next) = k
        /\ \A i \in 1..k : next[i] = IF i <= k - 1 THEN "change" ELSE "stats"
    <3>1. (k - 1) + 1 = k
      OBVIOUS
    <3> QED BY <1>2, <2>1, <3>1, Zenon
  <2>3. \A i \in 1..k : Pass(k)[i + 1] = IF i <= k - 1 THEN "change" ELSE "stats"
    <3>1. ASSUME NEW i \in 1..k
          PROVE  Pass(k)[i + 1] = IF i + 1 <= k THEN "change" ELSE "stats"
      BY <1>2
    <3> QED BY <3>1
  <2> HIDE DEF next
  <2>4. rest = next
    BY <1>5, <1>6, <2>2, <2>3, SeqEqual
  <2> QED BY <1>3, <1>8, <2>4 DEF rest, next
<1> QED BY <1>7, <1>8

Todo(c) == {<<>>} \cup Scripts(c) \cup {Tail(s) : s \in Scripts(c)}

\* A script is not empty, and neither that nor what is left of one asks for anything
\* but the worker's routes.
LEMMA ScriptsAre ==
    ASSUME NEW c \in Callers, NEW s \in Scripts(c)
    PROVE  /\ s # <<>>
           /\ Head(s) \in Ops
           /\ Tail(s) # <<>> => Head(Tail(s)) \in Ops /\ Tail(Tail(s)) \in Todo(c)
<1>1. CASE c = Service
  <2>1. PICK k \in 0..MaxFreezes : s = Pass(k)
    BY <1>1 DEF Scripts, ServiceScripts
  <2>2. k \in Nat
    BY BoundsAssumption
  <2>3. CASE k = 0
    BY <2>1, <2>2, <2>3, PassesAre
  <2>4. CASE k # 0
    <3>1. k - 1 \in 0..MaxFreezes /\ k - 1 \in Nat
      BY <2>2, <2>4, BoundsAssumption
    <3>2. Tail(s) \in Scripts(c)
      BY <1>1, <2>1, <2>2, <2>4, <3>1, PassesAre DEF Scripts, ServiceScripts
    <3>3. Head(Tail(s)) \in Ops
      BY <2>1, <2>2, <2>4, <3>1, PassesAre
    <3> QED BY <2>1, <2>2, <3>2, <3>3, PassesAre DEF Todo
  <2> QED BY <2>3, <2>4
<1>2. CASE c # Service
  BY <1>2, RequestScriptsAre DEF Scripts, Todo
<1> QED BY <1>1, <1>2

\* What is left of what is left is still of this kind.
LEMMA TodoIs ==
    ASSUME NEW c \in Callers, NEW t \in Todo(c), t # <<>>
    PROVE  Head(t) \in Ops /\ Tail(t) \in Todo(c)
<1>1. CASE t \in Scripts(c)
  BY <1>1, ScriptsAre DEF Todo
<1>2. ASSUME NEW s \in Scripts(c), t = Tail(s)
      PROVE  Head(t) \in Ops /\ Tail(t) \in Todo(c)
  BY <1>2, ScriptsAre
<1> QED BY <1>1, <1>2 DEF Todo

----------------------------------------------------------------------------
(* Handlers *)

LEMMA HandlersAre ==
    /\ Callers \subseteq Handlers
    /\ \A i \in 1..MaxFaults : i \in Handlers /\ i \notin Callers
BY BoundsAssumption DEF Handlers

LEMMA IdleFits == IdleHandler \in HandlerState /\ Fits(IdleHandler) /\ IdleHandler.at = "idle"
                  /\ IdleHandler.lock = "none"
BY DEF IdleHandler, HandlerState, Ops, ReadOps, WriteOps, LockStates, Stages, Fits

\* The parts of TypeOK and of the invariant that are about the handlers alone.
HandlersGood ==
    /\ handler \in [Handlers -> HandlerState]
    /\ HandlersFit
    /\ Exclusion
    /\ OneWriter

\* A handler that neither takes the lock nor comes to hold it.
LEMMA MoveGood ==
    ASSUME HandlersGood, NEW h \in Handlers, NEW new \in HandlerState, Fits(new),
           new.lock = handler[h].lock \/ new.lock \notin {"reading", "pending", "writing"},
           handler' = [handler EXCEPT ![h] = new]
    PROVE  HandlersGood'
<1>1. handler' \in [Handlers -> HandlerState]
  BY DEF HandlersGood
<1>2. \A g \in Handlers : handler'[g] = IF g = h THEN new ELSE handler[g]
  BY DEF HandlersGood
<1>3. \A g \in Handlers : handler'[g].lock = handler[g].lock
                          \/ handler'[g].lock \notin {"reading", "pending", "writing"}
  BY <1>2
<1>4. HandlersFit'
  BY <1>2 DEF HandlersGood, HandlersFit
<1>5. \A g \in Handlers : handler'[g].at = "filling" => handler'[g].lock = "writing"
  BY <1>4 DEF HandlersFit, Fits
<1>6. Exclusion'
  BY <1>3, <1>5 DEF HandlersGood, Exclusion
<1>7. OneWriter'
  BY <1>3 DEF HandlersGood, OneWriter
<1> QED BY <1>1, <1>4, <1>6, <1>7 DEF HandlersGood

\* A handler that moves on with the lock it has.
LEMMA StageGood ==
    ASSUME HandlersGood, NEW h \in Handlers, NEW at \in Stages,
           Fits([handler[h] EXCEPT !.at = at]),
           handler' = [handler EXCEPT ![h] = [handler[h] EXCEPT !.at = at]]
    PROVE  HandlersGood'
<1>1. handler[h] \in HandlerState
  BY DEF HandlersGood
<1>2. /\ [handler[h] EXCEPT !.at = at] \in HandlerState
      /\ [handler[h] EXCEPT !.at = at].lock = handler[h].lock
  BY <1>1 DEF HandlerState
<1> QED BY <1>2, MoveGood

\* Start gives a lock that fits, and a reader no lock beside a writer.
LEMMA StartFits ==
    ASSUME NEW op \in Ops
    PROVE  LET new == [IdleHandler EXCEPT !.op = op, !.lock = Start(op).lock, !.at = Start(op).at]
           IN  /\ new \in HandlerState /\ Fits(new) /\ new.op = op /\ new.at # "idle"
               /\ new.at # "filling"
               /\ new.lock \notin {"pending", "writing"}
               /\ new.lock = "reading" => ~Announced
<1> DEFINE lock == Start(op).lock
           at == Start(op).at
           new == [IdleHandler EXCEPT !.op = op, !.lock = lock, !.at = at]
<1>1. RLock \in {"blocked", "reading"} /\ (RLock = "reading" => ~Announced)
  BY DEF RLock
<1>2. \/ op = "sub" /\ lock = RLock /\ at = "body"
      \/ op \in {"config", "stats"} /\ lock = RLock /\ at = "json"
      \/ op = "delete" /\ lock = "none" /\ at = "body"
      \/ op = "change" /\ lock = "queued" /\ at = "body"
      \/ op = "sync" /\ lock = "queued" /\ at = "sync"
  BY DEF Ops, ReadOps, WriteOps, Start
<1> HIDE DEF lock, at
<1>3. new.op = op /\ new.lock = lock /\ new.at = at /\ new.stale = FALSE
  BY DEF IdleHandler
<1>4. new \in HandlerState
  BY <1>1, <1>2, IdleFits DEF HandlerState, LockStates, Stages
<1> HIDE DEF new
<1>5. Fits(new)
  BY <1>1, <1>2, <1>3 DEF Fits
<1>6. /\ new.op = op /\ new.at # "idle" /\ new.at # "filling"
      /\ new.lock \notin {"pending", "writing"} /\ (new.lock = "reading" => ~Announced)
  BY <1>1, <1>2, <1>3
<1> QED BY <1>4, <1>5, <1>6 DEF new, lock, at

----------------------------------------------------------------------------
(* The handlers, step by step *)

\* What HandlersGood says of one handler.
LEMMA GoodHandler ==
    ASSUME HandlersGood, NEW h \in Handlers
    PROVE  handler[h] \in HandlerState /\ Fits(handler[h])
BY DEF HandlersGood, HandlersFit

LEMMA DecodeBodyGood ==
    ASSUME HandlersGood, NEW h \in Handlers, DecodeBody(h)
    PROVE  HandlersGood'
<1> DEFINE x == handler[h]
<1>1. x \in HandlerState /\ Fits(x) /\ x.at = "body" /\ x.lock \notin {"blocked", "queued", "pending"}
  BY GoodHandler DEF DecodeBody, Runs
<1>2. ASSUME x.op = "delete", Step(h, [x EXCEPT !.lock = "queued", !.at = "edit"])
      PROVE  HandlersGood'
  <2> DEFINE new == [x EXCEPT !.lock = "queued", !.at = "edit"]
  <2>1. new \in HandlerState /\ Fits(new) /\ new.lock = "queued"
    BY <1>1 DEF HandlerState, LockStates, Stages, Fits
  <2> HIDE DEF new
  <2>2. handler' = [handler EXCEPT ![h] = new]
    BY <1>2 DEF Step, new
  <2> QED BY <2>1, <2>2, MoveGood
<1>3. Fits([x EXCEPT !.at = "reply"])
  BY <1>1 DEF HandlerState, Fits
<1>4. x.op = "sub" => Fits([x EXCEPT !.at = "json"])
  BY <1>1 DEF HandlerState, Fits
<1>5. x.op = "change" => Fits([x EXCEPT !.at = "edit"])
  BY <1>1 DEF HandlerState, Fits
<1> QED BY <1>2, <1>3, <1>4, <1>5, StageGood DEF DecodeBody, Step, Stages

LEMMA ReadJsonGood ==
    ASSUME HandlersGood, NEW h \in Handlers, ReadJson(h)
    PROVE  HandlersGood'
<1> DEFINE x == handler[h]
<1>1. x \in HandlerState /\ Fits(x) /\ x.at = "json" /\ x.lock \notin {"blocked", "queued", "pending"}
  BY GoodHandler DEF ReadJson, Runs
<1>2. ASSUME NEW at \in {"reply", "conf", "exec"}
      PROVE  Fits([x EXCEPT !.at = at])
  BY <1>1 DEF HandlerState, Fits
<1> QED BY <1>2, StageGood DEF ReadJson, Step, Stages

LEMMA EndsGood ==
    ASSUME HandlersGood, NEW h \in Handlers, ReadConf(h) \/ ExecEnds(h) \/ SyncAWG(h)
    PROVE  HandlersGood'
<1>1. /\ handler[h] \in HandlerState /\ Fits(handler[h])
      /\ \/ handler[h].at \in {"conf", "exec"}
         \/ handler[h].at = "sync" /\ Runs(h)
  BY GoodHandler DEF ReadConf, ExecEnds, SyncAWG
<1>2. Fits([handler[h] EXCEPT !.at = "reply"])
  BY <1>1 DEF HandlerState, Fits, Runs
<1> QED BY <1>2, StageGood DEF ReadConf, ExecEnds, SyncAWG, Step, Stages

LEMMA FillGood ==
    ASSUME HandlersGood, NEW h \in Handlers, Fill(h)
    PROVE  HandlersGood'
<1>1. handler[h] \in HandlerState /\ Fits(handler[h]) /\ handler[h].at = "filling"
  BY GoodHandler DEF Fill
<1>2. ASSUME NEW at \in {"sync", "reply"}
      PROVE  Fits([handler[h] EXCEPT !.at = at])
  BY <1>1 DEF HandlerState, Fits
<1> QED BY <1>2, StageGood DEF Fill, Step, Stages

\* Whoever truncates a file is alone with the files: nobody is between two reads.
LEMMA EditGood ==
    ASSUME HandlersGood, NEW h \in Handlers, Edit(h)
    PROVE  HandlersGood'
<1>1. /\ handler[h] \in HandlerState /\ Fits(handler[h])
      /\ handler[h].at = "edit" /\ handler[h].lock = "writing"
  BY GoodHandler DEF Edit, Runs, Fits
<1>2. CASE Step(h, [handler[h] EXCEPT !.at = "reply"])
  <2>1. Fits([handler[h] EXCEPT !.at = "reply"])
    BY <1>1 DEF HandlerState, Fits
  <2> QED BY <1>2, <2>1, StageGood DEF Step, Stages
<1>3. CASE handler' = [g \in Handlers |->
                IF g = h THEN [handler[h] EXCEPT !.at = "filling"]
                ELSE [handler[g] EXCEPT !.stale = @ \/ handler[g].at \in {"conf", "exec"}]]
  <2>1. ASSUME NEW g \in Handlers, g # h
        PROVE  handler'[g] = handler[g]
    <3>1. handler[g].lock # "reading"
      BY <1>1, <2>1 DEF HandlersGood, Exclusion
    <3>2. handler[g] \in HandlerState /\ Fits(handler[g])
      BY GoodHandler
    <3>3. handler[g].at \notin {"conf", "exec"}
      BY <3>1, <3>2 DEF Fits
    <3>4. (handler[g].stale \/ handler[g].at \in {"conf", "exec"}) = handler[g].stale
      BY <3>2, <3>3 DEF HandlerState, Fits
    <3>5. handler'[g] = [handler[g] EXCEPT !.stale = handler[g].stale]
      BY <1>3, <2>1, <3>4, Zenon
    <3> QED BY <3>2, <3>5 DEF HandlerState
  <2>2. handler' = [handler EXCEPT ![h] = [handler[h] EXCEPT !.at = "filling"]]
    <3>1. handler'[h] = [handler[h] EXCEPT !.at = "filling"]
      BY <1>3
    <3>2. DOMAIN handler' = Handlers /\ handler' = [g \in Handlers |-> handler'[g]]
      BY <1>3
    <3> QED BY <2>1, <3>1, <3>2 DEF HandlersGood
  <2>3. Fits([handler[h] EXCEPT !.at = "filling"])
    BY <1>1 DEF HandlerState, Fits
  <2> QED BY <2>2, <2>3, StageGood DEF Stages
<1>4. CASE Step(h, [handler[h] EXCEPT !.at = "sync"])
  <2>1. Fits([handler[h] EXCEPT !.at = "sync"])
    BY <1>1 DEF HandlerState, Fits
  <2> QED BY <1>4, <2>1, StageGood DEF Stages, Step
<1> QED BY <1>2, <1>3, <1>4 DEF Edit

LEMMA AnnounceGood ==
    ASSUME HandlersGood, NEW h \in Handlers, Announce(h)
    PROVE  HandlersGood'
<1> DEFINE new == [handler[h] EXCEPT !.lock = "pending"]
<1>1. handler[h] \in HandlerState /\ Fits(handler[h]) /\ handler[h].lock = "queued"
  BY GoodHandler DEF Announce
<1>2. new \in HandlerState /\ Fits(new) /\ new.lock = "pending" /\ new.at # "filling"
  BY <1>1 DEF HandlerState, LockStates, Fits
<1>3. \A g \in Handlers : handler[g].lock \notin {"pending", "writing"}
  BY DEF Announce, Announced
<1>4. \A g \in Handlers : handler'[g] = IF g = h THEN new ELSE handler[g]
  BY DEF Announce, Step, HandlersGood
<1>5. handler' \in [Handlers -> HandlerState]
  BY <1>2 DEF Announce, Step, HandlersGood
<1> HIDE DEF new
<1>6. HandlersFit'
  BY <1>2, <1>4 DEF HandlersGood, HandlersFit
<1>7. Exclusion'
  BY <1>2, <1>3, <1>4 DEF HandlersGood, Exclusion
<1>8. OneWriter'
  BY <1>3, <1>4 DEF OneWriter
<1> QED BY <1>5, <1>6, <1>7, <1>8 DEF HandlersGood

LEMMA AcquireGood ==
    ASSUME HandlersGood, NEW h \in Handlers, Acquire(h)
    PROVE  HandlersGood'
<1> DEFINE new == [handler[h] EXCEPT !.lock = "writing"]
<1>1. handler[h] \in HandlerState /\ Fits(handler[h]) /\ handler[h].lock = "pending"
  BY GoodHandler DEF Acquire
<1>2. new \in HandlerState /\ Fits(new) /\ new.lock = "writing"
  BY <1>1 DEF HandlerState, LockStates, Fits
<1>3. \A g \in Handlers : g # h => handler[g].lock \notin {"reading", "pending", "writing"}
  BY <1>1 DEF Acquire, HandlersGood, OneWriter
<1>4. \A g \in Handlers : handler'[g] = IF g = h THEN new ELSE handler[g]
  BY DEF Acquire, Step, HandlersGood
<1>5. handler' \in [Handlers -> HandlerState]
  BY <1>2 DEF Acquire, Step, HandlersGood
<1> HIDE DEF new
<1>6. HandlersFit'
  BY <1>2, <1>4 DEF HandlersGood, HandlersFit
<1>7. Exclusion'
  BY <1>2, <1>3, <1>4 DEF HandlersGood, Exclusion
<1>8. OneWriter'
  BY <1>3, <1>4 DEF OneWriter
<1> QED BY <1>5, <1>6, <1>7, <1>8 DEF HandlersGood

\* The writer that leaves lets the readers in, and there is no other writer.
LEMMA ReplyGood ==
    ASSUME HandlersGood, NEW h \in Handlers, Reply(h)
    PROVE  HandlersGood'
<1>1. handler' = Unlocked(h)
  BY DEF Reply
<1> DEFINE lets == handler[h].lock = "writing"
<1>2. handler'[h] = IdleHandler
  BY <1>1 DEF Unlocked
<1>3. ASSUME NEW g \in Handlers, g # h
      PROVE  IF lets /\ handler[g].lock = "blocked"
               THEN handler'[g] = [handler[g] EXCEPT !.lock = "reading"]
               ELSE handler'[g] = handler[g]
  BY <1>1, <1>3 DEF Unlocked
<1>4. ASSUME NEW g \in Handlers
      PROVE  handler'[g] \in HandlerState /\ Fits(handler'[g])
  <2>1. CASE handler'[g] = handler[g]
    BY <2>1, GoodHandler
  <2>2. CASE handler[g].lock = "blocked" /\ handler'[g] = [handler[g] EXCEPT !.lock = "reading"]
    BY <2>2, GoodHandler DEF HandlerState, LockStates, Fits
  <2> QED BY <1>2, <1>3, <2>1, <2>2, IdleFits
<1>5. handler' \in [Handlers -> HandlerState]
  BY <1>1, <1>4 DEF Unlocked
<1>6. ASSUME NEW g \in Handlers, g # h
      PROVE  \/ handler'[g].lock = handler[g].lock
             \/ lets /\ handler'[g].lock = "reading"
  BY <1>3, <1>6, GoodHandler DEF HandlerState
<1>7. lets => \A g \in Handlers : g # h => handler'[g].lock \notin {"pending", "writing"}
  BY <1>6 DEF HandlersGood, Exclusion
<1>8. Exclusion'
  <2>1. \A g \in Handlers : handler'[g].at = "filling" => handler'[g].lock = "writing"
    BY <1>4 DEF Fits
  <2>2. ASSUME NEW g \in Handlers, NEW i \in Handlers, handler'[g].lock = "writing", i # g
        PROVE  handler'[i].lock \notin {"reading", "pending", "writing"}
    BY <1>2, <1>6, <1>7, <2>2, IdleFits DEF HandlersGood, Exclusion
  <2> QED BY <2>1, <2>2 DEF Exclusion
<1>9. OneWriter'
  BY <1>2, <1>6, IdleFits DEF HandlersGood, OneWriter
<1> QED BY <1>4, <1>5, <1>8, <1>9 DEF HandlersGood, HandlersFit

\* A call that arrives asks for the lock; it reads at once only if no writer is there.
LEMMA SendGood ==
    ASSUME HandlersGood, NEW c \in Callers, NEW s, Head(s) \in Ops, Send(c, s)
    PROVE  HandlersGood' /\ handler'[c].op = Head(s)
           /\ \A g \in Handlers : g # c => handler'[g] = handler[g]
<1> DEFINE op == Head(s)
           new == [IdleHandler EXCEPT !.op = op, !.lock = Start(op).lock, !.at = Start(op).at]
<1>1. /\ new \in HandlerState /\ Fits(new) /\ new.op = op /\ new.at # "filling"
      /\ new.lock \notin {"pending", "writing"}
      /\ new.lock = "reading" => ~Announced
  BY StartFits
<1>2. handler' = [handler EXCEPT ![c] = new] /\ c \in Handlers
  BY HandlersAre DEF Send
<1> HIDE DEF new
<1>3. \A g \in Handlers : handler'[g] = IF g = c THEN new ELSE handler[g]
  BY <1>2 DEF HandlersGood
<1>4. handler' \in [Handlers -> HandlerState]
  BY <1>1, <1>2 DEF HandlersGood
<1>5. HandlersFit'
  BY <1>1, <1>3 DEF HandlersGood, HandlersFit
<1>6. new.lock = "reading" => \A g \in Handlers : handler[g].lock # "writing"
  BY <1>1 DEF Announced
<1>7. Exclusion'
  BY <1>1, <1>3, <1>6 DEF HandlersGood, Exclusion
<1>8. OneWriter'
  BY <1>1, <1>3 DEF HandlersGood, OneWriter
<1> QED BY <1>1, <1>2, <1>3, <1>4, <1>5, <1>7, <1>8 DEF HandlersGood

\* The handler whose caller left goes on, lock and all, under another name.
LEMMA LeaveGood ==
    ASSUME HandlersGood, faults \in 0..MaxFaults, NEW c \in Callers, Leave(c),
           Idle(faults + 1)
    PROVE  HandlersGood'
<1> DEFINE n == faults + 1
<1>1. n \in Handlers /\ c \in Handlers /\ n # c
  <2>1. n \in 1..MaxFaults
    BY BoundsAssumption DEF Leave
  <2> QED BY <2>1, HandlersAre
<1>2. handler' = [handler EXCEPT ![n] = handler[c], ![c] = IdleHandler]
  BY DEF Leave
<1> HIDE DEF n
<1>3. \A g \in Handlers : handler'[g] = IF g = c THEN IdleHandler
                                        ELSE IF g = n THEN handler[c] ELSE handler[g]
  BY <1>1, <1>2 DEF HandlersGood
<1>4. handler' \in [Handlers -> HandlerState]
  BY <1>1, <1>2, GoodHandler, IdleFits DEF HandlersGood
<1>5. HandlersFit'
  BY <1>1, <1>3, IdleFits DEF HandlersGood, HandlersFit
<1>6. Exclusion'
  BY <1>1, <1>3, IdleFits DEF HandlersGood, Exclusion
<1>7. OneWriter'
  BY <1>1, <1>3, IdleFits DEF HandlersGood, OneWriter
<1> QED BY <1>4, <1>5, <1>6, <1>7 DEF HandlersGood

----------------------------------------------------------------------------
(* Callers *)

\* The parts of TypeOK that tie the callers to their handlers.
TodoGood ==
    /\ TodoIsFunction
    /\ \A c \in Callers : todo[c] \in Todo(c)
    /\ \A c \in Callers : Waits(c) => todo[c] # <<>> /\ handler[c].op = Head(todo[c])
    /\ faults \in 0..MaxFaults
    /\ \A i \in 1..MaxFaults : i > faults => Idle(i)

LEMMA Parts == TypeOK /\ CallsInv <=> TodoGood /\ HandlersGood
BY DEF TypeOK, CallsInv, TodoGood, HandlersGood, Todo

\* A handler that is at work keeps its call.
LEMMA StepTodo ==
    ASSUME HandlersGood, TodoGood, NEW h \in Handlers, ~Idle(h), UNCHANGED <<todo, faults>>,
           \A g \in Handlers : g # h => Idle(g)' = Idle(g) /\ handler'[g].op = handler[g].op,
           handler'[h].op = handler[h].op
    PROVE  TodoGood'
<1>1. ASSUME NEW c \in Callers, Waits(c)'
      PROVE  todo[c] # <<>> /\ handler'[c].op = Head(todo[c])
  BY <1>1, HandlersAre DEF Waits, TodoGood
<1>2. ASSUME NEW i \in 1..MaxFaults, i > faults
      PROVE  Idle(i)'
  BY <1>2, HandlersAre DEF TodoGood
<1> QED BY <1>1, <1>2 DEF TodoGood, TodoIsFunction

LEMMA MoveTodo ==
    ASSUME HandlersGood, TodoGood, NEW h \in Handlers, ~Idle(h), NEW new,
           new.op = handler[h].op, Step(h, new)
    PROVE  TodoGood'
<1>1. /\ UNCHANGED <<todo, faults>>
      /\ \A g \in Handlers : handler'[g] = IF g = h THEN new ELSE handler[g]
  BY DEF Step, HandlersGood
<1> QED BY <1>1, StepTodo DEF Idle

LEMMA WorksTodo ==
    ASSUME HandlersGood, TodoGood, NEW h \in Handlers,
           \/ DecodeBody(h) \/ ReadJson(h) \/ ReadConf(h) \/ ExecEnds(h)
           \/ Fill(h) \/ SyncAWG(h) \/ Acquire(h) \/ Announce(h)
    PROVE  TodoGood'
<1> DEFINE x == handler[h]
<1>1. x \in HandlerState /\ Fits(x)
  BY GoodHandler
<1>2. ~Idle(h)
  BY <1>1 DEF DecodeBody, ReadJson, ReadConf, ExecEnds, Fill, SyncAWG, Acquire, Announce,
              Idle, Fits
<1>3. PICK new : new.op = x.op /\ Step(h, new)
  <2>1. \A at : [x EXCEPT !.at = at].op = x.op
    BY <1>1 DEF HandlerState
  <2>2. \A lock : [x EXCEPT !.lock = lock].op = x.op
    BY <1>1 DEF HandlerState
  <2>3. [x EXCEPT !.lock = "queued", !.at = "edit"].op = x.op
    BY <1>1 DEF HandlerState
  <2> QED BY <2>1, <2>2, <2>3 DEF DecodeBody, ReadJson, ReadConf, ExecEnds, Fill, SyncAWG,
                                  Acquire, Announce
<1> QED BY <1>2, <1>3, MoveTodo

LEMMA EditTodo ==
    ASSUME HandlersGood, TodoGood, NEW h \in Handlers, Edit(h)
    PROVE  TodoGood'
<1>1. ~Idle(h) /\ UNCHANGED <<todo, faults>>
  BY DEF Edit, Idle, Step
<1>2. \A g \in Handlers : handler[g] \in HandlerState
  BY GoodHandler
<1>3. CASE Step(h, [handler[h] EXCEPT !.at = "reply"])
  BY <1>1, <1>2, <1>3, MoveTodo DEF HandlerState
<1>4. CASE Step(h, [handler[h] EXCEPT !.at = "sync"])
  BY <1>1, <1>2, <1>4, MoveTodo DEF HandlerState
<1>5. CASE handler' = [g \in Handlers |->
                IF g = h THEN [handler[h] EXCEPT !.at = "filling"]
                ELSE [handler[g] EXCEPT !.stale = @ \/ handler[g].at \in {"conf", "exec"}]]
  <2>1. handler'[h].op = handler[h].op
    BY <1>2, <1>5 DEF HandlerState
  <2>2. ASSUME NEW g \in Handlers, g # h
        PROVE  handler'[g].at = handler[g].at /\ handler'[g].op = handler[g].op
    BY <1>2, <1>5, <2>2 DEF HandlerState
  <2> QED BY <1>1, <2>1, <2>2, StepTodo DEF Idle
<1> QED BY <1>3, <1>5, <1>4 DEF Edit

LEMMA ReplyTodo ==
    ASSUME HandlersGood, TodoGood, NEW h \in Handlers, Reply(h)
    PROVE  TodoGood'
<1>1. handler'[h] = IdleHandler /\ faults' = faults /\ ~Idle(h)
  BY DEF Reply, Unlocked, Idle
<1>2. ASSUME NEW g \in Handlers, g # h
      PROVE  handler'[g].at = handler[g].at /\ handler'[g].op = handler[g].op
  BY <1>2, GoodHandler DEF Reply, Unlocked, HandlerState
<1>3. ASSUME NEW i \in 1..MaxFaults, i > faults'
      PROVE  Idle(i)'
  BY <1>1, <1>2, <1>3, HandlersAre DEF TodoGood, Idle
<1>4. CASE h \in Callers
  <2>1. PICK rest \in Rest(h) : todo' = [todo EXCEPT ![h] = rest]
    BY <1>4 DEF Reply
  <2>2. Waits(h)
    BY <1>1 DEF Waits
  <2>3. todo[h] \in Todo(h) /\ todo[h] # <<>>
    BY <1>4, <2>2 DEF TodoGood
  <2>4. rest \in Todo(h)
    BY <1>4, <2>3, TodoIs DEF Rest, Todo
  <2>5. TodoIsFunction' /\ \A c \in Callers : todo'[c] = IF c = h THEN rest ELSE todo[c]
    BY <2>1 DEF TodoGood, TodoIsFunction
  <2>6. ASSUME NEW c \in Callers, Waits(c)'
        PROVE  c # h /\ Waits(c)
    BY <1>1, <1>2, <2>6, IdleFits, HandlersAre DEF Waits, Idle
  <2>7. \A c \in Callers : Waits(c)' => todo'[c] # <<>> /\ handler'[c].op = Head(todo'[c])
    BY <1>2, <2>5, <2>6, HandlersAre DEF TodoGood
  <2> QED BY <1>1, <1>3, <2>4, <2>5, <2>7 DEF TodoGood
<1>5. CASE h \notin Callers
  <2>1. todo' = todo
    BY <1>5 DEF Reply
  <2>2. \A c \in Callers : Waits(c)' => todo'[c] # <<>> /\ handler'[c].op = Head(todo'[c])
    BY <1>2, <1>5, <2>1, HandlersAre DEF TodoGood, Waits, Idle
  <2> QED BY <1>1, <1>3, <2>1, <2>2 DEF TodoGood, TodoIsFunction
<1> QED BY <1>4, <1>5

LEMMA SendTodo ==
    ASSUME HandlersGood, TodoGood, NEW c \in Callers, NEW s \in Todo(c), s # <<>>, Send(c, s)
    PROVE  TodoGood' /\ HandlersGood'
<1>1. Head(s) \in Ops
  BY TodoIs
<1>2. /\ HandlersGood' /\ handler'[c].op = Head(s)
      /\ \A g \in Handlers : g # c => handler'[g] = handler[g]
  BY <1>1, SendGood
<1>3. faults' = faults /\ todo' = [todo EXCEPT ![c] = s]
  BY DEF Send
<1>4. TodoIsFunction' /\ \A d \in Callers : todo'[d] = IF d = c THEN s ELSE todo[d]
  BY <1>3 DEF TodoGood, TodoIsFunction
<1>5. \A d \in Callers : Waits(d)' => todo'[d] # <<>> /\ handler'[d].op = Head(todo'[d])
  BY <1>2, <1>4, HandlersAre DEF TodoGood, Waits, Idle
<1>6. \A i \in 1..MaxFaults : i > faults' => Idle(i)'
  BY <1>2, <1>3, HandlersAre DEF TodoGood, Idle
<1> QED BY <1>2, <1>3, <1>4, <1>5, <1>6 DEF TodoGood

LEMMA LeaveTodo ==
    ASSUME HandlersGood, TodoGood, NEW c \in Callers, Leave(c)
    PROVE  TodoGood' /\ HandlersGood'
<1> DEFINE n == faults + 1
<1>1. n \in 1..MaxFaults /\ faults \in 0..MaxFaults /\ faults' = n
  BY BoundsAssumption DEF TodoGood, Leave
<1>2. Idle(n)
  BY <1>1 DEF TodoGood
<1>3. HandlersGood'
  BY <1>1, <1>2, LeaveGood
<1>4. n \in Handlers /\ n \notin Callers /\ c \in Handlers
  BY <1>1, HandlersAre
<1>5. \A g \in Handlers : handler'[g] = IF g = c THEN IdleHandler
                                        ELSE IF g = n THEN handler[c] ELSE handler[g]
  BY <1>4 DEF Leave, HandlersGood
<1>6. TodoIsFunction' /\ \A d \in Callers : todo'[d] = IF d = c THEN <<>> ELSE todo[d]
  BY DEF Leave, TodoGood, TodoIsFunction
<1> HIDE DEF n
<1>7. \A d \in Callers : Waits(d)' => todo'[d] # <<>> /\ handler'[d].op = Head(todo'[d])
  BY <1>4, <1>5, <1>6, IdleFits, HandlersAre DEF TodoGood, Waits, Idle
<1>8. \A i \in 1..MaxFaults : i > faults' => Idle(i)'
  BY <1>1, <1>4, <1>5, HandlersAre DEF TodoGood, Idle, n
<1> QED BY <1>1, <1>3, <1>6, <1>7, <1>8 DEF TodoGood, Todo

LEMMA CallsNext ==
    ASSUME TodoGood, HandlersGood, [Next]_vars
    PROVE  TodoGood' /\ HandlersGood'
<1>1. ASSUME NEW c \in Callers, Begin(c)
      PROVE  TodoGood' /\ HandlersGood'
  <2>1. PICK s \in Scripts(c) : Send(c, s)
    BY <1>1 DEF Begin
  <2> QED BY <2>1, ScriptsAre, SendTodo DEF Todo
<1>2. ASSUME NEW c \in Callers, GoOn(c)
      PROVE  TodoGood' /\ HandlersGood'
  BY <1>2, SendTodo DEF GoOn, TodoGood
<1>3. ASSUME NEW h \in Handlers, Works(h) \/ Announce(h)
      PROVE  TodoGood' /\ HandlersGood'
  BY <1>3, DecodeBodyGood, ReadJsonGood, EndsGood, FillGood, EditGood, AnnounceGood, AcquireGood,
     ReplyGood, WorksTodo, EditTodo, ReplyTodo DEF Works
<1>4. CASE UNCHANGED vars
  BY <1>4 DEF vars, TodoGood, HandlersGood, TodoIsFunction, Waits, Idle, HandlersFit, Exclusion,
              OneWriter
<1> QED BY <1>1, <1>2, <1>3, <1>4, LeaveTodo DEF Next

LEMMA CallsInit == Init => TodoGood /\ HandlersGood
<1> SUFFICES ASSUME Init PROVE TodoGood /\ HandlersGood
  OBVIOUS
<1>1. \A h \in Handlers : handler[h] = IdleHandler
  BY DEF Init
<1>2. HandlersGood
  BY <1>1, IdleFits DEF Init, HandlersGood, HandlersFit, Exclusion, OneWriter
<1>3. TodoIsFunction /\ \A c \in Callers : todo[c] = <<>>
  BY DEF Init, TodoIsFunction
<1> QED BY <1>1, <1>2, <1>3, HandlersAre, IdleFits, BoundsAssumption
        DEF Init, TodoGood, Todo, Waits, Idle

LEMMA CallsHold == Spec => [](TodoGood /\ HandlersGood)
BY CallsInit, CallsNext, PTL DEF Spec

\* The calls keep their types, and Server.mu is a readers-writer lock: files are
\* written by the one writer, beside whom nobody reads or is announced.
THEOREM CallsTypes == Spec => []TypeOK
BY CallsHold, Parts, PTL

\* A reading handler never meets a half-written file, and no file changes between its
\* first read and its last; of the interface, which a detached syncconf changes, nothing
\* is said.
THEOREM ReadsOneStateHolds == Spec => []ReadsOneState
<1>1. ASSUME HandlersGood
      PROVE  ReadsOneState
  <2>1. ASSUME NEW h \in Handlers
        PROVE  handler[h].stale = FALSE
    BY <1>1, <2>1, GoodHandler DEF Fits
  <2>2. ASSUME NEW h \in Handlers, Reads(h)
        PROVE  \A g \in Handlers : handler[g].at # "filling"
    <3>1. handler[h].lock = "reading" /\ handler[h].at # "filling"
      BY <1>1, <2>2, GoodHandler DEF Reads, Runs, Fits
    <3> QED BY <1>1, <3>1 DEF HandlersGood, Exclusion
  <2> QED BY <2>1, <2>2, Zenon DEF ReadsOneState
<1> QED BY <1>1, CallsHold, PTL
=============================================================================
