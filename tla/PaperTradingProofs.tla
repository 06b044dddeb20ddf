------------------------- MODULE PaperTradingProofs -------------------------
(***************************************************************************)
(* Paper trading: the lock serializes process(), no update is lost, the      *)
(* sessions implement PaperAccount and agree with the portfolio, position    *)
(* and trade frameworks.                                                    *)
(***************************************************************************)
EXTENDS PaperTrading, DataFacts

WorkLabels == {"step", "booked", "positioned", "analyzing"}
InLock == {"queued"} \union WorkLabels
Labels == {"idle", "publishing"} \union InLock

\* The queue of the lock: the tasks inside "async with" or waiting for it, each
\* once, and the only one that may be inside is the first.
LockOK ==
    /\ queue \in Seq(Tasks)
    /\ \A i, j \in DOMAIN queue : queue[i] = queue[j] => i = j
    /\ \A t \in Tasks : pc[t] \in InLock <=> \E i \in DOMAIN queue : queue[i] = t
    /\ \A t \in Tasks : pc[t] \in WorkLabels => queue[1] = t

\* The locals of a call.
CallsOK ==
    /\ pc \in [Tasks -> Labels]
    /\ DOMAIN update = Tasks /\ DOMAIN draft = Tasks /\ DOMAIN fill = Tasks
    /\ \A t \in Tasks :
          /\ pc[t] # "idle" => update[t] \in Updates
          /\ pc[t] \in {"idle", "queued", "step"} => fill[t] = NoFill

LockInv == LockOK /\ CallsOK

\* A session as the registry or a call has it.
IsSession(x) ==
    /\ DOMAIN x = DOMAIN _new_session
    /\ x.state # "unregistered"
    /\ IsSeq(x.equity_curve) /\ x.equity_curve # <<>>
    /\ IsSeq(x.returns)
    /\ IsSeq(x.history)
    /\ x.update_count \in Nat
    /\ x.fill_count \in Nat

\* The counts of a session, after n updates.
Counts(x, n) ==
    /\ x.update_count = n
    /\ Len(x.equity_curve) = n + 1
    /\ Len(x.returns) = n
    /\ x.fill_count = Len(x.history)

SessionsOK ==
    /\ DOMAIN sessions = Sessions
    /\ completed \in [Sessions -> Nat]
    /\ \A s \in Sessions :
          /\ sessions[s] # NoSession => IsSession(sessions[s])
          /\ Counts(load_session(s), completed[s])

\* What the call that has the lock has made of the session it loaded, at each of
\* its awaits.
DraftOK(t) ==
    LET x == draft[t]
        base == load_session(update[t].session)
    IN  /\ IsSession(x)
        /\ base.state \notin TERMINAL
        /\ x.update_count = base.update_count
        /\ x.fill_count = base.fill_count + (IF fill[t] = NoFill THEN 0 ELSE 1)
        /\ pc[t] # "analyzing" =>
              /\ x.equity_curve = base.equity_curve
              /\ x.returns = base.returns
              /\ x.history = base.history
        /\ pc[t] \in {"booked", "positioned"} => fill[t] # NoFill
        /\ pc[t] = "analyzing" =>
              /\ OneMore(base.equity_curve, x.equity_curve)
              /\ OneMore(base.returns, x.returns)
              /\ IF fill[t] = NoFill THEN x.history = base.history
                 ELSE OneMore(base.history, x.history)

DraftsOK == \A t \in Tasks : pc[t] \in WorkLabels => DraftOK(t)

\* The inductive invariant behind OneWorker and UpdatesCounted.
CountInv == LockInv /\ SessionsOK /\ DraftsOK

-----------------------------------------------------------------------------
(* The lock.                                                                *)

\* A call joins the queue.
LEMMA LockSubmit ==
    ASSUME LockInv, NEW t \in Tasks, pc[t] = "idle",
           queue' = Append(queue, t), pc' = [pc EXCEPT ![t] = "queued"]
    PROVE  LockOK'
<1> USE DEF LockInv, CallsOK, InLock, WorkLabels
<1>1. queue \in Seq(Tasks) /\ \A i \in DOMAIN queue : queue[i] # t
  BY DEF LockOK
<1>2. /\ queue' \in Seq(Tasks) /\ Len(queue) \in Nat
      /\ DOMAIN queue = 1..Len(queue) /\ DOMAIN queue' = 1..(Len(queue) + 1)
      /\ \A i \in DOMAIN queue : queue'[i] = queue[i]
      /\ queue'[Len(queue) + 1] = t
  BY <1>1
<1>3. \A i, j \in DOMAIN queue' : queue'[i] = queue'[j] => i = j
  BY <1>1, <1>2 DEF LockOK
<1>4. ASSUME NEW u \in Tasks
      PROVE  pc'[u] \in InLock <=> \E i \in DOMAIN queue' : queue'[i] = u
  <2>1. CASE u = t
    BY <1>2, <2>1
  <2>2. CASE u # t
    BY <1>2, <2>2 DEF LockOK
  <2> QED BY <2>1, <2>2
<1>5. ASSUME NEW u \in Tasks, pc'[u] \in WorkLabels PROVE queue'[1] = u
  <2>1. u # t /\ pc[u] \in WorkLabels
    BY <1>5
  <2>2. queue[1] = u /\ \E i \in DOMAIN queue : queue[i] = u
    BY <2>1 DEF LockOK
  <2> QED BY <1>2, <2>2
<1> QED BY <1>2, <1>3, <1>4, <1>5 DEF LockOK

\* The holder goes on, or the first waiter gets the lock.
LEMMA LockWithin ==
    ASSUME LockInv, NEW t \in Tasks, pc[t] \in InLock, queue[1] = t,
           NEW label \in WorkLabels, queue' = queue, pc' = [pc EXCEPT ![t] = label]
    PROVE  LockOK'
BY DEF LockInv, CallsOK, LockOK, InLock, WorkLabels

\* The holder leaves the lock.
LEMMA LockRelease ==
    ASSUME LockInv, NEW t \in Tasks, pc[t] \in InLock, queue[1] = t,
           queue' = Tail(queue), pc' = [pc EXCEPT ![t] = "publishing"]
    PROVE  LockOK'
<1> USE DEF LockInv, CallsOK, InLock, WorkLabels
<1>1. queue \in Seq(Tasks) /\ queue # <<>>
  BY DEF LockOK
<1>2. /\ queue' \in Seq(Tasks) /\ Len(queue) \in Nat \ {0}
      /\ DOMAIN queue = 1..Len(queue) /\ DOMAIN queue' = 1..(Len(queue) - 1)
      /\ \A i \in 1..(Len(queue) - 1) : queue'[i] = queue[i + 1]
  BY <1>1
<1>3. \A i, j \in DOMAIN queue' : queue'[i] = queue'[j] => i = j
  <2> SUFFICES ASSUME NEW i \in 1..(Len(queue) - 1), NEW j \in 1..(Len(queue) - 1),
                      queue'[i] = queue'[j]
               PROVE  i = j
    BY <1>2
  <2>1. i + 1 = j + 1
    BY <1>2 DEF LockOK
  <2> QED BY <1>2, <2>1
<1>4. \A i \in DOMAIN queue' : queue'[i] # t
  <2> SUFFICES ASSUME NEW i \in 1..(Len(queue) - 1), queue'[i] = t PROVE FALSE
    BY <1>2
  <2>1. i + 1 = 1
    BY <1>2 DEF LockOK
  <2> QED BY <1>2, <2>1
<1>5. ASSUME NEW u \in Tasks, u # t
      PROVE  (\E i \in DOMAIN queue' : queue'[i] = u)
                <=> (\E i \in DOMAIN queue : queue[i] = u)
  <2>1. ASSUME NEW i \in DOMAIN queue, queue[i] = u
        PROVE  \E k \in DOMAIN queue' : queue'[k] = u
    <3>1. i # 1
      BY <1>5, <2>1
    <3>2. i - 1 \in DOMAIN queue' /\ queue'[i - 1] = queue[(i - 1) + 1] /\ (i - 1) + 1 = i
      BY <1>2, <3>1
    <3> QED BY <2>1, <3>2
  <2>2. ASSUME NEW k \in DOMAIN queue', queue'[k] = u
        PROVE  \E i \in DOMAIN queue : queue[i] = u
    <3>1. k + 1 \in DOMAIN queue /\ queue[k + 1] = u
      BY <1>2, <2>2
    <3> QED BY <3>1
  <2> QED BY <2>1, <2>2
<1>6. \A u \in Tasks : pc'[u] \in InLock <=> \E i \in DOMAIN queue' : queue'[i] = u
  <2> SUFFICES ASSUME NEW u \in Tasks
               PROVE  pc'[u] \in InLock <=> \E i \in DOMAIN queue' : queue'[i] = u
    OBVIOUS
  <2>1. CASE u = t
    BY <1>4, <2>1
  <2>2. CASE u # t
    BY <1>5, <2>2 DEF LockOK
  <2> QED BY <2>1, <2>2
<1>7. \A u \in Tasks : pc'[u] \notin WorkLabels
  BY DEF LockOK
<1> QED BY <1>2, <1>3, <1>6, <1>7 DEF LockOK

\* A cancelled task leaves the lock, or its place among the waiters.
LEMMA LockLeave ==
    ASSUME LockInv, NEW t \in Tasks, NEW i \in DOMAIN queue, queue[i] = t,
           queue' = SubSeq(queue, 1, i - 1) \o SubSeq(queue, i + 1, Len(queue)),
           pc' = [pc EXCEPT ![t] = "idle"]
    PROVE  LockOK'
<1> USE DEF LockInv, CallsOK, InLock, WorkLabels
<1>1. queue \in Seq(Tasks) /\ i \in 1..Len(queue) /\ Len(queue) \in Nat
  BY DEF LockOK
<1>2. queue' \in Seq(Tasks) /\ Len(queue') = Len(queue) - 1
  BY <1>1, WithoutIs
<1> DEFINE at(k) == Skip(k, i)
<1>3. \A k \in DOMAIN queue' : queue'[k] = queue[at(k)]
  <2>1. \A k \in 1..Len(queue') : queue'[k] = queue[Skip(k, i)]
    BY <1>1, WithoutIs
  <2>2. DOMAIN queue' = 1..Len(queue')
    BY <1>2
  <2> QED BY <2>1, <2>2
<1>4. /\ DOMAIN queue' = 1..(Len(queue) - 1) /\ DOMAIN queue = 1..Len(queue)
      /\ \A k \in DOMAIN queue' : at(k) \in DOMAIN queue /\ at(k) # i
      /\ \A k, l \in DOMAIN queue' : at(k) = at(l) => k = l
      /\ \A j \in DOMAIN queue : j # i => \E k \in DOMAIN queue' : at(k) = j
  <2>1. DOMAIN queue' = 1..(Len(queue) - 1) /\ DOMAIN queue = 1..Len(queue)
    BY <1>1, <1>2
  <2>2. LET n == Len(queue)
        IN  /\ \A k \in 1..(n - 1) : at(k) \in 1..n /\ at(k) # i
            /\ \A k, l \in 1..(n - 1) : at(k) = at(l) => k = l
            /\ \A j \in 1..n : j # i => \E k \in 1..(n - 1) : at(k) = j
    BY <1>1, SkipIs
  <2> HIDE DEF at
  <2> QED BY <2>1, <2>2
<1> HIDE DEF at
<1>10. /\ \A k, l \in DOMAIN queue : queue[k] = queue[l] => k = l
       /\ \A u \in Tasks : pc[u] \in InLock <=> \E k \in DOMAIN queue : queue[k] = u
  BY DEF LockOK
<1>5. ASSUME NEW k \in DOMAIN queue', NEW l \in DOMAIN queue', queue'[k] = queue'[l]
      PROVE  k = l
  <2>1. queue[at(k)] = queue[at(l)] /\ at(k) \in DOMAIN queue /\ at(l) \in DOMAIN queue
    BY <1>3, <1>4, <1>5
  <2>2. at(k) = at(l)
    BY <1>10, <2>1
  <2> QED BY <1>4, <2>2
<1>11. ASSUME NEW k \in DOMAIN queue' PROVE queue'[k] # t
  <2>1. queue'[k] = queue[at(k)] /\ at(k) \in DOMAIN queue /\ at(k) # i
    BY <1>3, <1>4
  <2>2. queue[at(k)] # queue[i]
    BY <1>10, <2>1
  <2> QED BY <2>1, <2>2
<1>12. ASSUME NEW u \in Tasks, u # t
      PROVE  (\E k \in DOMAIN queue' : queue'[k] = u)
                <=> (\E j \in DOMAIN queue : queue[j] = u)
  <2>1. ASSUME NEW j \in DOMAIN queue, queue[j] = u
        PROVE  \E k \in DOMAIN queue' : queue'[k] = u
    <3>1. PICK k \in DOMAIN queue' : at(k) = j
      BY <1>4, <1>12, <2>1
    <3> QED BY <1>3, <2>1, <3>1
  <2>2. ASSUME NEW k \in DOMAIN queue', queue'[k] = u
        PROVE  \E j \in DOMAIN queue : queue[j] = u
    BY <1>3, <1>4, <2>2
  <2> QED BY <2>1, <2>2
<1>6. ASSUME NEW u \in Tasks
      PROVE  pc'[u] \in InLock <=> \E k \in DOMAIN queue' : queue'[k] = u
  <2>1. CASE u = t
    BY <1>11, <2>1
  <2>2. CASE u # t
    <3>1. pc'[u] = pc[u]
      BY <2>2
    <3> QED BY <1>10, <1>12, <2>2, <3>1
  <2> QED BY <2>1, <2>2
<1>7. ASSUME NEW u \in Tasks, pc'[u] \in WorkLabels PROVE queue'[1] = u
  <2>1. u # t /\ queue[1] = u
    BY <1>7 DEF LockOK
  <2>2. 1 \in DOMAIN queue' /\ at(1) = 1
    <3>1. i # 1
      BY <2>1
    <3> QED BY <1>1, <1>4, <3>1 DEF at, Skip
  <2> QED BY <1>3, <2>1, <2>2
<1> QED BY <1>2, <1>5, <1>6, <1>7 DEF LockOK

\* The lock is handed on in every step, and a call has its update until it returns.
LEMMA LockStep == LockInv /\ [PaperNext]_paper_vars => LockInv'
<1> SUFFICES ASSUME LockInv, [PaperNext]_paper_vars PROVE LockInv'
  OBVIOUS
<1> USE DEF LockInv
<1>1. ASSUME NEW t \in Tasks, NEW u \in Updates, Submit(t, u) PROVE LockInv'
  <2>1. LockOK'
    BY <1>1, LockSubmit DEF Submit, Goto
  <2>2. CallsOK'
    BY <1>1 DEF Submit, Goto, CallsOK, Labels, InLock, WorkLabels
  <2> QED BY <2>1, <2>2
<1>2. ASSUME NEW t \in Tasks, Begin(t) PROVE LockInv'
  <2> DEFINE session == load_session(update[t].session)
  <2>1. pc[t] = "queued" /\ queue[1] = t /\ UNCHANGED <<update, fill>>
    BY <1>2 DEF Begin
  <2>2. CASE Refuse(t, session) \/ CancelSession(t, session)
    <3>1. Release /\ Goto(t, "publishing") /\ draft' = draft
      BY <2>2 DEF Refuse, CancelSession
    <3>2. LockOK'
      BY <2>1, <3>1, LockRelease DEF Release, Goto, InLock
    <3>3. CallsOK'
      BY <2>1, <3>1 DEF Goto, CallsOK, Labels, InLock, WorkLabels
    <3> QED BY <3>2, <3>3
  <2>3. CASE StartPipeline(t, session)
    <3>1. queue' = queue /\ Goto(t, "step") /\ draft' = [draft EXCEPT ![t] = session]
      BY <2>3 DEF StartPipeline
    <3>2. LockOK'
      BY <2>1, <3>1, LockWithin DEF Goto, InLock, WorkLabels
    <3>3. CallsOK'
      BY <2>1, <3>1 DEF Goto, CallsOK, Labels, InLock, WorkLabels
    <3> QED BY <3>2, <3>3
  <2> QED BY <1>2, <2>2, <2>3 DEF Begin
<1>3. ASSUME NEW t \in Tasks, pc[t] \in WorkLabels, NEW label \in WorkLabels \ {"step"},
             pc' = [pc EXCEPT ![t] = label], UNCHANGED <<queue, update>>,
             DOMAIN draft' = Tasks, DOMAIN fill' = Tasks,
             \A x \in Tasks \ {t} : fill'[x] = fill[x]
      PROVE  LockInv'
  <2>1. LockOK'
    BY <1>3, LockWithin DEF LockOK, InLock
  <2>2. CallsOK'
    BY <1>3 DEF CallsOK, Labels, InLock, WorkLabels
  <2> QED BY <2>1, <2>2
<1>4. ASSUME NEW t \in Tasks, NothingToFill(t) \/ Position(t) \/ Trade(t) PROVE LockInv'
  <2>1. PICK label \in WorkLabels \ {"step"} : pc' = [pc EXCEPT ![t] = label]
    BY <1>4 DEF NothingToFill, Position, Trade, Goto, WorkLabels
  <2>2. pc[t] \in WorkLabels /\ UNCHANGED <<queue, update, fill>>
    BY <1>4 DEF NothingToFill, Position, Trade, WorkLabels
  <2>3. DOMAIN draft' = Tasks
    BY <1>4 DEF NothingToFill, Position, Trade, CallsOK
  <2>4. DOMAIN fill' = Tasks
    BY <2>2 DEF CallsOK
  <2> QED BY <1>3, <2>1, <2>2, <2>3, <2>4
<1>5. ASSUME NEW t \in Tasks, NEW side \in {"buy", "sell"}, Book(t, side) PROVE LockInv'
  <2>1. pc[t] \in WorkLabels /\ UNCHANGED <<queue, update>> /\ pc' = [pc EXCEPT ![t] = "booked"]
    BY <1>5 DEF Book, WorkLabels, Goto
  <2>2. DOMAIN draft' = Tasks /\ DOMAIN fill' = Tasks
    BY <1>5 DEF Book, CallsOK
  <2>3. \A x \in Tasks \ {t} : fill'[x] = fill[x]
    BY <1>5 DEF Book, CallsOK
  <2> QED BY <1>3, <2>1, <2>2, <2>3 DEF WorkLabels
<1>6. ASSUME NEW t \in Tasks, StepRaised(t) \/ Register(t) PROVE LockInv'
  <2>1. pc[t] \in WorkLabels /\ Release /\ Goto(t, "publishing") /\ UNCHANGED locals
    BY <1>6 DEF StepRaised, Register, WorkLabels
  <2>2. queue[1] = t
    BY <2>1 DEF LockOK
  <2>3. LockOK'
    BY <2>1, <2>2, LockRelease DEF Release, Goto, InLock
  <2>4. CallsOK'
    BY <2>1 DEF Goto, CallsOK, locals, Labels, InLock, WorkLabels
  <2> QED BY <2>3, <2>4
<1>7. ASSUME NEW t \in Tasks, Return(t), pc[t] = "publishing", queue' = queue PROVE LockInv'
  <2>1. LockOK'
    BY <1>7 DEF Return, Goto, LockOK, CallsOK, InLock, WorkLabels
  <2>2. CallsOK'
    BY <1>7 DEF Return, Goto, CallsOK, Labels
  <2> QED BY <2>1, <2>2
<1>8. ASSUME NEW t \in Tasks, Cancel(t) PROVE LockInv'
  <2>1. CASE pc[t] = "publishing" /\ queue' = queue
    BY <1>7, <1>8, <2>1 DEF Cancel
  <2>2. CASE \E i \in DOMAIN queue :
                /\ queue[i] = t
                /\ queue' = SubSeq(queue, 1, i - 1) \o SubSeq(queue, i + 1, Len(queue))
    <3>1. LockOK'
      BY <1>8, <2>2, LockLeave DEF Cancel, Return, Goto
    <3>2. CallsOK'
      BY <1>8 DEF Cancel, Return, Goto, CallsOK, Labels
    <3> QED BY <3>1, <3>2
  <2> QED BY <1>8, <2>1, <2>2 DEF Cancel
<1>9. ASSUME UNCHANGED paper_vars PROVE LockInv'
  BY <1>9 DEF paper_vars, locals, LockOK, CallsOK
<1> QED
  BY <1>1, <1>2, <1>4, <1>5, <1>6, <1>7, <1>8, <1>9 DEF PaperNext, Progress, Published

\* The lock invariant holds initially.
LEMMA LockInit == PaperInit => LockInv
BY DEF PaperInit, LockInv, LockOK, CallsOK, Labels, InLock, WorkLabels

\* The lock serializes the read-modify-write of process(): at most one call is
\* between loading a session and registering it, also when tasks are cancelled
\* while they hold the lock or wait for it.
THEOREM OneWorkerAlways == PaperSpec => []OneWorker
<1>1. LockInv => OneWorker
  BY DEF LockInv, LockOK, OneWorker, Working, WorkLabels
<1> QED BY <1>1, LockInit, LockStep, PTL DEF PaperSpec

-----------------------------------------------------------------------------
(* No update is lost.                                                       *)

\* Every loaded session is a session.
LEMMA LoadIs ==
    ASSUME SessionsOK, NEW s \in Sessions
    PROVE  IsSession(load_session(s)) /\ Counts(load_session(s), completed[s])
<1>1. IsSession(_new_session)
  <2>1. IsSeq(<<>>) /\ IsSeq(<<InitialCash>>)
    BY DEF IsSeq
  <2>2. <<InitialCash>> # <<>>
    OBVIOUS
  <2> QED BY <2>1, <2>2 DEF IsSession, _new_session
<1> QED BY <1>1 DEF SessionsOK, load_session

\* AddEquity adds a point to the equity curve and a return, and nothing else.
LEMMA AddEquityIs ==
    ASSUME NEW x, IsSession(x)
    PROVE  /\ IsSession(AddEquity(x))
           /\ OneMore(x.equity_curve, AddEquity(x).equity_curve)
           /\ OneMore(x.returns, AddEquity(x).returns)
           /\ AddEquity(x).history = x.history
           /\ AddEquity(x).update_count = x.update_count
           /\ AddEquity(x).fill_count = x.fill_count
           /\ AddEquity(x).portfolio_result = x.portfolio_result
           /\ AddEquity(x).position_result = x.position_result
           /\ AddEquity(x).trade_result = x.trade_result
           /\ AddEquity(x).trades = x.trades
           /\ AddEquity(x).total_commission = x.total_commission
<1>1. PICK e, r : AddEquity(x) = [x EXCEPT !.equity_curve = Append(x.equity_curve, e),
                                          !.returns = Append(x.returns, r)]
  BY DEF AddEquity
<1>2. /\ IsSeq(Append(x.equity_curve, e)) /\ OneMore(x.equity_curve, Append(x.equity_curve, e))
      /\ IsSeq(Append(x.returns, r)) /\ OneMore(x.returns, Append(x.returns, r))
      /\ Append(x.equity_curve, e) # <<>>
  BY AppendIs DEF IsSession
<1> QED BY <1>1, <1>2 DEF IsSession, _new_session

\* While a call works under the lock the others do not, so only its draft changes.
LEMMA DraftStep ==
    ASSUME LockInv, SessionsOK, NEW t \in Tasks, pc[t] \in WorkLabels \/ queue[1] = t,
           NEW label, pc' = [pc EXCEPT ![t] = label],
           UNCHANGED <<sessions, completed, update>>,
           label \in WorkLabels => DraftOK(t)'
    PROVE  SessionsOK' /\ DraftsOK'
<1>1. \A u \in Tasks \ {t} : pc'[u] \notin WorkLabels
  BY DEF LockInv, LockOK, CallsOK
<1>2. DraftsOK'
  BY <1>1 DEF DraftsOK, LockInv, CallsOK
<1> QED BY <1>2 DEF SessionsOK, load_session

\* A step that registers nothing and after which the caller does not work.
LEMMA OutsideStep ==
    ASSUME CountInv, NEW t \in Tasks, NEW label, label \notin WorkLabels,
           pc' = [pc EXCEPT ![t] = label], UNCHANGED <<sessions, completed>>,
           \A u \in Tasks \ {t} : /\ update'[u] = update[u] /\ draft'[u] = draft[u]
                                  /\ fill'[u] = fill[u]
    PROVE  SessionsOK' /\ DraftsOK'
<1>1. \A u \in Tasks : pc'[u] \in WorkLabels => u # t /\ pc'[u] = pc[u]
  BY DEF CountInv, LockInv, CallsOK
<1>2. \A s : load_session(s)' = load_session(s)
  BY DEF load_session
<1>3. DraftsOK'
  <2> SUFFICES ASSUME NEW u \in Tasks, pc'[u] \in WorkLabels PROVE DraftOK(u)'
    BY DEF DraftsOK
  <2>1. /\ u # t /\ pc'[u] = pc[u] /\ update'[u] = update[u] /\ draft'[u] = draft[u]
        /\ fill'[u] = fill[u] /\ DraftOK(u)
    BY <1>1 DEF CountInv, DraftsOK
  <2> QED BY <1>2, <2>1 DEF DraftOK
<1> QED BY <1>3 DEF SessionsOK, load_session, CountInv

\* A call that gets the lock: refused, cancelling the session, or starting to work.
LEMMA BeginCounts ==
    ASSUME CountInv, NEW t \in Tasks, Begin(t)
    PROVE  SessionsOK' /\ DraftsOK'
<1> USE DEF CountInv, LockInv
<1> DEFINE s == update[t].session
           session == load_session(s)
<1>1. pc[t] = "queued" /\ queue[1] = t /\ UNCHANGED <<update, fill, completed>>
  BY DEF Begin, counters
<1>2. s \in Sessions
  BY <1>1, PaperAssumption DEF CallsOK
<1>3. IsSession(session) /\ Counts(session, completed[s])
  BY <1>2, LoadIs
<1>4. \A u \in Tasks : pc[u] \notin WorkLabels
  BY <1>1 DEF LockOK, WorkLabels
<1> HIDE DEF session
<1>5. CASE Refuse(t, session)
  BY <1>1, <1>5, OutsideStep DEF Refuse, Goto, WorkLabels
<1>6. CASE CancelSession(t, session)
  <2>1. /\ sessions' = [sessions EXCEPT ![s] = [session EXCEPT !.state = "cancelled"]]
        /\ pc' = [pc EXCEPT ![t] = "publishing"]
    BY <1>6 DEF CancelSession, Goto
  <2>2. DraftsOK'
    BY <1>4, <2>1 DEF DraftsOK, CallsOK, WorkLabels
  <2>3. /\ IsSession([session EXCEPT !.state = "cancelled"])
        /\ Counts([session EXCEPT !.state = "cancelled"], completed[s])
    BY <1>3 DEF IsSession, Counts, _new_session
  <2>4. [session EXCEPT !.state = "cancelled"] # NoSession
    BY <2>3 DEF IsSession, NoSession
  <2>5. SessionsOK'
    <3>1. sessions'[s] = [session EXCEPT !.state = "cancelled"] /\ DOMAIN sessions' = Sessions
      BY <1>2, <2>1 DEF SessionsOK
    <3>2. \A x \in Sessions \ {s} : sessions'[x] = sessions[x]
      BY <2>1 DEF SessionsOK
    <3> QED BY <1>1, <2>3, <2>4, <3>1, <3>2 DEF SessionsOK, load_session
  <2> QED BY <2>2, <2>5
<1>7. CASE StartPipeline(t, session)
  <2>1. /\ draft' = [draft EXCEPT ![t] = session]
        /\ pc' = [pc EXCEPT ![t] = "step"]
        /\ sessions' = sessions
        /\ session.state \notin TERMINAL
    BY <1>7 DEF StartPipeline, Goto
  <2>2. /\ draft'[t] = session /\ pc'[t] = "step" /\ fill'[t] = NoFill
        /\ load_session(update[t].session)' = session
    BY <1>1, <2>1 DEF CallsOK, load_session, session
  <2>3. DraftOK(t)'
    BY <1>3, <2>1, <2>2 DEF DraftOK, IsSession
  <2> QED BY <1>1, <2>1, <2>3, DraftStep
<1> QED BY <1>5, <1>6, <1>7 DEF Begin, session

\* _step() has nothing to fill.
LEMMA NothingCounts ==
    ASSUME CountInv, NEW t \in Tasks, NothingToFill(t)
    PROVE  SessionsOK' /\ DraftsOK'
<1> USE DEF CountInv, LockInv
<1>1. /\ pc[t] = "step" /\ UNCHANGED <<sessions, completed, update, fill>>
      /\ draft' = [draft EXCEPT ![t] = AddEquity(draft[t])]
      /\ pc' = [pc EXCEPT ![t] = "analyzing"]
  BY DEF NothingToFill, Goto, counters
<1>2. DraftOK(t) /\ fill[t] = NoFill
  BY <1>1 DEF DraftsOK, WorkLabels, CallsOK
<1>3. /\ draft'[t] = AddEquity(draft[t]) /\ pc'[t] = "analyzing" /\ fill'[t] = NoFill
      /\ load_session(update[t].session)' = load_session(update[t].session)
  BY <1>1, <1>2 DEF CallsOK, load_session
<1>4. DraftOK(t)'
  BY <1>1, <1>2, <1>3, AddEquityIs DEF DraftOK
<1> QED BY <1>1, <1>4, DraftStep DEF WorkLabels

\* A fill is counted, whether or not the portfolio takes it.
LEMMA BookCounts ==
    ASSUME CountInv, NEW t \in Tasks, NEW side, Book(t, side)
    PROVE  SessionsOK' /\ DraftsOK'
<1> USE DEF CountInv, LockInv
<1>1. /\ pc[t] = "step" /\ UNCHANGED <<sessions, completed, update>>
      /\ pc' = [pc EXCEPT ![t] = "booked"]
      /\ fill' = [fill EXCEPT ![t] = broker_fill(update[t], side)]
  BY DEF Book, Goto, counters
<1>2. DraftOK(t) /\ fill[t] = NoFill
  BY <1>1 DEF DraftsOK, WorkLabels, CallsOK
<1>3. broker_fill(update[t], side) # NoFill
  <2>1. "price" \in DOMAIN broker_fill(update[t], side)
    BY DEF broker_fill, PaperFill
  <2> QED BY <2>1 DEF NoFill
<1>4. /\ pc'[t] = "booked" /\ fill'[t] # NoFill
      /\ load_session(update[t].session)' = load_session(update[t].session)
  BY <1>1, <1>3 DEF CallsOK, load_session
<1>5. PICK c, r : \/ draft' = [draft EXCEPT ![t] = [draft[t] EXCEPT
                                  !.fill_count = @ + 1, !.total_commission = c]]
                  \/ draft' = [draft EXCEPT ![t] = [[draft[t] EXCEPT
                                  !.fill_count = @ + 1, !.total_commission = c]
                                     EXCEPT !.portfolio_result = r]]
  BY DEF Book
<1>6. /\ IsSession(draft'[t])
      /\ draft'[t].equity_curve = draft[t].equity_curve
      /\ draft'[t].returns = draft[t].returns
      /\ draft'[t].history = draft[t].history
      /\ draft'[t].update_count = draft[t].update_count
      /\ draft'[t].fill_count = draft[t].fill_count + 1
  <2>1. IsSession(draft[t])
    BY <1>2 DEF DraftOK
  <2>2. PICK y : /\ draft' = [draft EXCEPT ![t] = y]
                 /\ \/ y = [draft[t] EXCEPT !.fill_count = @ + 1, !.total_commission = c]
                    \/ y = [[draft[t] EXCEPT !.fill_count = @ + 1, !.total_commission = c]
                              EXCEPT !.portfolio_result = r]
    BY <1>5
  <2>3. draft'[t] = y
    BY <2>2 DEF CallsOK
  <2> DEFINE z == [draft[t] EXCEPT !.fill_count = @ + 1, !.total_commission = c]
  <2>4. /\ IsSession(z)
        /\ z.equity_curve = draft[t].equity_curve
        /\ z.returns = draft[t].returns
        /\ z.history = draft[t].history
        /\ z.update_count = draft[t].update_count
        /\ z.fill_count = draft[t].fill_count + 1
    BY <2>1 DEF IsSession, _new_session
  <2>5. y = z \/ y = [z EXCEPT !.portfolio_result = r]
    BY <2>2
  <2> HIDE DEF z
  <2> QED BY <2>3, <2>4, <2>5 DEF IsSession, _new_session
<1>7. load_session(update[t].session).fill_count \in Nat
  BY <1>1, LoadIs, PaperAssumption DEF CallsOK, IsSession
<1>8. draft'[t].fill_count = load_session(update[t].session).fill_count + 1
  BY <1>2, <1>6, <1>7 DEF DraftOK
<1>9. DraftOK(t)'
  BY <1>1, <1>2, <1>4, <1>6, <1>8 DEF DraftOK
<1> QED BY <1>1, <1>9, DraftStep DEF WorkLabels

\* The position result is all that _position() changes of the draft.
LEMMA PositionCounts ==
    ASSUME CountInv, NEW t \in Tasks, Position(t)
    PROVE  SessionsOK' /\ DraftsOK'
<1> USE DEF CountInv, LockInv
<1>1. /\ pc[t] = "booked" /\ UNCHANGED <<sessions, completed, update, fill>>
      /\ pc' = [pc EXCEPT ![t] = "positioned"]
  BY DEF Position, Goto, counters
<1>2. DraftOK(t)
  BY <1>1 DEF DraftsOK, WorkLabels
<1>3. \/ draft' = draft
      \/ \E r : draft' = [draft EXCEPT ![t].position_result = r]
  BY DEF Position
<1>4. /\ IsSession(draft'[t])
      /\ draft'[t].equity_curve = draft[t].equity_curve
      /\ draft'[t].returns = draft[t].returns
      /\ draft'[t].history = draft[t].history
      /\ draft'[t].update_count = draft[t].update_count
      /\ draft'[t].fill_count = draft[t].fill_count
  BY <1>2, <1>3 DEF CallsOK, DraftOK, IsSession, _new_session
<1>5. /\ pc'[t] = "positioned" /\ fill'[t] = fill[t]
      /\ load_session(update[t].session)' = load_session(update[t].session)
  BY <1>1 DEF CallsOK, load_session
<1>6. DraftOK(t)'
  BY <1>1, <1>2, <1>4, <1>5 DEF DraftOK
<1> QED BY <1>1, <1>6, DraftStep DEF WorkLabels

\* _trade() adds the fill to the history and a point to the equity curve.
LEMMA TradeCounts ==
    ASSUME CountInv, NEW t \in Tasks, Trade(t)
    PROVE  SessionsOK' /\ DraftsOK'
<1> USE DEF CountInv, LockInv
<1>1. /\ pc[t] = "positioned" /\ UNCHANGED <<sessions, completed, update, fill>>
      /\ pc' = [pc EXCEPT ![t] = "analyzing"]
  BY DEF Trade, Goto, counters
<1>2. DraftOK(t) /\ fill[t] # NoFill
  BY <1>1 DEF DraftsOK, WorkLabels, DraftOK
<1>3. PICK x : /\ x = draft[t] \/ \E r : x = [draft[t] EXCEPT !.trade_result = r]
               /\ draft' = [draft EXCEPT ![t] = AddEquity([x EXCEPT
                     !.trades = _upsert_trade(@, x.trade_result),
                     !.history = Append(@, fill[t])])]
  BY DEF Trade
<1> DEFINE y == [x EXCEPT !.trades = _upsert_trade(@, x.trade_result),
                          !.history = Append(@, fill[t])]
<1>4. /\ IsSession(x)
      /\ x.equity_curve = draft[t].equity_curve
      /\ x.returns = draft[t].returns
      /\ x.history = draft[t].history
      /\ x.update_count = draft[t].update_count
      /\ x.fill_count = draft[t].fill_count
  BY <1>2, <1>3 DEF DraftOK, IsSession, _new_session
<1>5. IsSeq(Append(x.history, fill[t])) /\ OneMore(x.history, Append(x.history, fill[t]))
  BY <1>4, AppendIs DEF IsSession
<1>6. /\ IsSession(y)
      /\ y.equity_curve = x.equity_curve
      /\ y.returns = x.returns
      /\ y.history = Append(x.history, fill[t])
      /\ y.update_count = x.update_count
      /\ y.fill_count = x.fill_count
  BY <1>4, <1>5 DEF IsSession, _new_session
<1>7. draft'[t] = AddEquity(y)
  BY <1>3 DEF CallsOK
<1> HIDE DEF y
<1>8. /\ IsSession(draft'[t])
      /\ OneMore(draft[t].equity_curve, draft'[t].equity_curve)
      /\ OneMore(draft[t].returns, draft'[t].returns)
      /\ OneMore(draft[t].history, draft'[t].history)
      /\ draft'[t].update_count = draft[t].update_count
      /\ draft'[t].fill_count = draft[t].fill_count
  <2>1. /\ IsSession(AddEquity(y))
        /\ OneMore(y.equity_curve, AddEquity(y).equity_curve)
        /\ OneMore(y.returns, AddEquity(y).returns)
        /\ AddEquity(y).history = y.history
        /\ AddEquity(y).update_count = y.update_count
        /\ AddEquity(y).fill_count = y.fill_count
    BY <1>6, AddEquityIs
  <2> QED BY <1>4, <1>5, <1>6, <1>7, <2>1
<1>9. /\ pc'[t] = "analyzing" /\ fill'[t] = fill[t]
      /\ load_session(update[t].session)' = load_session(update[t].session)
  BY <1>1 DEF CallsOK, load_session
<1>10. DraftOK(t)'
  BY <1>1, <1>2, <1>8, <1>9 DEF DraftOK
<1> QED BY <1>1, <1>10, DraftStep DEF WorkLabels

\* What register() stores has one update, one point and at most one fill more.
LEMMA RegisterCounts ==
    ASSUME CountInv, NEW t \in Tasks, Register(t)
    PROVE  SessionsOK' /\ DraftsOK'
<1> USE DEF CountInv, LockInv
<1> DEFINE s == update[t].session
           base == load_session(s)
           x == new_session(t)
<1>1. /\ pc[t] = "analyzing" /\ pc' = [pc EXCEPT ![t] = "publishing"]
      /\ sessions' = [sessions EXCEPT ![s] = x]
      /\ completed' = [completed EXCEPT ![s] = @ + 1]
  BY DEF Register, Goto
<1>2. DraftOK(t) /\ s \in Sessions
  BY <1>1, PaperAssumption DEF DraftsOK, WorkLabels, CallsOK
<1>3. IsSession(base) /\ Counts(base, completed[s]) /\ completed[s] \in Nat
  BY <1>2, LoadIs DEF SessionsOK
<1>4. /\ IsSession(x)
      /\ x.equity_curve = draft[t].equity_curve
      /\ x.returns = draft[t].returns
      /\ x.history = draft[t].history
      /\ x.update_count = draft[t].update_count + 1
      /\ x.fill_count = draft[t].fill_count
  BY <1>2 DEF new_session, DraftOK, IsSession, _new_session
<1> HIDE DEF x, base
<1>5. /\ OneMore(base.equity_curve, x.equity_curve)
      /\ OneMore(base.returns, x.returns)
      /\ x.update_count = base.update_count + 1
      /\ x.fill_count = base.fill_count + (IF fill[t] = NoFill THEN 0 ELSE 1)
      /\ IF fill[t] = NoFill THEN x.history = base.history
         ELSE OneMore(base.history, x.history)
  BY <1>1, <1>2, <1>4 DEF DraftOK, base
<1>6. Len(x.equity_curve) = Len(base.equity_curve) + 1 /\ Len(x.returns) = Len(base.returns) + 1
  BY <1>3, <1>5, OneMoreIs DEF IsSession
<1>7. Len(x.history) = Len(base.history) + (IF fill[t] = NoFill THEN 0 ELSE 1)
  <2>1. CASE fill[t] = NoFill
    <3>1. Len(base.history) \in Nat
      BY <1>3 DEF IsSession, Counts
    <3> QED BY <1>5, <2>1, <3>1
  <2>2. CASE fill[t] # NoFill
    BY <1>3, <1>5, <2>2, OneMoreIs DEF IsSession
  <2> QED BY <2>1, <2>2
<1>8. Counts(x, completed[s] + 1)
  BY <1>3, <1>5, <1>6, <1>7 DEF Counts, IsSession
<1>9. x # NoSession
  BY <1>4 DEF IsSession, NoSession
<1>10. SessionsOK'
  <2>1. /\ sessions'[s] = x /\ DOMAIN sessions' = Sessions
        /\ completed'[s] = completed[s] + 1 /\ completed' \in [Sessions -> Nat]
    BY <1>1, <1>2, <1>3 DEF SessionsOK
  <2>2. \A z \in Sessions \ {s} : sessions'[z] = sessions[z] /\ completed'[z] = completed[z]
    BY <1>1 DEF SessionsOK
  <2> QED BY <1>4, <1>8, <1>9, <2>1, <2>2 DEF SessionsOK, load_session
<1>11. DraftsOK'
  BY <1>1 DEF DraftsOK, LockOK, CallsOK, WorkLabels
<1> QED BY <1>10, <1>11

\* Every step preserves the invariant.
LEMMA CountStep == CountInv /\ [PaperNext]_paper_vars => CountInv'
<1> SUFFICES ASSUME CountInv, [PaperNext]_paper_vars PROVE SessionsOK' /\ DraftsOK'
  BY LockStep DEF CountInv
<1>1. ASSUME NEW t \in Tasks, NEW u \in Updates, Submit(t, u) PROVE SessionsOK' /\ DraftsOK'
  BY <1>1, OutsideStep DEF Submit, Goto, WorkLabels, CountInv, LockInv, CallsOK
<1>2. ASSUME NEW t \in Tasks, StepRaised(t) PROVE SessionsOK' /\ DraftsOK'
  BY <1>2, OutsideStep DEF StepRaised, Goto, WorkLabels, locals, counters
<1>3. ASSUME NEW t \in Tasks, Return(t) PROVE SessionsOK' /\ DraftsOK'
  BY <1>3, OutsideStep DEF Return, Goto, WorkLabels, CountInv, LockInv, CallsOK
<1>4. ASSUME UNCHANGED paper_vars PROVE SessionsOK' /\ DraftsOK'
  BY <1>4 DEF paper_vars, locals, counters, CountInv, SessionsOK, DraftsOK, DraftOK, load_session
<1> QED
  BY <1>1, <1>2, <1>3, <1>4, BeginCounts, NothingCounts, BookCounts, PositionCounts,
     TradeCounts, RegisterCounts
  DEF PaperNext, Progress, Published, Cancel

\* The counts hold initially.
LEMMA CountInit == PaperInit => CountInv
<1> SUFFICES ASSUME PaperInit PROVE CountInv
  OBVIOUS
<1>1. SessionsOK
  <2>1. \A s \in Sessions : load_session(s) = _new_session
    BY DEF PaperInit, load_session
  <2>2. Counts(_new_session, 0)
    BY DEF Counts, _new_session
  <2> QED BY <2>1, <2>2 DEF PaperInit, SessionsOK
<1>2. DraftsOK
  BY DEF PaperInit, DraftsOK, WorkLabels
<1> QED BY <1>1, <1>2, LockInit DEF CountInv

\* Every update that process() answered PROCESSED or COMPLETED is in its session,
\* with its point of the equity curve and its fill, whichever calls ran at the same
\* time, failed or were cancelled.
THEOREM UpdatesCountedAlways == PaperSpec => []UpdatesCounted
<1>1. CountInv => UpdatesCounted
  BY DEF CountInv, SessionsOK, Counts, load_session, UpdatesCounted, Running,
         PaperTradingSummary
<1> QED BY <1>1, CountInit, CountStep, PTL DEF PaperSpec

-----------------------------------------------------------------------------
(* Every fill is announced once, unless a task is cancelled.                *)

\* The fills of a session are those announced and those that calls are announcing.
AnnouncedOK ==
    /\ executed \in [Sessions -> Nat]
    /\ \A s \in Sessions :
          /\ IsFiniteSet(announcing(s))
          /\ load_session(s).fill_count = executed[s] + Cardinality(announcing(s))

\* Task t has a fill to announce.
Announces(t) == pc[t] = "publishing" /\ fill[t] # NoFill

\* A step after which the same calls are announcing.
LEMMA AnnounceQuiet ==
    ASSUME AnnouncedOK, NEW t \in Tasks,
           \A u \in Tasks \ {t} : /\ pc'[u] = pc[u] /\ update'[u] = update[u]
                                  /\ fill'[u] = fill[u],
           ~Announces(t), ~Announces(t)', executed' = executed,
           \A s \in Sessions : load_session(s)'.fill_count = load_session(s).fill_count
    PROVE  AnnouncedOK'
<1>1. \A s : announcing(s)' = announcing(s)
  BY DEF announcing, Announces
<1> QED BY <1>1 DEF AnnouncedOK

\* register() stores a session whose new fill the call is about to announce.
LEMMA AnnounceRegister ==
    ASSUME CountInv, AnnouncedOK, NEW t \in Tasks, Register(t)
    PROVE  AnnouncedOK'
<1> USE DEF CountInv, LockInv
<1> DEFINE x == new_session(t)
<1>0. PICK s \in Sessions : s = update[t].session
  BY PaperAssumption DEF CallsOK, Register
<1>1. /\ pc[t] = "analyzing" /\ pc' = [pc EXCEPT ![t] = "publishing"]
      /\ sessions' = [sessions EXCEPT ![s] = x]
      /\ UNCHANGED <<update, fill, executed>>
  BY <1>0 DEF Register, Goto, locals
<1>2. DraftOK(t) /\ IsSession(draft[t])
  BY <1>1 DEF DraftsOK, WorkLabels, DraftOK
<1>3. x.fill_count = draft[t].fill_count /\ x.state \in {"completed", "running"}
  BY <1>2 DEF new_session, IsSession, _new_session
<1> HIDE DEF x
<1>4. x # NoSession
  BY <1>3 DEF NoSession
<1>5. load_session(s)' = x /\ \A z \in Sessions \ {s} : load_session(z)' = load_session(z)
  BY <1>1, <1>4 DEF load_session, SessionsOK
<1>6. pc'[t] = "publishing" /\ \A u \in Tasks \ {t} : pc'[u] = pc[u]
  BY <1>1 DEF CallsOK
<1>7. CASE fill[t] = NoFill
  <2>1. load_session(s).fill_count \in Nat
    BY LoadIs DEF IsSession
  <2>2. x.fill_count = load_session(s).fill_count
    BY <1>0, <1>2, <1>3, <1>7, <2>1 DEF DraftOK
  <2>3. ~Announces(t) /\ ~Announces(t)'
    BY <1>1, <1>7 DEF Announces
  <2> QED BY <1>1, <1>5, <1>6, <2>2, <2>3, AnnounceQuiet
<1>8. CASE fill[t] # NoFill
  <2>1. x.fill_count = load_session(s).fill_count + 1
    BY <1>0, <1>2, <1>3, <1>8 DEF DraftOK
  <2>2. \A z \in Sessions \ {s} : announcing(z)' = announcing(z)
    BY <1>0, <1>1, <1>6 DEF announcing
  <2>3. t \notin announcing(s) /\ announcing(s)' = announcing(s) \union {t}
    BY <1>0, <1>1, <1>6, <1>8 DEF announcing
  <2>4. /\ IsFiniteSet(announcing(s)')
        /\ Cardinality(announcing(s)') = Cardinality(announcing(s)) + 1
    BY <2>3, FS_AddElement DEF AnnouncedOK
  <2>5. Cardinality(announcing(s)) \in Nat
    BY FS_CardinalityType DEF AnnouncedOK
  <2> HIDE DEF x
  <2>6. load_session(s)'.fill_count = executed'[s] + Cardinality(announcing(s)')
    BY <1>1, <1>5, <2>1, <2>4, <2>5 DEF AnnouncedOK
  <2> QED BY <1>1, <1>5, <2>2, <2>4, <2>6 DEF AnnouncedOK
<1> QED BY <1>7, <1>8

\* PaperTradeExecuted is published: the call has nothing to announce any more.
LEMMA AnnouncePublished ==
    ASSUME CountInv, AnnouncedOK, NEW t \in Tasks, Published(t)
    PROVE  AnnouncedOK'
<1> USE DEF CountInv, LockInv
<1>0. PICK s \in Sessions : s = update[t].session
  BY PaperAssumption DEF CallsOK, Published
<1>1. /\ pc[t] = "publishing" /\ sessions' = sessions
      /\ pc'[t] = "idle"
      /\ \A u \in Tasks \ {t} : pc'[u] = pc[u] /\ update'[u] = update[u] /\ fill'[u] = fill[u]
  BY DEF Published, Return, Goto, CallsOK
<1>2. \A z : load_session(z)' = load_session(z)
  BY <1>1 DEF load_session
<1>3. CASE fill[t] = NoFill
  <2>1. executed' = executed
    BY <1>3 DEF Published
  <2> QED BY <1>1, <1>2, <1>3, <2>1, AnnounceQuiet DEF Announces
<1>4. CASE fill[t] # NoFill
  <2>1. executed' = [executed EXCEPT ![s] = @ + 1]
    BY <1>0, <1>4 DEF Published
  <2>2. \A z \in Sessions \ {s} : announcing(z)' = announcing(z)
    BY <1>0, <1>1 DEF announcing
  <2>3. t \in announcing(s) /\ announcing(s)' = announcing(s) \ {t}
    BY <1>0, <1>1, <1>4 DEF announcing
  <2>4. /\ IsFiniteSet(announcing(s)')
        /\ Cardinality(announcing(s)') = Cardinality(announcing(s)) - 1
    BY <2>3, FS_RemoveElement DEF AnnouncedOK
  <2>5. Cardinality(announcing(s)) \in Nat
    BY FS_CardinalityType DEF AnnouncedOK
  <2>6. executed' \in [Sessions -> Nat]
    BY <2>1 DEF AnnouncedOK
  <2>7. load_session(s)'.fill_count = executed'[s] + Cardinality(announcing(s)')
    BY <1>2, <2>1, <2>4, <2>5 DEF AnnouncedOK
  <2>8. \A z \in Sessions \ {s} : executed'[z] = executed[z]
    BY <2>1 DEF AnnouncedOK
  <2> QED BY <1>2, <2>2, <2>4, <2>6, <2>7, <2>8 DEF AnnouncedOK
<1> QED BY <1>3, <1>4

\* Every other step leaves the announcements as they are.
LEMMA AnnounceStep ==
    ASSUME ~Cancellable, CountInv, AnnouncedOK, [PaperNext]_paper_vars
    PROVE  AnnouncedOK'
<1> USE DEF CountInv, LockInv
<1>1. ASSUME NEW t \in Tasks, NEW label, pc' = [pc EXCEPT ![t] = label],
             pc[t] # "publishing", label = "publishing" => fill'[t] = NoFill,
             \A u \in Tasks \ {t} : update'[u] = update[u] /\ fill'[u] = fill[u],
             executed' = executed, sessions' = sessions
      PROVE  AnnouncedOK'
  <2>1. pc'[t] = label /\ \A u \in Tasks \ {t} : pc'[u] = pc[u]
    BY <1>1 DEF CallsOK
  <2>2. \A s \in Sessions : load_session(s)' = load_session(s)
    BY <1>1 DEF load_session
  <2> QED BY <1>1, <2>1, <2>2, AnnounceQuiet DEF Announces
<1>2. ASSUME NEW t \in Tasks, NEW u \in Updates, Submit(t, u) PROVE AnnouncedOK'
  BY <1>1, <1>2 DEF Submit, Goto, CallsOK
<1>3. ASSUME NEW t \in Tasks, Begin(t) PROVE AnnouncedOK'
  <2> DEFINE session == load_session(update[t].session)
  <2>1. pc[t] = "queued" /\ fill[t] = NoFill /\ UNCHANGED <<update, fill, executed>>
    BY <1>3 DEF Begin, counters, CallsOK
  <2>2. CASE Refuse(t, session) \/ StartPipeline(t, session)
    BY <1>1, <2>1, <2>2 DEF Refuse, StartPipeline, Goto
  <2>3. CASE CancelSession(t, session)
    <3>0. PICK s \in Sessions : s = update[t].session
      BY <2>1, PaperAssumption DEF CallsOK
    <3> DEFINE x == [load_session(s) EXCEPT !.state = "cancelled"]
    <3>1. sessions' = [sessions EXCEPT ![s] = x] /\ pc' = [pc EXCEPT ![t] = "publishing"]
      BY <2>3, <3>0 DEF CancelSession, Goto
    <3>2. x.state = "cancelled" /\ x.fill_count = load_session(s).fill_count
      BY LoadIs DEF IsSession, _new_session
    <3> HIDE DEF x
    <3>3. \A z \in Sessions : load_session(z)'.fill_count = load_session(z).fill_count
      BY <3>1, <3>2 DEF load_session, SessionsOK, NoSession
    <3>4. pc'[t] = "publishing" /\ \A u \in Tasks \ {t} : pc'[u] = pc[u]
      BY <3>1 DEF CallsOK
    <3> QED BY <2>1, <3>3, <3>4, AnnounceQuiet DEF Announces
  <2> QED BY <1>3, <2>2, <2>3 DEF Begin
<1>4. ASSUME NEW t \in Tasks, NothingToFill(t) \/ Position(t) \/ Trade(t) PROVE AnnouncedOK'
  <2>1. PICK label \in {"positioned", "analyzing"} : pc' = [pc EXCEPT ![t] = label]
    BY <1>4 DEF NothingToFill, Position, Trade, Goto
  <2>2. pc[t] # "publishing" /\ UNCHANGED <<sessions, update, fill, executed>>
    BY <1>4 DEF NothingToFill, Position, Trade, counters
  <2> QED BY <1>1, <2>1, <2>2
<1>5. ASSUME NEW t \in Tasks, NEW side, Book(t, side) PROVE AnnouncedOK'
  <2>1. /\ pc' = [pc EXCEPT ![t] = "booked"] /\ pc[t] # "publishing"
        /\ UNCHANGED <<sessions, update, executed>>
        /\ \A u \in Tasks \ {t} : fill'[u] = fill[u]
    BY <1>5 DEF Book, Goto, counters, CallsOK
  <2> QED BY <1>1, <2>1
<1>6. ASSUME NEW t \in Tasks, StepRaised(t) PROVE AnnouncedOK'
  <2>1. /\ pc' = [pc EXCEPT ![t] = "publishing"] /\ pc[t] # "publishing"
        /\ UNCHANGED <<sessions, update, fill, executed>> /\ fill[t] = NoFill
    BY <1>6 DEF StepRaised, Goto, locals, counters, CallsOK
  <2> QED BY <1>1, <2>1
<1>7. ASSUME UNCHANGED paper_vars PROVE AnnouncedOK'
  BY <1>7 DEF paper_vars, locals, counters, AnnouncedOK, announcing, load_session
<1>8. ASSUME NEW t \in Tasks, Progress(t) PROVE AnnouncedOK'
  BY <1>3, <1>4, <1>5, <1>6, <1>8, AnnounceRegister, AnnouncePublished DEF Progress
<1> QED BY <1>2, <1>7, <1>8 DEF PaperNext, Cancel

\* When no task is cancelled, the PaperTradeExecuted events sent and those that calls
\* are still publishing are as many as the fills the registered sessions count: a
\* refused, raising or cancelling update announces nothing.
THEOREM FillsAnnouncedAlways == PaperSpec => []FillsAnnounced
<1>1. CASE ~Cancellable
  <2>1. PaperInit => CountInv /\ AnnouncedOK
    <3> SUFFICES ASSUME PaperInit PROVE AnnouncedOK
      BY CountInit
    <3>1. ASSUME NEW s \in Sessions PROVE announcing(s) = {} /\ load_session(s).fill_count = 0
      BY DEF PaperInit, announcing, load_session, _new_session
    <3>2. IsFiniteSet({}) /\ Cardinality({}) = 0
      BY FS_EmptySet
    <3>3. executed \in [Sessions -> Nat] /\ \A s \in Sessions : executed[s] = 0
      BY DEF PaperInit
    <3>4. \A s \in Sessions : IsFiniteSet(announcing(s)) /\ Cardinality(announcing(s)) = 0
      BY <3>1, <3>2, Zenon
    <3> QED BY <3>1, <3>3, <3>4 DEF AnnouncedOK
  <2>2. CountInv /\ AnnouncedOK /\ [PaperNext]_paper_vars => AnnouncedOK'
    BY <1>1, AnnounceStep
  <2>3. CountInv /\ AnnouncedOK => FillsAnnounced
    BY DEF AnnouncedOK, FillsAnnounced, Running, load_session
  <2> QED BY <2>1, <2>2, <2>3, CountStep, PTL DEF PaperSpec
<1>2. CASE Cancellable
  <2>1. FillsAnnounced
    BY <1>2 DEF FillsAnnounced
  <2> QED BY <2>1, PTL
<1> QED BY <1>1, <1>2

\* No update of a session is lost and no fill goes unannounced, for any number of
\* tasks and sessions, whatever calls interleave, fail or raise.
THEOREM NoLostUpdateAlways == PaperSpec => []NoLostUpdate
BY UpdatesCountedAlways, FillsAnnouncedAlways, PTL DEF NoLostUpdate

-----------------------------------------------------------------------------
(* Updates are atomic, unless a task is cancelled.                          *)

\* The call of task t has the portfolio its session has: the one the session was
\* loaded with, or that one and the trade it has booked.
DraftBookOK(t) ==
    LET s == update[t].session
    IN  /\ Mirrors(draft[t], s)
        /\ fill[t] = NoFill => Mirrors(load_session(s), s)
        /\ \/ ledger_of(portfolios[s]) = loaded_ledger(s)
           \/ OneMore(loaded_ledger(s), ledger_of(portfolios[s]))

\* The portfolio framework has the portfolios the sessions have, but for that of the
\* session an update is in progress for.
BookOK ==
    /\ DOMAIN portfolios = Sessions /\ DOMAIN prev_value = Sessions
    /\ \A s \in Sessions :
          /\ IsSeq(loaded_ledger(s))
          /\ ~busy(s) => Mirrors(load_session(s), s)
    /\ \A t \in Tasks : pc[t] \in WorkLabels => DraftBookOK(t)

\* The inductive invariant behind the refinement.
BookInv == CountInv /\ BookOK

\* Two sessions with the same portfolio mirror the same one.
LEMMA MirrorsIs ==
    ASSUME NEW x, NEW s, Mirrors(x, s)
    PROVE  /\ \A y : y.portfolio_result = x.portfolio_result => Mirrors(y, s)
           /\ (IF x.portfolio_result = NoResult THEN <<>> ELSE x.portfolio_result.portfolio.ledger)
                 = ledger_of(portfolios[s])
<1>1. CASE portfolios[s] = Portfolios!NoPortfolio
  BY <1>1 DEF Mirrors, ledger_of
<1>2. CASE portfolios[s] # Portfolios!NoPortfolio
  <2> DEFINE r == [portfolio |-> portfolios[s], total_value |-> prev_value[s].total_value]
  <2>1. "portfolio" \in DOMAIN r /\ r.portfolio = portfolios[s]
    OBVIOUS
  <2>2. r # NoResult
    BY <2>1 DEF NoResult
  <2>3. x.portfolio_result = r
    BY <1>2 DEF Mirrors
  <2> HIDE DEF r
  <2> QED BY <1>2, <2>1, <2>2, <2>3 DEF Mirrors, ledger_of
<1> QED BY <1>1, <1>2

\* The task that works is the one with the lock.
LEMMA OnlyWorker ==
    ASSUME LockInv, NEW t \in Tasks, queue[1] = t \/ pc[t] \in WorkLabels
    PROVE  /\ \A u \in Tasks \ {t} : pc[u] \notin WorkLabels
           /\ \A s : busy(s) <=> pc[t] \in WorkLabels /\ update[t].session = s
BY DEF LockInv, LockOK, busy, Working, WorkLabels

\* A step of a call that leaves the sessions and the portfolios alone.
LEMMA BookQuiet ==
    ASSUME BookInv, NEW t \in Tasks, NEW label,
           pc' = [pc EXCEPT ![t] = label],
           UNCHANGED <<sessions, portfolios, prev_value>>,
           \A u \in Tasks \ {t} : /\ update'[u] = update[u] /\ draft'[u] = draft[u]
                                  /\ fill'[u] = fill[u],
           label \in WorkLabels => update'[t] = update[t] /\ DraftBookOK(t)',
           pc[t] \in WorkLabels /\ label \notin WorkLabels =>
              Mirrors(load_session(update[t].session), update[t].session)
    PROVE  BookOK'
<1> USE DEF BookInv, CountInv, LockInv
<1>1. /\ pc'[t] = label
      /\ \A u \in Tasks \ {t} : pc'[u] = pc[u]
  BY DEF CallsOK
<1>2. \A s : /\ load_session(s)' = load_session(s)
             /\ loaded_ledger(s)' = loaded_ledger(s)
             /\ ledger_of(portfolios[s])' = ledger_of(portfolios[s])
  BY DEF load_session, loaded_ledger, ledger_of
<1>4. ASSUME NEW s \in Sessions, ~busy(s)' PROVE Mirrors(load_session(s), s)
  <2>1. CASE pc[t] \in WorkLabels /\ label \notin WorkLabels /\ update[t].session = s
    BY <2>1
  <2>2. CASE ~(pc[t] \in WorkLabels /\ label \notin WorkLabels /\ update[t].session = s)
    <3>1. ~busy(s)
      BY <1>1, <1>4, <2>2 DEF busy, Working, WorkLabels
    <3> QED BY <3>1 DEF BookOK
  <2> QED BY <2>1, <2>2
<1>5. ASSUME NEW u \in Tasks, pc'[u] \in WorkLabels PROVE DraftBookOK(u)'
  <2>1. CASE u = t
    BY <1>1, <1>5, <2>1
  <2>2. CASE u # t
    <3>1. /\ DraftBookOK(u) /\ update'[u] = update[u] /\ draft'[u] = draft[u]
          /\ fill'[u] = fill[u]
      BY <1>1, <1>5, <2>2 DEF BookOK
    <3> QED BY <1>2, <3>1 DEF DraftBookOK, Mirrors
  <2> QED BY <2>1, <2>2
<1>6. \A s \in Sessions : ~busy(s)' => Mirrors(load_session(s), s)'
  BY <1>2, <1>4 DEF Mirrors
<1> QED BY <1>2, <1>5, <1>6 DEF BookOK

\* A call that gets the lock loads a session whose portfolio is the framework's.
LEMMA BeginBook ==
    ASSUME BookInv, NEW t \in Tasks, Begin(t)
    PROVE  BookOK'
<1> USE DEF BookInv, CountInv, LockInv
<1> DEFINE s == update[t].session
           session == load_session(s)
<1>1. /\ pc[t] = "queued" /\ queue[1] = t
      /\ UNCHANGED <<portfolios, prev_value, update, fill>>
  BY DEF Begin, book
<1>2. s \in Sessions /\ fill[t] = NoFill /\ pc[t] \notin WorkLabels
  BY <1>1, PaperAssumption DEF CallsOK, WorkLabels
<1>3. \A z : ~busy(z)
  BY <1>1, <1>2, OnlyWorker
<1>4. Mirrors(session, s) /\ IsSession(session)
  BY <1>2, <1>3, LoadIs DEF BookOK
<1>5. CASE Refuse(t, session)
  BY <1>1, <1>2, <1>5, BookQuiet DEF Refuse, Goto, WorkLabels
<1>6. CASE StartPipeline(t, session)
  <2>1. /\ draft' = [draft EXCEPT ![t] = session] /\ sessions' = sessions
        /\ pc' = [pc EXCEPT ![t] = "step"]
    BY <1>6 DEF StartPipeline, Goto
  <2>2. draft'[t] = session /\ \A u \in Tasks \ {t} : draft'[u] = draft[u]
    BY <2>1 DEF CallsOK
  <2>3. /\ load_session(update[t].session)' = session
        /\ loaded_ledger(update[t].session)' = loaded_ledger(s)
        /\ ledger_of(portfolios[update[t].session])' = ledger_of(portfolios[s])
    BY <1>1, <2>1 DEF load_session, loaded_ledger, ledger_of
  <2>4. loaded_ledger(s) = ledger_of(portfolios[s])
    BY <1>4, MirrorsIs DEF loaded_ledger
  <2>5. DraftBookOK(t)'
    BY <1>1, <1>4, <2>2, <2>3, <2>4 DEF DraftBookOK, Mirrors
  <2> QED BY <1>1, <1>2, <2>1, <2>2, <2>5, BookQuiet
<1>7. CASE CancelSession(t, session)
  <2> DEFINE x == [session EXCEPT !.state = "cancelled"]
  <2>1. sessions' = [sessions EXCEPT ![s] = x] /\ pc' = [pc EXCEPT ![t] = "publishing"]
    BY <1>7 DEF CancelSession, Goto
  <2>2. \A u \in Tasks : pc'[u] \notin WorkLabels
    BY <1>1, <2>1, OnlyWorker DEF WorkLabels, CallsOK
  <2>3. x.state = "cancelled" /\ x.portfolio_result = session.portfolio_result
    BY <1>4 DEF IsSession, _new_session
  <2>4. x # NoSession
    BY <2>3 DEF NoSession
  <2> HIDE DEF x
  <2>5. sessions'[s] = x /\ \A z \in Sessions \ {s} : sessions'[z] = sessions[z]
    BY <1>2, <2>1 DEF SessionsOK
  <2>6. \A z \in Sessions : load_session(z)'.portfolio_result = load_session(z).portfolio_result
    BY <2>3, <2>4, <2>5 DEF load_session
  <2>7. \A z \in Sessions : Mirrors(load_session(z), z)' /\ IsSeq(loaded_ledger(z)')
    BY <1>1, <1>3, <2>6 DEF BookOK, Mirrors, loaded_ledger
  <2> QED BY <1>1, <2>2, <2>7 DEF BookOK
<1> QED BY <1>5, <1>6, <1>7 DEF Begin

\* Between two awaits of the call that works, its portfolio stays as it is.
LEMMA WorkBook ==
    ASSUME BookInv, NEW t \in Tasks, pc[t] \in WorkLabels, NEW label \in WorkLabels,
           pc' = [pc EXCEPT ![t] = label],
           UNCHANGED <<sessions, portfolios, prev_value, update, fill>>,
           \A u \in Tasks \ {t} : draft'[u] = draft[u],
           draft'[t].portfolio_result = draft[t].portfolio_result
    PROVE  BookOK'
<1>1. DraftBookOK(t)
  BY DEF BookInv, BookOK
<1>2. DraftBookOK(t)'
  BY <1>1 DEF DraftBookOK, Mirrors, load_session, loaded_ledger, ledger_of
<1> QED BY <1>2, BookQuiet

\* A trade is booked, or refused and the portfolio stays as it is.
LEMMA BookBook ==
    ASSUME BookInv, NEW t \in Tasks, NEW side, Book(t, side)
    PROVE  BookOK'
<1> USE DEF BookInv, CountInv, LockInv
<1> DEFINE s == update[t].session
           f == broker_fill(update[t], side)
           c == portfolio_context(f)
           counted == [draft[t] EXCEPT !.fill_count = @ + 1,
                                       !.total_commission = @ ++ f.commission]
<1>1. /\ pc[t] = "step" /\ UNCHANGED <<sessions, update>>
      /\ pc' = [pc EXCEPT ![t] = "booked"]
      /\ fill' = [fill EXCEPT ![t] = f]
  BY DEF Book, Goto
<1>2. \/ /\ Portfolios!Update(s, c)
         /\ draft' = [draft EXCEPT ![t] = [counted EXCEPT !.portfolio_result =
                          [portfolio |-> portfolios'[s],
                           total_value |-> prev_value'[s].total_value]]]
      \/ Portfolios!UpdateFails(s, c) /\ draft' = [draft EXCEPT ![t] = counted]
  BY DEF Book
<1>3. /\ DraftOK(t) /\ DraftBookOK(t) /\ s \in Sessions /\ fill[t] = NoFill
      /\ IsSession(draft[t])
  BY <1>1, PaperAssumption DEF CallsOK, DraftsOK, BookOK, WorkLabels, DraftOK
<1>4. /\ DOMAIN counted = DOMAIN _new_session
      /\ counted.portfolio_result = draft[t].portfolio_result
  BY <1>3 DEF IsSession, _new_session
<1>5. fill'[t] # NoFill /\ \A u \in Tasks \ {t} : fill'[u] = fill[u]
  <2>1. "price" \in DOMAIN f
    BY DEF broker_fill, PaperFill
  <2> QED BY <1>1, <2>1 DEF CallsOK, NoFill
<1>6. \A u \in Tasks \ {t} : draft'[u] = draft[u]
  BY <1>2 DEF CallsOK
<1> HIDE DEF counted, c, f
<1>7. /\ loaded_ledger(s) = ledger_of(portfolios[s])
      /\ IsSeq(loaded_ledger(s))
  BY <1>3, MirrorsIs DEF DraftBookOK, loaded_ledger, BookOK
<1>8. \A z : load_session(z)' = load_session(z) /\ loaded_ledger(z)' = loaded_ledger(z)
  BY <1>1 DEF load_session, loaded_ledger
<1>9. CASE Portfolios!UpdateFails(s, c) /\ draft' = [draft EXCEPT ![t] = counted]
  <2>1. UNCHANGED <<portfolios, prev_value>>
    BY <1>9 DEF Portfolios!UpdateFails, Portfolios!portfolio_vars
  <2>2. draft'[t] = counted
    BY <1>9 DEF CallsOK
  <2>3. DraftBookOK(t)'
    BY <1>1, <1>3, <1>4, <1>5, <1>8, <2>1, <2>2 DEF DraftBookOK, Mirrors, ledger_of
  <2> QED BY <1>1, <1>5, <1>6, <2>1, <2>3, BookQuiet DEF WorkLabels
<1>10. CASE /\ Portfolios!Update(s, c)
            /\ draft' = [draft EXCEPT ![t] = [counted EXCEPT !.portfolio_result =
                          [portfolio |-> portfolios'[s],
                           total_value |-> prev_value'[s].total_value]]]
  <2> DEFINE p == Portfolios!updated(Portfolios!load(s), c)
             e == Portfolios!entry(c)
             r == [portfolio |-> portfolios'[s], total_value |-> prev_value'[s].total_value]
  <2>1. /\ portfolios' = [portfolios EXCEPT ![s] = p]
        /\ \E v : prev_value' = [prev_value EXCEPT ![s] = v]
    BY <1>10 DEF Portfolios!Update
  <2>2. /\ DOMAIN portfolios' = Sessions /\ DOMAIN prev_value' = Sessions
        /\ portfolios'[s] = p
        /\ \A z \in Sessions \ {s} : /\ portfolios'[z] = portfolios[z]
                                     /\ prev_value'[z] = prev_value[z]
    BY <1>3, <2>1 DEF BookOK
  <2>3. p.state = "active" /\ p.ledger = Append(Portfolios!load(s).ledger, e)
    BY DEF Portfolios!updated
  <2>4. p # Portfolios!NoPortfolio
    BY <2>3 DEF Portfolios!NoPortfolio
  <2>5. Portfolios!load(s).ledger = ledger_of(portfolios[s])
    BY DEF Portfolios!load, Portfolios!NewPortfolio, ledger_of
  <2>6. draft'[t] = [counted EXCEPT !.portfolio_result = r]
    BY <1>10 DEF CallsOK
  <2> HIDE DEF p, e, r
  <2>7. draft'[t].portfolio_result = r
    BY <1>4, <2>6 DEF _new_session
  <2>8. OneMore(loaded_ledger(s), p.ledger)
    BY <1>7, <2>3, <2>5, AppendIs
  <2>9. DraftBookOK(t)'
    <3>1. Mirrors(draft[t], update[t].session)'
      BY <1>1, <2>2, <2>4, <2>7 DEF Mirrors, r
    <3>2. ledger_of(portfolios[update[t].session])' = p.ledger
      BY <1>1, <2>2, <2>4 DEF ledger_of
    <3> QED BY <1>1, <1>5, <1>8, <2>8, <3>1, <3>2 DEF DraftBookOK
  <2>10. \A u \in Tasks : pc'[u] \in WorkLabels <=> u = t
    BY <1>1, OnlyWorker DEF CallsOK, WorkLabels
  <2>11. ASSUME NEW z \in Sessions, ~busy(z)' PROVE Mirrors(load_session(z), z)'
    <3>1. z # s
      BY <1>1, <2>10, <2>11 DEF busy, Working, WorkLabels
    <3>2. ~busy(z)
      BY <1>1, <3>1, OnlyWorker DEF WorkLabels
    <3> QED BY <1>8, <2>2, <3>1, <3>2 DEF BookOK, Mirrors
  <2>12. \A z \in Sessions : IsSeq(loaded_ledger(z)')
    BY <1>8 DEF BookOK
  <2> QED BY <2>2, <2>9, <2>10, <2>11, <2>12 DEF BookOK
<1> QED BY <1>2, <1>9, <1>10

\* What register() stores has the portfolio the framework has.
LEMMA RegisterBook ==
    ASSUME BookInv, NEW t \in Tasks, Register(t)
    PROVE  /\ BookOK'
           /\ loaded_ledger(update[t].session)' = ledger_of(portfolios[update[t].session])
<1> USE DEF BookInv, CountInv, LockInv
<1> DEFINE x == new_session(t)
<1>0. PICK s \in Sessions : s = update[t].session
  BY PaperAssumption DEF CallsOK, Register
<1>1. /\ pc[t] = "analyzing" /\ pc' = [pc EXCEPT ![t] = "publishing"]
      /\ sessions' = [sessions EXCEPT ![s] = x]
      /\ UNCHANGED <<portfolios, prev_value, update>>
  BY <1>0 DEF Register, Goto, book, locals
<1>2. /\ DraftOK(t) /\ DraftBookOK(t) /\ IsSession(draft[t])
  BY <1>1 DEF CallsOK, DraftsOK, BookOK, WorkLabels, DraftOK
<1>3. x.portfolio_result = draft[t].portfolio_result /\ x.state \in {"completed", "running"}
  BY <1>2 DEF new_session, IsSession, _new_session
<1>4. x # NoSession
  BY <1>3 DEF NoSession
<1> HIDE DEF x
<1>5. sessions'[s] = x /\ \A z \in Sessions \ {s} : sessions'[z] = sessions[z]
  BY <1>1, <1>2 DEF SessionsOK
<1>6. load_session(s)' = x /\ \A z \in Sessions \ {s} : load_session(z)' = load_session(z)
  BY <1>1, <1>4, <1>5 DEF load_session
<1>7. Mirrors(load_session(s), s)'
  BY <1>0, <1>1, <1>2, <1>3, <1>6 DEF DraftBookOK, Mirrors
<1>8. loaded_ledger(s)' = ledger_of(portfolios[s])
  <2>1. Mirrors(x, s)
    BY <1>0, <1>2, <1>3, MirrorsIs DEF DraftBookOK
  <2> QED BY <1>6, <2>1, MirrorsIs DEF loaded_ledger
<1>9. IsSeq(loaded_ledger(s)')
  <2>1. CASE ledger_of(portfolios[s]) = loaded_ledger(s)
    BY <1>2, <1>8, <2>1 DEF BookOK
  <2>2. CASE OneMore(loaded_ledger(s), ledger_of(portfolios[s]))
    BY <1>2, <1>8, <2>2, OneMoreIs DEF BookOK
  <2> QED BY <1>0, <1>2, <2>1, <2>2 DEF DraftBookOK
<1>10. ASSUME NEW z \in Sessions \ {s}
       PROVE  Mirrors(load_session(z), z)' /\ IsSeq(loaded_ledger(z)')
  <2>1. ~busy(z)
    BY <1>0, <1>1, OnlyWorker DEF WorkLabels
  <2> QED BY <1>1, <1>6, <2>1 DEF BookOK, Mirrors, loaded_ledger
<1>11. \A u \in Tasks : pc'[u] \notin WorkLabels
  BY <1>1, OnlyWorker DEF WorkLabels, CallsOK
<1>12. \A z \in Sessions : Mirrors(load_session(z), z)' /\ IsSeq(loaded_ledger(z)')
  BY <1>7, <1>9, <1>10
<1>13. BookOK'
  BY <1>1, <1>11, <1>12 DEF BookOK
<1> QED BY <1>0, <1>1, <1>8, <1>13 DEF loaded_ledger, load_session

\* Every step but the cancellation of a task preserves the invariant.
LEMMA BookStep ==
    ASSUME ~Cancellable
    PROVE  BookInv /\ [PaperNext]_paper_vars => BookInv'
<1> SUFFICES ASSUME BookInv, [PaperNext]_paper_vars PROVE BookOK'
  BY CountStep DEF BookInv
<1> USE DEF BookInv, CountInv, LockInv
<1>1. ASSUME NEW t \in Tasks, NEW u \in Updates, Submit(t, u) PROVE BookOK'
  <2>1. /\ UNCHANGED <<sessions, portfolios, prev_value, draft, fill>>
        /\ pc[t] \notin WorkLabels /\ pc' = [pc EXCEPT ![t] = "queued"]
        /\ \A x \in Tasks \ {t} : update'[x] = update[x]
    BY <1>1 DEF Submit, Goto, WorkLabels, CallsOK, book
  <2> QED BY <2>1, BookQuiet DEF WorkLabels
<1>2. ASSUME NEW t \in Tasks, StepRaised(t) PROVE BookOK'
  <2>1. /\ UNCHANGED <<sessions, portfolios, prev_value, update, draft, fill>>
        /\ pc[t] = "step" /\ pc' = [pc EXCEPT ![t] = "publishing"]
    BY <1>2 DEF StepRaised, Goto, book, locals
  <2>2. Mirrors(load_session(update[t].session), update[t].session)
    BY <2>1 DEF BookOK, DraftBookOK, WorkLabels, CallsOK
  <2> QED BY <2>1, <2>2, BookQuiet DEF WorkLabels
<1>3. ASSUME NEW t \in Tasks, Published(t) PROVE BookOK'
  <2>1. /\ UNCHANGED <<sessions, portfolios, prev_value>>
        /\ pc[t] = "publishing" /\ pc' = [pc EXCEPT ![t] = "idle"]
    BY <1>3 DEF Published, Return, Goto, book
  <2>2. \A x \in Tasks \ {t} : /\ update'[x] = update[x] /\ draft'[x] = draft[x]
                               /\ fill'[x] = fill[x]
    BY <1>3 DEF Published, Return, CallsOK
  <2> QED BY <2>1, <2>2, BookQuiet DEF WorkLabels
<1>4. ASSUME NEW t \in Tasks, NothingToFill(t) PROVE BookOK'
  <2>1. /\ UNCHANGED <<sessions, portfolios, prev_value, update, fill>>
        /\ pc[t] = "step" /\ pc' = [pc EXCEPT ![t] = "analyzing"]
        /\ draft' = [draft EXCEPT ![t] = AddEquity(draft[t])]
    BY <1>4 DEF NothingToFill, Goto, book
  <2>2. IsSession(draft[t])
    BY <2>1 DEF DraftsOK, DraftOK, WorkLabels
  <2>3. /\ \A x \in Tasks \ {t} : draft'[x] = draft[x]
        /\ draft'[t].portfolio_result = draft[t].portfolio_result
    BY <2>1, <2>2, AddEquityIs DEF CallsOK
  <2> QED BY <2>1, <2>3, WorkBook DEF WorkLabels
<1>5. ASSUME NEW t \in Tasks, Position(t) PROVE BookOK'
  <2>1. /\ UNCHANGED <<sessions, portfolios, prev_value, update, fill>>
        /\ pc[t] = "booked" /\ pc' = [pc EXCEPT ![t] = "positioned"]
    BY <1>5 DEF Position, Goto, book
  <2>2. IsSession(draft[t])
    BY <2>1 DEF DraftsOK, DraftOK, WorkLabels
  <2>3. \/ draft' = draft
        \/ \E r : draft' = [draft EXCEPT ![t].position_result = r]
    BY <1>5 DEF Position
  <2>4. /\ \A x \in Tasks \ {t} : draft'[x] = draft[x]
        /\ draft'[t].portfolio_result = draft[t].portfolio_result
    BY <2>2, <2>3 DEF CallsOK, IsSession, _new_session
  <2> QED BY <2>1, <2>4, WorkBook DEF WorkLabels
<1>6. ASSUME NEW t \in Tasks, Trade(t) PROVE BookOK'
  <2>1. /\ UNCHANGED <<sessions, portfolios, prev_value, update, fill>>
        /\ pc[t] = "positioned" /\ pc' = [pc EXCEPT ![t] = "analyzing"]
    BY <1>6 DEF Trade, Goto, book
  <2>2. IsSession(draft[t])
    BY <2>1 DEF DraftsOK, DraftOK, WorkLabels
  <2>3. PICK x : /\ x = draft[t] \/ \E r : x = [draft[t] EXCEPT !.trade_result = r]
                 /\ draft' = [draft EXCEPT ![t] = AddEquity([x EXCEPT
                       !.trades = _upsert_trade(@, x.trade_result),
                       !.history = Append(@, fill[t])])]
    BY <1>6 DEF Trade
  <2> DEFINE y == [x EXCEPT !.trades = _upsert_trade(@, x.trade_result),
                            !.history = Append(@, fill[t])]
  <2>4. IsSession(x) /\ x.portfolio_result = draft[t].portfolio_result
    BY <2>2, <2>3 DEF IsSession, _new_session
  <2>5. IsSeq(Append(x.history, fill[t]))
    BY <2>4, AppendIs DEF IsSession
  <2>6. IsSession(y) /\ y.portfolio_result = x.portfolio_result
    BY <2>4, <2>5 DEF IsSession, _new_session
  <2>7. draft'[t] = AddEquity(y) /\ \A u \in Tasks \ {t} : draft'[u] = draft[u]
    BY <2>3 DEF CallsOK
  <2> HIDE DEF y
  <2>8. draft'[t].portfolio_result = draft[t].portfolio_result
    BY <2>4, <2>6, <2>7, AddEquityIs
  <2> QED BY <2>1, <2>7, <2>8, WorkBook DEF WorkLabels
<1>7. ASSUME UNCHANGED paper_vars PROVE BookOK'
  BY <1>7 DEF paper_vars, book, locals, BookOK, DraftBookOK, Mirrors, load_session,
              loaded_ledger, ledger_of, busy, Working
<1>8. ASSUME NEW t \in Tasks, Progress(t) PROVE BookOK'
  <2>1. CASE Begin(t)
    BY <2>1, BeginBook
  <2>2. CASE Register(t)
    BY <2>2, RegisterBook
  <2>3. ASSUME NEW side \in {"buy", "sell"}, Book(t, side) PROVE BookOK'
    BY <2>3, BookBook
  <2> QED BY <1>2, <1>3, <1>4, <1>5, <1>6, <1>8, <2>1, <2>2, <2>3 DEF Progress
<1> QED BY <1>1, <1>7, <1>8 DEF PaperNext, Cancel

\* The invariant holds initially.
LEMMA BookInit == PaperInit => BookInv
<1> SUFFICES ASSUME PaperInit PROVE BookInv
  OBVIOUS
<1>1. DOMAIN portfolios = Sessions /\ DOMAIN prev_value = Sessions
  BY DEF PaperInit, Portfolios!PortfolioInit
<1>2. ASSUME NEW s \in Sessions
      PROVE  IsSeq(loaded_ledger(s)) /\ Mirrors(load_session(s), s)
  <2>1. load_session(s).portfolio_result = NoResult
    BY DEF PaperInit, load_session, _new_session
  <2>2. portfolios[s] = Portfolios!NoPortfolio
    BY DEF PaperInit, Portfolios!PortfolioInit
  <2>3. IsSeq(<<>>)
    BY DEF IsSeq
  <2> QED BY <2>1, <2>2, <2>3 DEF Mirrors, loaded_ledger
<1>3. \A t \in Tasks : pc[t] \notin WorkLabels
  BY DEF PaperInit, WorkLabels
<1> QED BY <1>1, <1>2, <1>3, CountInit DEF BookInv, BookOK

\* When no task is cancelled, a session and the portfolio framework agree on the
\* book and on its value whenever no update is in progress, whichever stages failed.
THEOREM BookMirroredAtRest ==
    ASSUME ~Cancellable
    PROVE  PaperSpec => [](AtRest => BookMirrored)
<1>1. BookInv => (AtRest => BookMirrored)
  <2> SUFFICES ASSUME BookInv, AtRest, NEW s \in Sessions
               PROVE  /\ s \in Running => Mirrors(sessions[s], s)
                      /\ portfolios[s] # Portfolios!NoPortfolio => s \in Running
    BY DEF BookMirrored
  <2>1. Mirrors(load_session(s), s)
    BY DEF BookInv, BookOK, AtRest, busy
  <2>2. ASSUME sessions[s] = NoSession PROVE portfolios[s] = Portfolios!NoPortfolio
    <3>1. load_session(s).portfolio_result = NoResult
      BY <2>2 DEF load_session, _new_session
    <3> DEFINE r == [portfolio |-> portfolios[s], total_value |-> prev_value[s].total_value]
    <3>2. r # NoResult
      <4>1. "portfolio" \in DOMAIN r
        OBVIOUS
      <4> QED BY <4>1 DEF NoResult
    <3> QED BY <2>1, <3>1, <3>2 DEF Mirrors
  <2> QED BY <2>1, <2>2 DEF Running, load_session
<1> QED BY <1>1, BookInit, BookStep, PTL DEF PaperSpec

\* The account of a session as the registry has it.
registered_account(s) ==
    [state |-> sessions[s].state, equity |-> load_session(s).equity_curve,
     fills |-> load_session(s).history, ledger |-> loaded_ledger(s)]

AccountsRegistered == \A s \in Sessions : account(s) = registered_account(s)

\* A session's account depends on what is registered alone.
LEMMA AccountIs == BookOK => AccountsRegistered
<1> SUFFICES ASSUME BookOK, NEW s \in Sessions PROVE account(s) = registered_account(s)
  BY DEF AccountsRegistered
<1>1. ~busy(s) => ledger_of(portfolios[s]) = loaded_ledger(s)
  BY MirrorsIs DEF BookOK, loaded_ledger
<1> QED BY <1>1 DEF account, registered_account

\* In the next state too.
LEMMA AccountIsNext == BookOK' => AccountsRegistered'
BY AccountIs, PTL

\* One more element extends a sequence by one, and a sequence extends itself by none.
LEMMA ExtendsIs ==
    ASSUME NEW s, IsSeq(s)
    PROVE  /\ Account!Extends(s, s, 0)
           /\ \A x : OneMore(s, x) => Account!Extends(s, x, 1)
<1>1. Len(s) \in Nat /\ s \in Seq({s[i] : i \in DOMAIN s})
  BY DEF IsSeq
<1>2. Account!Extends(s, s, 0)
  BY <1>1 DEF Account!Extends, Account!IsPrefix
<1>3. ASSUME NEW x, OneMore(s, x) PROVE Account!Extends(s, x, 1)
  <2>1. /\ IsSeq(x) /\ Len(x) = Len(s) + 1
        /\ \A i \in 1..Len(s) : x[i] = s[i]
    BY <1>3, OneMoreIs
  <2>2. SubSeq(s, 1, Len(s)) = SubSeq(x, 1, Len(s))
    <3> DEFINE n == Len(s)
               a == SubSeq(s, 1, n)
               b == SubSeq(x, 1, n)
    <3>1. a = [i \in 1 .. n |-> s[i]]
      BY <1>1
    <3>2. b = [i \in 1 .. n |-> x[i]]
      <4>1. x \in Seq({x[i] : i \in DOMAIN x}) /\ n \in Nat /\ n <= Len(x)
        BY <1>1, <2>1 DEF IsSeq
      <4> HIDE DEF n
      <4> QED BY <4>1
    <3> QED BY <2>1, <3>1, <3>2
  <2> QED BY <1>1, <2>1, <2>2 DEF Account!Extends, Account!IsPrefix
<1> QED BY <1>2, <1>3

\* Register is the step that updates an account.
LEMMA RegisterRefines ==
    ASSUME BookInv, BookInv', NEW t \in Tasks, Register(t)
    PROVE  Account!AccountNext
<1> USE DEF BookInv, CountInv, LockInv
<1> DEFINE x == new_session(t)
<1>0. PICK s \in Sessions : s = update[t].session
  BY PaperAssumption DEF CallsOK, Register
<1> DEFINE old == account(s)
           base == load_session(s)
<1>1. /\ pc[t] = "analyzing" /\ sessions' = [sessions EXCEPT ![s] = x]
  BY <1>0 DEF Register
<1>2. DraftOK(t) /\ DraftBookOK(t) /\ IsSession(draft[t])
  BY <1>1 DEF CallsOK, DraftsOK, BookOK, WorkLabels, DraftOK
<1>3. /\ x.state \in {"running", "completed"}
      /\ x.equity_curve = draft[t].equity_curve
      /\ x.history = draft[t].history
  BY <1>2 DEF new_session, IsSession, _new_session
<1> HIDE DEF x
<1>4. /\ sessions'[s] = x /\ load_session(s)' = x
      /\ \A z \in Sessions \ {s} : sessions'[z] = sessions[z]
  BY <1>1, <1>3 DEF SessionsOK, load_session, NoSession
<1>5. ASSUME NEW z \in Sessions \ {s} PROVE account(z)' = account(z)
  <2>1. load_session(z)' = load_session(z) /\ loaded_ledger(z)' = loaded_ledger(z)
    BY <1>4 DEF load_session, loaded_ledger
  <2> QED BY <1>4, <2>1, AccountIs, AccountIsNext DEF AccountsRegistered, registered_account
<1>6. old = [state |-> sessions[s].state, equity |-> base.equity_curve,
             fills |-> base.history, ledger |-> loaded_ledger(s)]
  BY AccountIs DEF AccountsRegistered, registered_account
<1>7. account(s)' = [state |-> x.state, equity |-> x.equity_curve,
                     fills |-> x.history, ledger |-> ledger_of(portfolios[s])]
  <2>1. update' = update
    BY DEF Register, locals
  <2>2. loaded_ledger(s)' = ledger_of(portfolios[s])
    BY <1>0, <2>1, RegisterBook DEF loaded_ledger, load_session
  <2> QED BY <1>4, <2>2, AccountIsNext DEF AccountsRegistered, registered_account
<1>8. sessions[s].state \notin Account!Ended
  <2>1. base.state \notin TERMINAL
    BY <1>0, <1>2 DEF DraftOK
  <2> QED BY <2>1 DEF load_session, NoSession, TERMINAL, Account!Ended
<1>9. IsSession(base) /\ IsSeq(loaded_ledger(s))
  BY LoadIs DEF BookOK
<1>10. Account!Extends(base.equity_curve, x.equity_curve, 1)
  BY <1>0, <1>1, <1>2, <1>3, <1>9, ExtendsIs DEF DraftOK, IsSession
<1>11. \E n \in {0, 1} :
          /\ Account!Extends(base.history, x.history, n)
          /\ \E m \in 0 .. n :
                Account!Extends(loaded_ledger(s), ledger_of(portfolios[s]), m)
  <2>1. CASE fill[t] = NoFill
    <3>1. x.history = base.history
      BY <1>0, <1>1, <1>2, <1>3, <2>1 DEF DraftOK
    <3>2. ledger_of(portfolios[s]) = loaded_ledger(s)
      BY <1>0, <1>2, <2>1, MirrorsIs DEF DraftBookOK, loaded_ledger
    <3>3. Account!Extends(base.history, x.history, 0)
      BY <1>9, <3>1, ExtendsIs DEF IsSession
    <3>4. Account!Extends(loaded_ledger(s), ledger_of(portfolios[s]), 0)
      BY <1>9, <3>2, ExtendsIs
    <3> QED BY <3>3, <3>4
  <2>2. CASE fill[t] # NoFill
    <3>1. Account!Extends(base.history, x.history, 1)
      BY <1>0, <1>1, <1>2, <1>3, <1>9, <2>2, ExtendsIs DEF DraftOK, IsSession
    <3>2. \/ Account!Extends(loaded_ledger(s), ledger_of(portfolios[s]), 0)
          \/ Account!Extends(loaded_ledger(s), ledger_of(portfolios[s]), 1)
      BY <1>0, <1>2, <1>9, ExtendsIs DEF DraftBookOK
    <3> QED BY <3>1, <3>2
  <2> QED BY <2>1, <2>2
<1> HIDE DEF base
<1>12. Account!Update(s)
  <2> DEFINE new == account(s)'
  <2>1. /\ old.state = sessions[s].state /\ old.equity = base.equity_curve
        /\ old.fills = base.history /\ old.ledger = loaded_ledger(s)
    BY <1>6
  <2>2. /\ new.state = x.state /\ new.equity = x.equity_curve
        /\ new.fills = x.history /\ new.ledger = ledger_of(portfolios[s])
    BY <1>7
  <2> HIDE DEF old, new
  <2>3. /\ old.state \notin Account!Ended
        /\ new.state \in {"running", "completed"}
        /\ Account!Extends(old.equity, new.equity, 1)
        /\ \E n \in {0, 1} :
              /\ Account!Extends(old.fills, new.fills, n)
              /\ \E m \in 0 .. n : Account!Extends(old.ledger, new.ledger, m)
    BY <1>3, <1>8, <1>10, <1>11, <2>1, <2>2
  <2> QED BY <2>3 DEF Account!Update, old, new
<1> QED BY <1>5, <1>12 DEF Account!AccountNext

\* The cancellation of a session is a step of its account.
LEMMA CancelRefines ==
    ASSUME BookInv, BookInv', NEW t \in Tasks, pc[t] = "queued",
           CancelSession(t, load_session(update[t].session))
    PROVE  Account!AccountNext
<1> USE DEF BookInv, CountInv, LockInv
<1>0. PICK s \in Sessions : s = update[t].session
  BY PaperAssumption DEF CallsOK
<1> DEFINE base == load_session(s)
           x == [base EXCEPT !.state = "cancelled"]
<1>1. sessions' = [sessions EXCEPT ![s] = x] /\ base.state \notin TERMINAL
  BY <1>0 DEF CancelSession
<1>2. IsSession(base)
  BY LoadIs
<1>3. /\ x.state = "cancelled" /\ x.equity_curve = base.equity_curve
      /\ x.history = base.history /\ x.portfolio_result = base.portfolio_result
  BY <1>2 DEF IsSession, _new_session
<1> HIDE DEF x
<1>4. /\ sessions'[s] = x /\ load_session(s)' = x
      /\ \A z \in Sessions \ {s} : sessions'[z] = sessions[z]
  BY <1>1, <1>3 DEF SessionsOK, load_session, NoSession
<1>5. ASSUME NEW z \in Sessions \ {s} PROVE account(z)' = account(z)
  <2>1. load_session(z)' = load_session(z) /\ loaded_ledger(z)' = loaded_ledger(z)
    BY <1>4 DEF load_session, loaded_ledger
  <2> QED BY <1>4, <2>1, AccountIs, AccountIsNext DEF AccountsRegistered, registered_account
<1>6. loaded_ledger(s)' = loaded_ledger(s)
  BY <1>3, <1>4 DEF loaded_ledger
<1>7. /\ account(s) = [state |-> sessions[s].state, equity |-> base.equity_curve,
                       fills |-> base.history, ledger |-> loaded_ledger(s)]
      /\ account(s)' = [state |-> "cancelled", equity |-> base.equity_curve,
                        fills |-> base.history, ledger |-> loaded_ledger(s)]
  BY <1>3, <1>4, <1>6, AccountIs, AccountIsNext DEF AccountsRegistered, registered_account
<1>8. sessions[s].state \notin Account!Ended
  BY <1>1 DEF load_session, NoSession, TERMINAL, Account!Ended
<1>9. /\ account(s).state = sessions[s].state
      /\ account(s)' = [account(s) EXCEPT !.state = "cancelled"]
  BY <1>7
<1>10. Account!CancelSession(s)
  BY <1>8, <1>9 DEF Account!CancelSession
<1> QED BY <1>5, <1>10 DEF Account!AccountNext

\* A step that leaves the registry alone changes no account.
LEMMA QuietRefines ==
    ASSUME BookInv, BookInv', sessions' = sessions
    PROVE  UNCHANGED [s \in Sessions |-> account(s)]
<1>1. \A s \in Sessions : account(s)' = account(s)
  BY AccountIs, AccountIsNext
  DEF BookInv, AccountsRegistered, registered_account, loaded_ledger, load_session
<1> QED BY <1>1

\* process() implements PaperAccount when no task is cancelled: the seven awaits of an
\* update, the queue of the lock and the three frameworks show as one step of one
\* account, which adds its point, its fill and its ledger entry together, and no step
\* changes an account whose session has ended.
THEOREM UpdatesAtomic ==
    ASSUME ~Cancellable
    PROVE  PaperSpec => UpdatesAreAtomic
<1>1. PaperInit => Account!AccountInit
  <2> SUFFICES ASSUME PaperInit PROVE Account!AccountInit
    OBVIOUS
  <2>1. ASSUME NEW s \in Sessions PROVE account(s) = Account!NewAccount
    <3>1. sessions[s] = NoSession
      BY DEF PaperInit
    <3>2. account(s) = registered_account(s)
      BY BookInit, AccountIs DEF BookInv, AccountsRegistered
    <3> QED BY <3>1, <3>2 DEF registered_account, loaded_ledger, load_session, NoSession,
                              _new_session, Account!NewAccount
  <2> QED BY <2>1 DEF Account!AccountInit
<1>2. BookInv /\ BookInv' /\ [PaperNext]_paper_vars
        => [Account!AccountNext]_([s \in Sessions |-> account(s)])
  <2> SUFFICES ASSUME BookInv, BookInv', [PaperNext]_paper_vars
               PROVE  \/ Account!AccountNext
                      \/ UNCHANGED [s \in Sessions |-> account(s)]
    OBVIOUS
  <2>1. CASE sessions' = sessions
    BY <2>1, QuietRefines
  <2>2. ASSUME sessions' # sessions, NEW t \in Tasks, Progress(t) PROVE Account!AccountNext
    <3>1. \/ Register(t)
          \/ pc[t] = "queued" /\ CancelSession(t, load_session(update[t].session))
      BY <2>2 DEF Progress, Begin, Refuse, StartPipeline, NothingToFill, StepRaised, Book,
                  Position, Trade, Published, Return
    <3> QED BY <3>1, RegisterRefines, CancelRefines
  <2> QED BY <2>1, <2>2 DEF PaperNext, Submit, Cancel, Return, paper_vars
<1> QED BY <1>1, <1>2, BookInit, BookStep, PTL DEF PaperSpec, UpdatesAreAtomic, Account!AccountSpec

-----------------------------------------------------------------------------
(* What the stages make of the draft.                                       *)

\* _book() counts the fill and its commission and may set the portfolio result.
LEMMA BookDrafts ==
    ASSUME CountInv, NEW t \in Tasks, NEW side, Book(t, side)
    PROVE  LET x == draft[t]  y == draft'[t]  f == broker_fill(update[t], side)
           IN  /\ IsSession(x) /\ IsSession(y)
               /\ fill'[t] = f /\ \A u \in Tasks \ {t} : fill'[u] = fill[u]
               /\ y.total_commission = x.total_commission ++ f.commission
               /\ y.history = x.history
               /\ y.position_result = x.position_result
               /\ y.trade_result = x.trade_result
               /\ y.trades = x.trades
<1> USE DEF CountInv, LockInv
<1> DEFINE f == broker_fill(update[t], side)
           counted == [draft[t] EXCEPT !.fill_count = @ + 1,
                                       !.total_commission = @ ++ f.commission]
<1>1. pc[t] = "step" /\ fill' = [fill EXCEPT ![t] = f]
  BY DEF Book
<1>2. IsSession(draft[t])
  BY <1>1 DEF DraftsOK, WorkLabels, DraftOK
<1>3. IsSession(draft'[t])
  <2>1. pc'[t] = "booked"
    BY DEF Book, Goto, CallsOK
  <2> QED BY <2>1, BookCounts DEF DraftsOK, DraftOK, WorkLabels
<1>4. \/ draft'[t] = counted
      \/ \E r : draft'[t] = [counted EXCEPT !.portfolio_result = r]
  BY DEF Book, CallsOK
<1>5. /\ DOMAIN counted = DOMAIN _new_session
      /\ counted.total_commission = draft[t].total_commission ++ f.commission
      /\ counted.history = draft[t].history
      /\ counted.position_result = draft[t].position_result
      /\ counted.trade_result = draft[t].trade_result
      /\ counted.trades = draft[t].trades
  BY <1>2 DEF IsSession, _new_session
<1> HIDE DEF counted, f
<1>6. /\ draft'[t].total_commission = draft[t].total_commission ++ f.commission
      /\ draft'[t].history = draft[t].history
      /\ draft'[t].position_result = draft[t].position_result
      /\ draft'[t].trade_result = draft[t].trade_result
      /\ draft'[t].trades = draft[t].trades
  BY <1>4, <1>5 DEF _new_session
<1>7. fill'[t] = f /\ \A u \in Tasks \ {t} : fill'[u] = fill[u]
  BY <1>1 DEF CallsOK
<1> QED BY <1>2, <1>3, <1>6, <1>7 DEF f

\* _position() changes the position result alone.
LEMMA PositionDrafts ==
    ASSUME CountInv, NEW t \in Tasks, Position(t)
    PROVE  LET x == draft[t]  y == draft'[t]
           IN  /\ IsSession(x) /\ UNCHANGED fill
               /\ y.total_commission = x.total_commission
               /\ y.history = x.history
               /\ y.trade_result = x.trade_result
               /\ y.trades = x.trades
<1> USE DEF CountInv, LockInv
<1>1. pc[t] = "booked" /\ UNCHANGED fill
  BY DEF Position
<1>2. IsSession(draft[t])
  BY <1>1 DEF DraftsOK, WorkLabels, DraftOK
<1>3. \/ draft' = draft
      \/ \E r : draft' = [draft EXCEPT ![t].position_result = r]
  BY DEF Position
<1> QED BY <1>1, <1>2, <1>3 DEF CallsOK, IsSession, _new_session

\* _trade() adds the fill to the history and sets the trade result and the trades.
LEMMA TradeDrafts ==
    ASSUME CountInv, NEW t \in Tasks, Trade(t)
    PROVE  LET x == draft[t]  y == draft'[t]  z == SymbolOf[update[t].session]
           IN  /\ IsSession(x) /\ UNCHANGED fill
               /\ y.total_commission = x.total_commission
               /\ y.history = Append(x.history, fill[t])
               /\ y.position_result = x.position_result
               /\ y.trades = _upsert_trade(x.trades, y.trade_result)
               /\ \/ /\ x.position_result = NoResult
                     /\ y.trade_result = x.trade_result /\ UNCHANGED <<trades, fills>>
                  \/ /\ x.position_result # NoResult
                     /\ Trading!UpdateTrade(z, x.position_result.position)
                     /\ y.trade_result = [id |-> z, trade |-> trades'[z]]
                  \/ /\ x.position_result # NoResult
                     /\ Trading!UpdateTradeFails(z, x.position_result.position)
                     /\ y.trade_result = x.trade_result
<1> USE DEF CountInv, LockInv
<1> DEFINE z == SymbolOf[update[t].session]
           p == draft[t].position_result.position
           done(x) == AddEquity([x EXCEPT !.trades = _upsert_trade(@, x.trade_result),
                                          !.history = Append(@, fill[t])])
           marked == [draft[t] EXCEPT !.trade_result = [id |-> z, trade |-> trades'[z]]]
<1>1. pc[t] = "positioned" /\ UNCHANGED fill
  BY DEF Trade
<1>2. IsSession(draft[t])
  BY <1>1 DEF DraftsOK, WorkLabels, DraftOK
<1>3. \/ /\ draft[t].position_result = NoResult
         /\ draft'[t] = done(draft[t]) /\ UNCHANGED <<trades, fills>>
      \/ /\ draft[t].position_result # NoResult
         /\ Trading!UpdateTrade(z, p) /\ draft'[t] = done(marked)
      \/ /\ draft[t].position_result # NoResult
         /\ Trading!UpdateTradeFails(z, p) /\ draft'[t] = done(draft[t])
  BY DEF Trade, CallsOK
<1>4. ASSUME NEW x, IsSession(x)
      PROVE  /\ done(x).total_commission = x.total_commission
             /\ done(x).history = Append(x.history, fill[t])
             /\ done(x).position_result = x.position_result
             /\ done(x).trade_result = x.trade_result
             /\ done(x).trades = _upsert_trade(x.trades, x.trade_result)
  <2> DEFINE y == [x EXCEPT !.trades = _upsert_trade(@, x.trade_result),
                            !.history = Append(@, fill[t])]
  <2>1. IsSeq(Append(x.history, fill[t]))
    BY <1>4, AppendIs DEF IsSession
  <2>2. /\ IsSession(y)
        /\ y.total_commission = x.total_commission
        /\ y.history = Append(x.history, fill[t])
        /\ y.position_result = x.position_result
        /\ y.trade_result = x.trade_result
        /\ y.trades = _upsert_trade(x.trades, x.trade_result)
    BY <1>4, <2>1 DEF IsSession, _new_session
  <2> HIDE DEF y
  <2>3. /\ AddEquity(y).total_commission = y.total_commission
        /\ AddEquity(y).history = y.history
        /\ AddEquity(y).position_result = y.position_result
        /\ AddEquity(y).trade_result = y.trade_result
        /\ AddEquity(y).trades = y.trades
    BY <2>2, AddEquityIs
  <2> QED BY <2>2, <2>3 DEF y
<1>5. /\ IsSession(marked)
      /\ marked.total_commission = draft[t].total_commission
      /\ marked.history = draft[t].history
      /\ marked.position_result = draft[t].position_result
      /\ marked.trade_result = [id |-> z, trade |-> trades'[z]]
      /\ marked.trades = draft[t].trades
  BY <1>2 DEF IsSession, _new_session
<1> HIDE DEF done, marked
<1>6. CASE /\ draft[t].position_result # NoResult
           /\ Trading!UpdateTrade(z, p) /\ draft'[t] = done(marked)
  BY <1>1, <1>2, <1>4, <1>5, <1>6
<1>7. CASE draft'[t] = done(draft[t])
  BY <1>1, <1>2, <1>3, <1>4, <1>6, <1>7
<1> QED BY <1>3, <1>6, <1>7

-----------------------------------------------------------------------------
(* The commissions.                                                         *)

CommissionsOf(history) == RatSum([i \in DOMAIN history |-> history[i].commission])

Charged(history) == \A i \in DOMAIN history : history[i].commission \in Rats

\* The commission of a session, or of a call's draft without the fill that is still
\* to join its history.
Paid(x) == Charged(x.history) /\ x.total_commission = CommissionsOf(x.history)

Owes(t) ==
    IF pc[t] \in {"booked", "positioned"}
    THEN /\ Charged(draft[t].history) /\ fill[t].commission \in Rats
         /\ draft[t].total_commission =
                CommissionsOf(draft[t].history) ++ fill[t].commission
    ELSE Paid(draft[t])

CommissionOK ==
    /\ \A s \in Sessions : Paid(load_session(s))
    /\ \A t \in Tasks : pc[t] \in WorkLabels => Owes(t)

\* The inductive invariant behind CommissionsAddUp.
CommissionInv == CountInv /\ CommissionOK

\* One more fill adds its commission.
LEMMA CommissionsGrow ==
    ASSUME NEW h, IsSeq(h), Charged(h), NEW f, f.commission \in Rats
    PROVE  /\ Charged(Append(h, f))
           /\ CommissionsOf(Append(h, f)) = CommissionsOf(h) ++ f.commission
<1> DEFINE n == Len(h) + 1
           new == Append(h, f)
           r == [i \in DOMAIN h |-> h[i].commission]
           R == [i \in DOMAIN new |-> new[i].commission]
<1>1. /\ IsSeq(new) /\ Len(h) \in Nat /\ Len(new) = n
      /\ \A i \in 1..Len(h) : new[i] = h[i]
      /\ new[n] = f
  BY AppendIs
<1>2. DOMAIN new = 1..n /\ DOMAIN h = 1..Len(h) /\ n \in Nat
  BY <1>1, SeqIs
<1>3. /\ DOMAIN new = DOMAIN h \union {n} /\ n \notin DOMAIN h
      /\ \A i \in DOMAIN h : new[i] = h[i]
  BY <1>1, <1>2
<1>4. IsFiniteSet(DOMAIN h) /\ IsFiniteSet(DOMAIN new)
  BY <1>1, <1>2, FS_Interval
<1> HIDE DEF new, n
<1>5. Charged(new)
  BY <1>1, <1>3 DEF Charged
<1>6. Summable(r) /\ Summable(R)
  BY <1>4, <1>5 DEF Summable, Charged
<1>7. /\ DOMAIN r = DOMAIN h /\ DOMAIN R = DOMAIN r \union {n} /\ n \notin DOMAIN r
      /\ \A i \in DOMAIN r : R[i] = r[i]
      /\ R[n] = f.commission
  BY <1>1, <1>3
<1> HIDE DEF r, R
<1>8. RatSum(R) = RatSum(r) ++ R[n]
  BY <1>6, <1>7, SumGrows
<1> QED BY <1>5, <1>7, <1>8 DEF CommissionsOf, r, R, new

\* A new session has paid nothing for no fills.
LEMMA NothingPaid == Paid(_new_session)
<1> DEFINE f == [i \in DOMAIN <<>> |-> <<>>[i].commission]
<1>1. /\ _new_session.history = <<>> /\ _new_session.total_commission = Zero
      /\ DOMAIN <<>> = {} /\ DOMAIN f = {}
  BY DEF _new_session
<1>2. Summable(f)
  BY <1>1, FS_EmptySet DEF Summable
<1>3. RatSum(f) = Zero
  BY <1>1, <1>2, SumIs
<1> QED BY <1>1, <1>3 DEF Paid, Charged, CommissionsOf

\* The broker's commission is a number.
LEMMA BrokerCharges ==
    ASSUME NEW u \in Updates, NEW side
    PROVE  broker_fill(u, side).commission \in Rats
<1>1. u.close \in Rats /\ Slippage \in Rats /\ Commission \in Rats
  BY PaperAssumption, IsRatIs
<1>2. u.close \otimes Slippage \in Rats
  BY <1>1, Closed
<1>3. /\ (u.close ++ (u.close \otimes Slippage)) \otimes Commission \in Rats
      /\ (u.close -- (u.close \otimes Slippage)) \otimes Commission \in Rats
  BY <1>1, <1>2, Closed
<1> QED BY <1>3 DEF broker_fill, PaperFill

\* A step of a call that leaves the sessions alone.
LEMMA CommissionQuiet ==
    ASSUME CommissionInv, NEW t \in Tasks, NEW label,
           pc' = [pc EXCEPT ![t] = label], sessions' = sessions,
           \A u \in Tasks \ {t} : draft'[u] = draft[u] /\ fill'[u] = fill[u],
           label \in WorkLabels => Owes(t)'
    PROVE  CommissionOK'
<1> USE DEF CommissionInv, CountInv, LockInv
<1>1. pc'[t] = label /\ \A u \in Tasks \ {t} : pc'[u] = pc[u]
  BY DEF CallsOK
<1>2. \A s \in Sessions : load_session(s)' = load_session(s)
  BY DEF load_session
<1>3. ASSUME NEW u \in Tasks, pc'[u] \in WorkLabels PROVE Owes(u)'
  <2>1. CASE u = t
    BY <1>1, <1>3, <2>1
  <2>2. CASE u # t
    <3>1. /\ pc'[u] = pc[u] /\ draft'[u] = draft[u] /\ fill'[u] = fill[u] /\ Owes(u)
      BY <1>1, <1>3, <2>2 DEF CommissionOK
    <3> QED BY <3>1 DEF Owes
  <2> QED BY <2>1, <2>2
<1> QED BY <1>2, <1>3 DEF CommissionOK

\* A step that stores a session which has paid what it owes.
LEMMA CommissionStored ==
    ASSUME CommissionInv, NEW t \in Tasks, NEW s \in Sessions, NEW x,
           queue[1] = t \/ pc[t] \in WorkLabels,
           pc' = [pc EXCEPT ![t] = "publishing"], sessions' = [sessions EXCEPT ![s] = x],
           x # NoSession, Paid(x)
    PROVE  CommissionOK'
<1> USE DEF CommissionInv, CountInv, LockInv
<1>1. \A u \in Tasks : pc'[u] \notin WorkLabels
  BY OnlyWorker DEF CallsOK, WorkLabels
<1>2. load_session(s)' = x /\ \A z \in Sessions \ {s} : load_session(z)' = load_session(z)
  BY DEF load_session, SessionsOK
<1> QED BY <1>1, <1>2 DEF CommissionOK

\* Every step keeps the commissions.
LEMMA CommissionStep == CommissionInv /\ [PaperNext]_paper_vars => CommissionInv'
<1> SUFFICES ASSUME CommissionInv, [PaperNext]_paper_vars PROVE CommissionOK'
  BY CountStep DEF CommissionInv
<1> USE DEF CommissionInv, CountInv, LockInv
<1>1. ASSUME NEW t \in Tasks, NEW u \in Updates, Submit(t, u) PROVE CommissionOK'
  BY <1>1, CommissionQuiet DEF Submit, Goto, WorkLabels
<1>2. ASSUME NEW t \in Tasks, StepRaised(t) PROVE CommissionOK'
  BY <1>2, CommissionQuiet DEF StepRaised, Goto, WorkLabels, locals
<1>3. ASSUME NEW t \in Tasks, Return(t) PROVE CommissionOK'
  BY <1>3, CommissionQuiet DEF Return, Goto, WorkLabels, CallsOK
<1>4. ASSUME NEW t \in Tasks, Begin(t) PROVE CommissionOK'
  <2>0. PICK s \in Sessions : s = update[t].session
    BY <1>4, PaperAssumption DEF Begin, CallsOK
  <2> DEFINE session == load_session(s)
  <2>1. /\ pc[t] = "queued" /\ queue[1] = t /\ fill' = fill /\ fill[t] = NoFill
        /\ IsSession(session) /\ Paid(session)
    BY <1>4, LoadIs DEF Begin, CallsOK, CommissionOK
  <2> HIDE DEF session
  <2>2. CASE Refuse(t, session)
    BY <2>1, <2>2, CommissionQuiet DEF Refuse, Goto, WorkLabels
  <2>3. CASE StartPipeline(t, session)
    <3>1. /\ sessions' = sessions /\ pc' = [pc EXCEPT ![t] = "step"]
          /\ pc'[t] = "step" /\ draft'[t] = session
          /\ \A u \in Tasks \ {t} : draft'[u] = draft[u]
      BY <2>3 DEF StartPipeline, Goto, CallsOK
    <3>2. Owes(t)'
      BY <2>1, <3>1 DEF Owes, Paid
    <3> QED BY <2>1, <3>1, <3>2, CommissionQuiet
  <2>4. CASE CancelSession(t, session)
    <3> DEFINE x == [session EXCEPT !.state = "cancelled"]
    <3>1. sessions' = [sessions EXCEPT ![s] = x] /\ pc' = [pc EXCEPT ![t] = "publishing"]
      BY <2>0, <2>4 DEF CancelSession, Goto
    <3>2. /\ x.state = "cancelled" /\ x.history = session.history
          /\ x.total_commission = session.total_commission
      BY <2>1 DEF IsSession, _new_session
    <3> HIDE DEF x
    <3>3. x # NoSession /\ Paid(x)
      BY <2>1, <3>2 DEF NoSession, Paid
    <3> QED BY <2>1, <3>1, <3>3, CommissionStored
  <2> QED BY <1>4, <2>0, <2>2, <2>3, <2>4 DEF Begin, session
<1>5. ASSUME NEW t \in Tasks, pc[t] \in WorkLabels, NEW label \in WorkLabels,
             pc' = [pc EXCEPT ![t] = label], sessions' = sessions,
             \A u \in Tasks \ {t} : draft'[u] = draft[u] /\ fill'[u] = fill[u], Owes(t)'
      PROVE  CommissionOK'
  BY <1>5, CommissionQuiet
<1>6. ASSUME NEW t \in Tasks, NothingToFill(t) PROVE CommissionOK'
  <2>1. /\ pc[t] = "step" /\ UNCHANGED <<sessions, fill>>
        /\ pc' = [pc EXCEPT ![t] = "analyzing"] /\ pc'[t] = "analyzing"
        /\ draft'[t] = AddEquity(draft[t])
        /\ \A u \in Tasks \ {t} : draft'[u] = draft[u]
    BY <1>6 DEF NothingToFill, Goto, CallsOK
  <2>2. IsSession(draft[t]) /\ Paid(draft[t])
    BY <2>1 DEF DraftsOK, DraftOK, WorkLabels, CommissionOK, Owes
  <2>3. Owes(t)'
    BY <2>1, <2>2, AddEquityIs DEF Owes, Paid
  <2> QED BY <1>5, <2>1, <2>3 DEF WorkLabels
<1>7. ASSUME NEW t \in Tasks, NEW side, Book(t, side) PROVE CommissionOK'
  <2>1. /\ pc[t] = "step" /\ sessions' = sessions /\ update[t] \in Updates
        /\ pc' = [pc EXCEPT ![t] = "booked"] /\ pc'[t] = "booked"
        /\ \A u \in Tasks \ {t} : draft'[u] = draft[u]
    BY <1>7 DEF Book, Goto, CallsOK
  <2>2. Paid(draft[t])
    BY <2>1 DEF WorkLabels, CommissionOK, Owes
  <2>3. broker_fill(update[t], side).commission \in Rats
    BY <2>1, BrokerCharges
  <2>4. /\ fill'[t] = broker_fill(update[t], side) /\ \A u \in Tasks \ {t} : fill'[u] = fill[u]
        /\ draft'[t].total_commission =
               draft[t].total_commission ++ broker_fill(update[t], side).commission
        /\ draft'[t].history = draft[t].history
    BY <1>7, BookDrafts
  <2>5. Owes(t)'
    BY <2>1, <2>2, <2>3, <2>4 DEF Owes, Paid
  <2> QED BY <1>5, <2>1, <2>4, <2>5 DEF WorkLabels
<1>8. ASSUME NEW t \in Tasks, Position(t) PROVE CommissionOK'
  <2>1. /\ pc[t] = "booked" /\ UNCHANGED <<sessions, fill>>
        /\ pc' = [pc EXCEPT ![t] = "positioned"] /\ pc'[t] = "positioned"
        /\ \A u \in Tasks \ {t} : draft'[u] = draft[u]
    BY <1>8 DEF Position, Goto, CallsOK
  <2>2. Owes(t) /\ draft'[t].total_commission = draft[t].total_commission
        /\ draft'[t].history = draft[t].history
    BY <1>8, <2>1, PositionDrafts DEF CommissionOK, WorkLabels
  <2>3. Owes(t)'
    BY <2>1, <2>2 DEF Owes
  <2> QED BY <1>5, <2>1, <2>3 DEF WorkLabels
<1>9. ASSUME NEW t \in Tasks, Trade(t) PROVE CommissionOK'
  <2>1. /\ pc[t] = "positioned" /\ UNCHANGED <<sessions, fill>>
        /\ pc' = [pc EXCEPT ![t] = "analyzing"] /\ pc'[t] = "analyzing"
        /\ \A u \in Tasks \ {t} : draft'[u] = draft[u]
    BY <1>9 DEF Trade, Goto, CallsOK
  <2>2. /\ Owes(t) /\ IsSeq(draft[t].history)
        /\ draft'[t].total_commission = draft[t].total_commission
        /\ draft'[t].history = Append(draft[t].history, fill[t])
    BY <1>9, <2>1, TradeDrafts DEF CommissionOK, WorkLabels, IsSession
  <2>3. Owes(t)'
    BY <2>1, <2>2, CommissionsGrow DEF Owes, Paid
  <2> QED BY <1>5, <2>1, <2>3 DEF WorkLabels
<1>10. ASSUME NEW t \in Tasks, Register(t) PROVE CommissionOK'
  <2>0. PICK s \in Sessions : s = update[t].session
    BY <1>10, PaperAssumption DEF Register, CallsOK
  <2> DEFINE x == new_session(t)
  <2>1. /\ pc[t] = "analyzing" /\ sessions' = [sessions EXCEPT ![s] = x]
        /\ pc' = [pc EXCEPT ![t] = "publishing"]
    BY <1>10, <2>0 DEF Register, Goto
  <2>2. IsSession(draft[t]) /\ Paid(draft[t])
    BY <2>1 DEF DraftsOK, DraftOK, WorkLabels, CommissionOK, Owes
  <2>3. /\ x.state \in {"completed", "running"} /\ x.history = draft[t].history
        /\ x.total_commission = draft[t].total_commission
    BY <2>2 DEF new_session, IsSession, _new_session
  <2> HIDE DEF x
  <2>4. x # NoSession /\ Paid(x)
    BY <2>2, <2>3 DEF NoSession, Paid
  <2> QED BY <2>1, <2>4, CommissionStored DEF WorkLabels
<1>11. ASSUME UNCHANGED paper_vars PROVE CommissionOK'
  BY <1>11 DEF paper_vars, locals, CommissionOK, Owes, load_session
<1> QED
  BY <1>1, <1>2, <1>3, <1>4, <1>6, <1>7, <1>8, <1>9, <1>10, <1>11
  DEF PaperNext, Progress, Published, Cancel

\* The commission a session has paid is that of the fills in its history, for any
\* fills and rates, also when updates are cancelled after their fill was booked: the
\* total and the history are stored together or not at all.
THEOREM CommissionsAlways == PaperSpec => []CommissionsAddUp
<1>1. PaperInit => CommissionInv
  <2> SUFFICES ASSUME PaperInit PROVE CommissionOK
    BY CountInit DEF CommissionInv
  <2>1. \A s \in Sessions : load_session(s) = _new_session
    BY DEF PaperInit, load_session
  <2>2. \A t \in Tasks : pc[t] \notin WorkLabels
    BY DEF PaperInit, WorkLabels
  <2> QED BY <2>1, <2>2, NothingPaid DEF CommissionOK
<1>2. CommissionInv => CommissionsAddUp
  BY DEF CommissionInv, CountInv, SessionsOK, CommissionOK, Paid, CommissionsOf,
         CommissionsAddUp, Running, load_session
<1> QED BY <1>1, <1>2, CommissionStep, PTL DEF PaperSpec

-----------------------------------------------------------------------------
(* The operators of the instances of Portfolio and Trades.                   *)

\* The instances calculate with the same rationals.
LEMMA TradingArithmetic ==
    /\ \A x, y : /\ Trading!++(x, y) = x ++ y /\ Trading!--(x, y) = x -- y
                 /\ Trading!\prec(x, y) <=> x \prec y
                 /\ Trading!\preceq(x, y) <=> x \preceq y
    /\ \A f : Trading!RatSum(f) = RatSum(f)
    /\ Trading!Zero = Zero /\ Trading!One = One
<1> USE DEF Trading!++, ++, Trading!plus, plus, Trading!Pairs, Pairs,
            Trading!Ratio, Ratio, Trading!Abs, Abs, Trading!gcd, gcd, Trading!Rat, Rat,
            Trading!Zero, Zero
<1>1. \A x, y : Trading!++(x, y) = x ++ y
  OBVIOUS
<1>2. \A x, y : Trading!--(x, y) = x -- y
  BY DEF Trading!--, --
<1>3. \A x, y : (Trading!\prec(x, y) <=> x \prec y) /\ (Trading!\preceq(x, y) <=> x \preceq y)
  BY DEF Trading!\prec, \prec, Trading!\preceq, \preceq
<1>4. \A f : Trading!RatSum(f) = RatSum(f)
  BY DEF Trading!RatSum, RatSum, Trading!FoldFunction, FoldFunction,
         Trading!FoldFunctionOnSet, FoldFunctionOnSet, Trading!MapThenFoldSet, MapThenFoldSet
<1>5. Trading!Zero = Zero /\ Trading!One = One
  BY DEF Trading!One, One
<1> QED BY <1>1, <1>2, <1>3, <1>4, <1>5

LEMMA PortfolioArithmetic ==
    /\ \A x, y : /\ Portfolios!++(x, y) = x ++ y
                 /\ Portfolios!--(x, y) = x -- y
                 /\ Portfolios!\prec(x, y) <=> x \prec y
                 /\ Portfolios!\preceq(x, y) <=> x \preceq y
    /\ Portfolios!Zero = Zero
<1> USE DEF Portfolios!++, ++, Portfolios!plus, plus, Portfolios!Pairs, Pairs,
            Portfolios!Ratio, Ratio, Portfolios!Abs, Abs, Portfolios!gcd, gcd, Portfolios!Rat,
            Rat, Portfolios!Zero, Zero
<1>1. \A x, y : Portfolios!++(x, y) = x ++ y
  OBVIOUS
<1>2. \A x, y : Portfolios!--(x, y) = x -- y
  BY DEF Portfolios!--, --
<1>3. \A x, y : /\ Portfolios!\prec(x, y) <=> x \prec y
                /\ Portfolios!\preceq(x, y) <=> x \preceq y
  BY DEF Portfolios!\prec, \prec, Portfolios!\preceq, \preceq
<1> QED BY <1>1, <1>2, <1>3

\* Whole amounts are calculated like integers.
LEMMA UnitArithmetic ==
    /\ Zero = Rat(0) /\ One = Rat(1)
    /\ \A m, n \in Int :
          /\ Rat(m) ++ Rat(n) = Rat(m + n) /\ Rat(m) -- Rat(n) = Rat(m - n)
          /\ Rat(m) \prec Rat(n) <=> m < n
          /\ Rat(m) \preceq Rat(n) <=> m <= n
          /\ Rat(m) = Rat(n) <=> m = n
          /\ Rat(m) \in Rats
<1>1. Zero = Rat(0) /\ One = Rat(1)
  BY DEF Zero, One
<1> SUFFICES ASSUME NEW m \in Int, NEW n \in Int
             PROVE  /\ Rat(m) ++ Rat(n) = Rat(m + n)
                    /\ Rat(m) -- Rat(n) = Rat(m - n)
                    /\ Rat(m) \prec Rat(n) <=> m < n
                    /\ Rat(m) \preceq Rat(n) <=> m <= n
                    /\ Rat(m) = Rat(n) <=> m = n
                    /\ Rat(m) \in Rats
  BY <1>1
<1>2. /\ Over(Rat(m), m, 1) /\ Over(Rat(n), n, 1) /\ Over(Rat(m + n), m + n, 1)
      /\ Over(Rat(m - n), m - n, 1) /\ Rat(m) \in Rats
  <2>1. m + n \in Int /\ m - n \in Int
    OBVIOUS
  <2> QED BY <2>1, RatIsRat
<1>3. Over(Rat(m) ++ Rat(n), m + n, 1) /\ Over(Rat(m) -- Rat(n), m - n, 1)
  BY <1>2, PlusOver, MinusOver
<1>4. Rat(m) ++ Rat(n) = Rat(m + n)
  BY <1>2, <1>3, SameOver
<1>5. Rat(m) -- Rat(n) = Rat(m - n)
  BY <1>2, <1>3, SameOver
<1>6. Rat(m) = Rat(n) <=> m = n
  BY <1>2, SameOver
<1>7. (Rat(m) \prec Rat(n) <=> m < n) /\ (Rat(m) \preceq Rat(n) <=> m <= n)
  BY <1>2, OrderOver
<1> QED BY <1>2, <1>4, <1>5, <1>6, <1>7

LEMMA UnitSteps ==
    ASSUME NEW m \in Int
    PROVE  /\ Rat(m) ++ One = Rat(m + 1) /\ Rat(m) -- One = Rat(m - 1)
           /\ Rat(m) \preceq Zero <=> m <= 0
           /\ One \preceq Rat(m) <=> 1 <= m
           /\ Rat(m) = Zero <=> m = 0
           /\ Rat(m) = One <=> m = 1
<1>1. PICK z, u \in Int : z = 0 /\ u = 1
  OBVIOUS
<1>2. Zero = Rat(z) /\ One = Rat(u)
  BY <1>1, UnitArithmetic
<1>3. /\ Rat(m) ++ Rat(u) = Rat(m + u) /\ Rat(m) -- Rat(u) = Rat(m - u)
      /\ Rat(m) \preceq Rat(z) <=> m <= z
      /\ Rat(u) \preceq Rat(m) <=> u <= m
      /\ Rat(m) = Rat(z) <=> m = z
      /\ Rat(m) = Rat(u) <=> m = u
  BY UnitArithmetic
<1> QED BY <1>1, <1>2, <1>3

\* The list of trades of one symbol is replaced by its new trade.
LEMMA UpsertIs ==
    ASSUME NEW r, r # NoResult
    PROVE  /\ _upsert_trade(<<>>, r) = <<r>>
           /\ \A x : x.id = r.id => _upsert_trade(<<x>>, r) = <<r>>
<1>1. other_trades(<<>>, r.id) = <<>>
  <2> DEFINE G(f) == f = [n \in 0 .. 0 |-> IF n = 0 THEN <<>>
                             ELSE IF <<>>[n].id = r.id THEN f[n - 1]
                             ELSE Append(f[n - 1], <<>>[n])]
  <2>1. G([n \in 0 .. 0 |-> <<>>])
    OBVIOUS
  <2>2. G(CHOOSE f : G(f))
    BY <2>1
  <2>3. \A f : G(f) => f[0] = <<>>
    OBVIOUS
  <2>4. other_trades(<<>>, r.id) = (CHOOSE f : G(f))[0]
    BY DEF other_trades
  <2> QED BY <2>2, <2>3, <2>4
<1>2. ASSUME NEW x, x.id = r.id PROVE other_trades(<<x>>, r.id) = <<>>
  <2> DEFINE l == <<x>>
             G(f) == f = [n \in 0 .. 1 |-> IF n = 0 THEN <<>>
                             ELSE IF l[n].id = r.id THEN f[n - 1]
                             ELSE Append(f[n - 1], l[n])]
  <2>1. G([n \in 0 .. 1 |-> <<>>])
    <3>1. l[1] = x
      OBVIOUS
    <3> HIDE DEF l
    <3>2. \A n \in 0 .. 1 : n = 0 \/ (n = 1 /\ n - 1 \in 0 .. 1)
      OBVIOUS
    <3> QED BY <1>2, <3>1, <3>2
  <2>2. G(CHOOSE f : G(f))
    BY <2>1
  <2>3. \A f : G(f) => f[1] = <<>>
    <3>1. l[1] = x
      OBVIOUS
    <3> HIDE DEF l
    <3> QED BY <1>2, <3>1
  <2>4. other_trades(l, r.id) = (CHOOSE f : G(f))[1]
    BY DEF other_trades
  <2> QED BY <2>2, <2>3, <2>4
<1>3. Append(<<>>, r) = <<r>>
  OBVIOUS
<1>4. \A l : _upsert_trade(l, r) = Append(other_trades(l, r.id), r)
  BY DEF _upsert_trade
<1> QED BY <1>1, <1>2, <1>3, <1>4

-----------------------------------------------------------------------------
(* Sessions with a symbol of their own hold what their position says.       *)

Symbol(s) == SymbolOf[s]

OwnSymbols == \A s, r \in Sessions : SymbolOf[s] = SymbolOf[r] => s = r

IsUnitFill(e) == e.side \in {"buy", "sell"} /\ e.quantity = One

last_entry(p) == p.ledger[Len(p.ledger)]

\* The portfolio p is one of a session on symbol y that holds n units.
HoldsUnits(p, y, n) ==
    /\ n \in Nat
    /\ p # Portfolios!NoPortfolio /\ p.state # "closed"
    /\ DOMAIN p.positions = IF n = 0 THEN {} ELSE {y}
    /\ n # 0 => /\ DOMAIN p.positions[y] = {"quantity", "average_cost"}
                /\ p.positions[y].quantity = Rat(n)
    /\ IsSeq(p.ledger) /\ p.ledger # <<>>
    /\ last_entry(p).symbol = y /\ IsUnitFill(last_entry(p))

\* The fills of a long position, b of them buys and k of them sells.
UnitHistory(h, b, k) ==
    /\ b \in Nat /\ k \in Nat
    /\ IsSeq(h) /\ h # <<>> /\ h[1].side = "buy"
    /\ \A i \in DOMAIN h : IsUnitFill(h[i])
    /\ Trading!quantity_of(h, {"buy"}) = Rat(b)
    /\ Trading!quantity_of(h, {"sell"}) = Rat(k)

\* The position p with the history h is closed, or it has m units left, none if there
\* is no position yet.
PositionUnits(p, h, m) ==
    \/ p = Trading!NoPosition /\ h = <<>> /\ m = 0
    \/ p # Trading!NoPosition /\ p.state = "closed"
    \/ /\ p # Trading!NoPosition /\ p.state \in {"open", "partially_closed"}
       /\ m # 0 /\ p.quantity = Rat(m)
       /\ \E b, k \in Nat : UnitHistory(h, b, k) /\ m = b - k

\* The totals after one more fill.
LEMMA UnitTotals ==
    ASSUME NEW h, IsSeq(h), \A i \in DOMAIN h : IsUnitFill(h[i]),
           NEW e, IsUnitFill(e), NEW sides
    PROVE  /\ \A i \in DOMAIN Append(h, e) : IsUnitFill(Append(h, e)[i])
           /\ Trading!quantity_of(h, sides) \in Rats
           /\ Trading!quantity_of(Append(h, e), sides) =
                 IF e.side \in sides THEN Trading!quantity_of(h, sides) ++ One
                 ELSE Trading!quantity_of(h, sides)
           /\ h = <<>> => Trading!quantity_of(h, sides) = Zero
<1> DEFINE n == Len(h) + 1
           new == Append(h, e)
           D(l) == {i \in DOMAIN l : l[i].side \in sides}
           f == [i \in D(h) |-> h[i].quantity]
           g == [i \in D(new) |-> new[i].quantity]
<1>1. /\ IsSeq(new) /\ Len(h) \in Nat /\ Len(new) = n
      /\ \A i \in 1..Len(h) : new[i] = h[i]
      /\ new[n] = e
  BY AppendIs
<1>2. DOMAIN new = 1..n /\ DOMAIN h = 1..Len(h) /\ n \in Nat
  BY <1>1, SeqIs
<1>3. /\ DOMAIN new = DOMAIN h \union {n} /\ n \notin DOMAIN h
      /\ \A i \in DOMAIN h : new[i] = h[i]
  BY <1>1, <1>2
<1>4. IsFiniteSet(DOMAIN h) /\ IsFiniteSet(DOMAIN new)
  BY <1>1, <1>2, FS_Interval
<1>5. /\ Trading!quantity_of(h, sides) = RatSum(f)
      /\ Trading!quantity_of(new, sides) = RatSum(g)
  BY TradingArithmetic DEF Trading!quantity_of
<1>6. h = <<>> => DOMAIN f = {}
  BY <1>2
<1> HIDE DEF new, n
<1>7. \A i \in DOMAIN new : IsUnitFill(new[i])
  BY <1>1, <1>3
<1>8. One \in Rats
  BY UnitArithmetic
<1>9. Summable(f) /\ Summable(g)
  <2>1. D(h) \in SUBSET DOMAIN h /\ D(new) \in SUBSET DOMAIN new
    OBVIOUS
  <2>2. IsFiniteSet(D(h)) /\ IsFiniteSet(D(new))
    BY <1>4, <2>1, FS_Subset
  <2> QED BY <1>7, <1>8, <2>1, <2>2 DEF Summable, IsUnitFill
<1>10. CASE e.side \in sides
  <2>1. /\ n \notin DOMAIN f /\ DOMAIN g = DOMAIN f \union {n}
        /\ \A i \in DOMAIN f : g[i] = f[i]
        /\ g[n] = One
    BY <1>1, <1>3, <1>10 DEF IsUnitFill
  <2> HIDE DEF f, g
  <2>2. RatSum(g) = RatSum(f) ++ g[n]
    BY <1>9, <2>1, SumGrows
  <2> QED BY <1>5, <1>6, <1>7, <1>9, <1>10, <2>1, <2>2, SumIs DEF new
<1>11. CASE e.side \notin sides
  <2>1. f = g
    <3>1. D(new) = D(h)
      BY <1>1, <1>3, <1>11
    <3> QED BY <1>3, <3>1
  <2> HIDE DEF f, g
  <2> QED BY <1>5, <1>6, <1>7, <1>9, <1>11, <2>1, SumIs DEF new
<1> QED BY <1>10, <1>11

\* The position of a history of unit fills that sells no more than it bought.
UnitPosition(h) == Trading!Position(Trading!calculate(h), Trading!derive_state(h))

LEMMA UnitPositionIs ==
    ASSUME NEW h, NEW b, NEW k, UnitHistory(h, b, k), k <= b
    PROVE  LET p == UnitPosition(h)
           IN  /\ p # Trading!NoPosition
               /\ p.quantity = Rat(b - k) /\ p.total_bought = Rat(b) /\ p.total_sold = Rat(k)
               /\ p.state \in {"closed", "open", "partially_closed"}
               /\ p.state = "closed" <=> b = k
               /\ b # k /\ (\A i \in DOMAIN h : h[i].side = "buy") => p.state = "open"
               /\ Trading!calculator_ok(h)
<1> DEFINE c == Trading!calculate(h)
           p == UnitPosition(h)
<1>1. b \in Int /\ k \in Int /\ b - k \in Int
  BY DEF UnitHistory
<1>2. Trading!exit_side(h) = "sell" /\ h[1].side = "buy"
  BY DEF UnitHistory, Trading!exit_side
<1>3. /\ Trading!quantity_of(h, {"buy"}) = Rat(b)
      /\ Trading!quantity_of(h, {"sell"}) = Rat(k)
  BY DEF UnitHistory
<1>4. /\ c.quantity = Rat(b) -- Rat(k)
      /\ c.total_bought = Rat(b) /\ c.total_sold = Rat(k)
  BY <1>2, <1>3, TradingArithmetic DEF Trading!calculate
<1>5. c.quantity = Rat(b - k)
  BY <1>1, <1>4, UnitArithmetic
<1>6. Trading!calculator_ok(h)
  BY <1>1, <1>2, <1>3, TradingArithmetic, UnitArithmetic DEF Trading!calculator_ok
<1> HIDE DEF c
<1>7. Trading!\preceq(c.quantity, Trading!Zero) <=> b = k
  <2>1. PICK d \in Int : d = b - k
    BY <1>1
  <2>2. Rat(d) \preceq Zero <=> d <= 0
    BY UnitSteps
  <2>3. Trading!\preceq(c.quantity, Trading!Zero) <=> Rat(d) \preceq Zero
    BY <1>5, <2>1, TradingArithmetic
  <2> QED BY <1>1, <2>1, <2>2, <2>3
<1>8. /\ p.quantity = c.quantity /\ p.total_bought = c.total_bought
      /\ p.total_sold = c.total_sold /\ p.state = Trading!derive_state(h)
      /\ "quantity" \in DOMAIN p
  BY DEF UnitPosition, Trading!Position, c
<1>9. p # Trading!NoPosition
  BY <1>8 DEF Trading!NoPosition
<1>10. /\ p.state \in {"closed", "open", "partially_closed"}
       /\ p.state = "closed" <=> b = k
       /\ b # k /\ (\A i \in DOMAIN h : h[i].side = "buy") => p.state = "open"
  BY <1>2, <1>7, <1>8 DEF Trading!derive_state, c
<1> QED BY <1>4, <1>5, <1>6, <1>8, <1>9, <1>10

\* A fill that leaves n units of an open position of m.
LEMMA FillTaken ==
    ASSUME NEW y \in Symbols, NEW m, NEW n \in Nat, NEW e, IsUnitFill(e),
           PositionUnits(positions[y], histories[y], m),
           positions[y] # Trading!NoPosition => positions[y].state # "closed",
           n = IF e.side = "buy" THEN m + 1 ELSE m - 1
    PROVE  LET p == Trading!new_position(y, e)
               h == Trading!new_history(y, e)
           IN  /\ Trading!PositionSucceeds(y, e)
               /\ p # Trading!NoPosition /\ PositionUnits(p, h, n)
               /\ positions[y] = Trading!NoPosition =>
                     /\ p.state = "open" /\ p.quantity = One
                     /\ p.total_bought = One /\ p.total_sold = Zero
<1> DEFINE old == histories[y]
           h == Append(old, e)
           p == UnitPosition(h)
<1>1. Trading!new_history(y, e) = h /\ Trading!new_position(y, e) = p
  BY DEF Trading!new_history, Trading!new_position, UnitPosition
<1>2. /\ IsSeq(old) /\ \A i \in DOMAIN old : IsUnitFill(old[i])
      /\ \/ positions[y] = Trading!NoPosition /\ old = <<>> /\ m = 0
         \/ /\ positions[y] # Trading!NoPosition
            /\ positions[y].state \in {"open", "partially_closed"}
            /\ m # 0 /\ \E b, k \in Nat : UnitHistory(old, b, k) /\ m = b - k
  <2>1. IsSeq(<<>>) /\ DOMAIN <<>> = {}
    BY DEF IsSeq
  <2> QED BY <2>1 DEF PositionUnits, UnitHistory
<1>3. /\ IsSeq(h) /\ h # <<>> /\ Len(old) \in Nat /\ Len(h) = Len(old) + 1
      /\ \A i \in 1..Len(old) : h[i] = old[i]
      /\ h[Len(old) + 1] = e
      /\ DOMAIN h = 1..Len(h) /\ DOMAIN old = 1..Len(old)
  BY <1>2, AppendIs, SeqIs
<1>4. \A i \in DOMAIN h : IsUnitFill(h[i])
  BY <1>2, UnitTotals
<1>5. \A sides : /\ Trading!quantity_of(h, sides) =
                        IF e.side \in sides THEN Trading!quantity_of(old, sides) ++ One
                        ELSE Trading!quantity_of(old, sides)
                 /\ old = <<>> => Trading!quantity_of(old, sides) = Zero
  BY <1>2, UnitTotals
<1>6. CASE positions[y] = Trading!NoPosition /\ old = <<>> /\ m = 0
  <2>1. e.side = "buy" /\ n = 1
    BY <1>6 DEF IsUnitFill
  <2>2. Len(old) = 0 /\ h[1] = e /\ DOMAIN h = {1}
    BY <1>3, <1>6
  <2>3. /\ Trading!quantity_of(h, {"buy"}) = Zero ++ One
        /\ Trading!quantity_of(h, {"sell"}) = Zero
    BY <1>5, <1>6, <2>1
  <2>4. Zero ++ One = Rat(1)
    BY UnitArithmetic
  <2>5. UnitHistory(h, 1, 0)
    BY <1>3, <1>4, <2>1, <2>2, <2>3, <2>4, UnitArithmetic DEF UnitHistory
  <2> HIDE DEF h
  <2>6. /\ p # Trading!NoPosition
        /\ p.quantity = Rat(1 - 0) /\ p.total_bought = Rat(1) /\ p.total_sold = Rat(0)
        /\ p.state = "open" /\ Trading!calculator_ok(h)
    BY <2>1, <2>2, <2>5, UnitPositionIs
  <2>7. p.state = Trading!derive_state(h)
    BY DEF UnitPosition, Trading!Position
  <2>8. Trading!PositionSucceeds(y, e)
    BY <1>1, <1>6, <2>6, <2>7
    DEF Trading!PositionSucceeds, Trading!source_state, Trading!can_transition,
        Trading!VALID_TRANSITIONS
  <2>9. PositionUnits(p, h, n)
    BY <2>1, <2>5, <2>6 DEF PositionUnits
  <2> QED BY <1>1, <2>6, <2>8, <2>9, UnitArithmetic
<1>7. CASE /\ positions[y] # Trading!NoPosition
           /\ positions[y].state \in {"open", "partially_closed"}
           /\ m # 0 /\ \E b, k \in Nat : UnitHistory(old, b, k) /\ m = b - k
  <2>1. PICK b, k \in Nat : UnitHistory(old, b, k) /\ m = b - k
    BY <1>7
  <2>2. PICK b2, k2 \in Nat :
            IF e.side = "buy" THEN b2 = b + 1 /\ k2 = k ELSE b2 = b /\ k2 = k + 1
    OBVIOUS
  <2>3. n = b2 - k2 /\ k2 <= b2
    BY <2>1, <2>2
  <2>4. /\ Trading!quantity_of(h, {"buy"}) = Rat(b2)
        /\ Trading!quantity_of(h, {"sell"}) = Rat(k2)
    <3>1. Rat(b) ++ One = Rat(b + 1) /\ Rat(k) ++ One = Rat(k + 1)
      BY UnitSteps
    <3> QED BY <1>5, <2>1, <2>2, <3>1 DEF UnitHistory, IsUnitFill
  <2>5. UnitHistory(h, b2, k2)
    <3>1. h[1] = old[1]
      BY <1>3, <2>1 DEF UnitHistory
    <3> QED BY <1>3, <1>4, <2>1, <2>4, <3>1 DEF UnitHistory
  <2> HIDE DEF h
  <2>6. /\ p # Trading!NoPosition
        /\ p.quantity = Rat(n) /\ Trading!calculator_ok(h)
        /\ p.state \in {"closed", "open", "partially_closed"}
        /\ p.state = "closed" <=> n = 0
    <3>1. /\ p # Trading!NoPosition
          /\ p.quantity = Rat(b2 - k2) /\ Trading!calculator_ok(h)
          /\ p.state \in {"closed", "open", "partially_closed"}
          /\ p.state = "closed" <=> b2 = k2
      BY <2>3, <2>5, UnitPositionIs
    <3>2. b2 = k2 <=> n = 0
      <4>1. \A i, j, l \in Nat : l = i - j => (i = j <=> l = 0)
        OBVIOUS
      <4> QED BY <2>3, <4>1, Zenon
    <3>3. Rat(b2 - k2) = Rat(n)
      BY <2>3, Zenon
    <3> HIDE DEF p
    <3> QED BY <3>1, <3>2, <3>3
  <2>7. p.state = Trading!derive_state(h)
    BY DEF UnitPosition, Trading!Position
  <2>8. Trading!PositionSucceeds(y, e)
    BY <1>1, <1>7, <2>6, <2>7
    DEF Trading!PositionSucceeds, Trading!source_state, Trading!can_transition,
        Trading!VALID_TRANSITIONS
  <2>9. PositionUnits(p, h, n)
    BY <2>3, <2>5, <2>6 DEF PositionUnits
  <2> QED BY <1>1, <1>7, <2>6, <2>8, <2>9
<1> QED BY <1>2, <1>6, <1>7

\* A closed position takes no fill.
LEMMA ClosedTakesNone ==
    ASSUME NEW y, NEW e, positions[y] # Trading!NoPosition, positions[y].state = "closed"
    PROVE  ~Trading!UpdatePosition(y, e)
BY DEF Trading!UpdatePosition, Trading!PositionSucceeds, Trading!source_state

\* The trade framework takes the first update of a long position.
LEMMA FirstTrade ==
    ASSUME NEW y \in Symbols, trades[y] = Trading!NoTrade, NEW p,
           p.state = "open", p.quantity = One, p.total_bought = One, p.total_sold = Zero
    PROVE  Trading!TradeSucceeds(y, p)
<1>1. /\ Zero \prec One /\ ~(One \preceq Zero) /\ ~(Zero \prec Zero) /\ Zero \preceq One
  BY UnitArithmetic
<1>2. Trading!derive_trade_state(p) = "open"
  BY <1>1, TradingArithmetic DEF Trading!derive_trade_state, Trading!match_completed
<1>3. Trading!has_delta(trades[y], p)
  BY <1>1, TradingArithmetic DEF Trading!has_delta, Trading!tracked
<1> QED BY <1>1, <1>2, <1>3, TradingArithmetic
    DEF Trading!TradeSucceeds, Trading!trade_source, Trading!trade_can_transition,
        Trading!TRADE_TRANSITIONS

\* A trade is one.
LEMMA BuiltTrade ==
    ASSUME NEW t, NEW p
    PROVE  Trading!build(t, p) # Trading!NoTrade
<1>1. "fill_count" \in DOMAIN Trading!build(t, p)
  BY DEF Trading!build
<1> QED BY <1>1 DEF Trading!NoTrade

\* A portfolio that holds n units takes every buy, and a sell unless n is 0.
LEMMA UnitBooking ==
    ASSUME NEW s \in Sessions, NEW y, NEW n \in Nat, NEW f, f.symbol = y, IsUnitFill(f),
           \/ portfolios[s] = Portfolios!NoPortfolio /\ n = 0
           \/ HoldsUnits(portfolios[s], y, n)
    PROVE  LET c == portfolio_context(f)
               p == Portfolios!updated(Portfolios!load(s), c)
           IN  /\ Portfolios!Succeeds(s, c) <=> f.side = "buy" \/ n # 0
               /\ f.side = "buy" => HoldsUnits(p, y, n + 1)
               /\ f.side = "sell" /\ n # 0 => HoldsUnits(p, y, n - 1)
               /\ last_entry(p).side = f.side
<1> DEFINE c == portfolio_context(f)
           old == Portfolios!load(s)
           p == Portfolios!updated(old, c)
           e == Portfolios!entry(c)
           pos == old.positions
<1>1. /\ e.symbol = y /\ e.side = f.side /\ e.quantity = One
      /\ Portfolios!execution_ok(c) /\ y \in DOMAIN c.prices
  BY DEF portfolio_context, Portfolios!entry, Portfolios!LedgerEntry, Portfolios!execution_ok,
         IsUnitFill
<1>2. /\ old.state # "closed" /\ IsSeq(old.ledger)
      /\ DOMAIN pos = IF n = 0 THEN {} ELSE {y}
      /\ n # 0 => /\ DOMAIN pos[y] = {"quantity", "average_cost"}
                  /\ pos[y].quantity = Rat(n)
  <2>1. IsSeq(<<>>) /\ DOMAIN <<>> = {}
    BY DEF IsSeq
  <2> QED BY <2>1 DEF Portfolios!load, Portfolios!NewPortfolio, HoldsUnits
<1> HIDE DEF old, e, pos, c
<1>3. /\ p.state = "active" /\ p # Portfolios!NoPortfolio
      /\ p.ledger = Append(old.ledger, e)
      /\ p.positions = Portfolios!holdings_apply(pos, e)
  BY DEF Portfolios!updated, Portfolios!NoPortfolio, e, pos
<1>4. /\ IsSeq(p.ledger) /\ p.ledger # <<>> /\ last_entry(p) = e /\ IsUnitFill(e)
  <2>1. /\ IsSeq(p.ledger) /\ Len(old.ledger) \in Nat
        /\ Len(p.ledger) = Len(old.ledger) + 1 /\ p.ledger[Len(old.ledger) + 1] = e
    BY <1>2, <1>3, AppendIs
  <2> QED BY <1>1, <2>1 DEF last_entry, IsUnitFill
<1>5. /\ Zero \prec One /\ Rat(n) ++ One = Rat(n + 1) /\ Rat(n) -- One = Rat(n - 1)
      /\ One \preceq Rat(n) <=> 1 <= n
      /\ One = Rat(1)
      /\ Rat(n - 1) = Zero <=> n - 1 = 0
  <2>1. n \in Int /\ n - 1 \in Int
    OBVIOUS
  <2>2. Zero \prec One /\ One = Rat(1)
    BY UnitArithmetic
  <2>3. /\ Rat(n) ++ One = Rat(n + 1) /\ Rat(n) -- One = Rat(n - 1)
        /\ One \preceq Rat(n) <=> 1 <= n
    BY <2>1, UnitSteps
  <2>4. Rat(n - 1) = Zero <=> n - 1 = 0
    BY <2>1, UnitSteps
  <2> QED BY <2>2, <2>3, <2>4
<1>6. Portfolios!holdings_ok(pos, e) <=> f.side = "buy" \/ n # 0
  BY <1>1, <1>2, <1>5, PortfolioArithmetic DEF Portfolios!holdings_ok, IsUnitFill
<1>7. ASSUME f.side = "buy"
      PROVE  /\ DOMAIN p.positions = {y}
             /\ DOMAIN p.positions[y] = {"quantity", "average_cost"}
             /\ p.positions[y].quantity = Rat(n + 1)
  <2>1. /\ DOMAIN p.positions = {y} /\ p.positions[y] = Portfolios!bought(pos, e)
    BY <1>1, <1>2, <1>3, <1>7 DEF Portfolios!holdings_apply
  <2>2. /\ DOMAIN Portfolios!bought(pos, e) = {"quantity", "average_cost"}
        /\ Portfolios!bought(pos, e).quantity = Rat(n + 1)
    <3>1. CASE n = 0
      <4>1. y \notin DOMAIN pos /\ n + 1 = 1
        BY <1>2, <3>1
      <4> QED BY <1>1, <1>5, <4>1 DEF Portfolios!bought
    <3>2. CASE n # 0
      <4>1. y \in DOMAIN pos /\ Portfolios!++(pos[y].quantity, e.quantity) = Rat(n + 1)
        BY <1>1, <1>2, <1>5, <3>2, PortfolioArithmetic
      <4> QED BY <1>1, <4>1 DEF Portfolios!bought
    <3> QED BY <3>1, <3>2
  <2> QED BY <2>1, <2>2
<1>8. ASSUME f.side = "sell", n # 0
      PROVE  /\ DOMAIN p.positions = IF n - 1 = 0 THEN {} ELSE {y}
             /\ n - 1 # 0 => /\ DOMAIN p.positions[y] = {"quantity", "average_cost"}
                             /\ p.positions[y].quantity = Rat(n - 1)
  <2> DEFINE r == Portfolios!--(pos[e.symbol].quantity, e.quantity)
  <2>1. /\ r = Rat(n - 1) /\ (r = Portfolios!Zero <=> n - 1 = 0)
        /\ e.side # "buy" /\ DOMAIN pos = {y} /\ e.symbol = y
    BY <1>1, <1>2, <1>5, <1>8, PortfolioArithmetic
  <2>2. p.positions = IF r = Portfolios!Zero
                      THEN Portfolios!Restrict(pos, DOMAIN pos \ {y})
                      ELSE [pos EXCEPT ![y].quantity = r]
    BY <1>3, <2>1 DEF Portfolios!holdings_apply
  <2>3. CASE n - 1 = 0
    BY <2>1, <2>2, <2>3 DEF Portfolios!Restrict
  <2>4. CASE n - 1 # 0
    BY <1>2, <1>8, <2>1, <2>2, <2>4
  <2> QED BY <2>3, <2>4
<1>9. f.side \in {"buy", "sell"} /\ n + 1 \in Nat /\ n + 1 # 0 /\ (n # 0 => n - 1 \in Nat)
  BY DEF IsUnitFill
<1>10. Portfolios!Succeeds(s, c) <=> f.side = "buy" \/ n # 0
  <2>1. ASSUME f.side = "buy" \/ n # 0 PROVE Portfolios!valuation_ok(p, c.prices)
    <3>1. DOMAIN p.positions \subseteq {y}
      BY <1>7, <1>8, <1>9, <2>1
    <3> QED BY <1>1, <3>1 DEF Portfolios!valuation_ok
  <2> QED BY <1>1, <1>2, <1>6, <2>1 DEF Portfolios!Succeeds, old, e, pos
<1>11. f.side = "buy" => HoldsUnits(p, y, n + 1)
  BY <1>1, <1>3, <1>4, <1>7, <1>9 DEF HoldsUnits
<1>12. f.side = "sell" /\ n # 0 => HoldsUnits(p, y, n - 1)
  BY <1>1, <1>3, <1>4, <1>8, <1>9 DEF HoldsUnits
<1> QED BY <1>1, <1>4, <1>10, <1>11, <1>12 DEF c, old

-----------------------------------------------------------------------------
(* A session mirrors the frameworks between its updates.                    *)

\* The session x has the position and the trade of symbol y as the frameworks have
\* them.
PositionMirrored(x, y) ==
    x.position_result = IF positions[y] = Trading!NoPosition THEN NoResult
                        ELSE [position |-> positions[y]]

TradeMirrored(x, y) ==
    IF trades[y] = Trading!NoTrade
    THEN x.trade_result = NoResult /\ x.trades = <<>>
    ELSE /\ x.trade_result = [id |-> y, trade |-> trades[y]]
         /\ x.trades = <<x.trade_result>>

Untouched(s) ==
    /\ portfolios[s] = Portfolios!NoPortfolio
    /\ positions[Symbol(s)] = Trading!NoPosition /\ histories[Symbol(s)] = <<>>

\* The position of session s has the units its portfolio holds, or it is closed.
Synced(s) ==
    LET y == Symbol(s)
    IN  \/ Untouched(s)
        \/ \E n \in Nat : /\ HoldsUnits(portfolios[s], y, n)
                          /\ positions[y] # Trading!NoPosition
                          /\ PositionUnits(positions[y], histories[y], n)

\* It has yet to take the last entry of the portfolio's ledger, or it is closed.
Behind(s) ==
    LET y == Symbol(s)
    IN  \/ Untouched(s)
        \/ \E n, m \in Nat :
              /\ HoldsUnits(portfolios[s], y, n)
              /\ \/ positions[y] # Trading!NoPosition /\ positions[y].state = "closed"
                 \/ /\ PositionUnits(positions[y], histories[y], m)
                    /\ n = IF last_entry(portfolios[s]).side = "buy" THEN m + 1 ELSE m - 1

Traded(y) == positions[y] = Trading!NoPosition <=> trades[y] = Trading!NoTrade

\* Or the trade framework has yet to hear of the first fill.
TradeDue(y) ==
    \/ Traded(y)
    \/ /\ positions[y] # Trading!NoPosition
       /\ positions[y].state = "open" /\ positions[y].quantity = One
       /\ positions[y].total_bought = One /\ positions[y].total_sold = Zero

Settled(s) ==
    /\ PositionMirrored(load_session(s), Symbol(s))
    /\ TradeMirrored(load_session(s), Symbol(s))
    /\ Synced(s) /\ Traded(Symbol(s))

DraftMirrorOK(t) ==
    LET s == update[t].session
    IN  /\ PositionMirrored(draft[t], Symbol(s)) /\ TradeMirrored(draft[t], Symbol(s))
        /\ pc[t] = "step" => Settled(s)
        /\ IF pc[t] = "booked" THEN Behind(s) ELSE Synced(s)
        /\ IF pc[t] = "positioned" THEN TradeDue(Symbol(s)) ELSE Traded(Symbol(s))

\* The frameworks agree with the sessions, but for the session an update is in
\* progress for, which is as far as the stages it went through.
MirrorOK ==
    /\ DOMAIN positions = Symbols /\ DOMAIN histories = Symbols /\ DOMAIN trades = Symbols
    /\ \A s \in Sessions : ~busy(s) => Settled(s)
    /\ \A t \in Tasks : pc[t] \in WorkLabels => DraftMirrorOK(t)

\* The inductive invariant behind SessionMirrorsBook.
MirrorInv == BookInv /\ MirrorOK

\* A step of a call that leaves the sessions and the frameworks alone.
LEMMA MirrorQuiet ==
    ASSUME MirrorInv, NEW t \in Tasks, NEW label, pc' = [pc EXCEPT ![t] = label],
           UNCHANGED <<sessions, portfolios, positions, histories, trades>>,
           \A u \in Tasks \ {t} : update'[u] = update[u] /\ draft'[u] = draft[u],
           label \in WorkLabels => update'[t] = update[t] /\ DraftMirrorOK(t)',
           pc[t] \in WorkLabels /\ label \notin WorkLabels => Settled(update[t].session)
    PROVE  MirrorOK'
<1> USE DEF MirrorInv, BookInv, CountInv, LockInv
<1>1. pc'[t] = label /\ \A u \in Tasks \ {t} : pc'[u] = pc[u]
  BY DEF CallsOK
<1>2. \A s : /\ load_session(s)' = load_session(s)
             /\ Settled(s)' <=> Settled(s)
             /\ Synced(s)' <=> Synced(s)
             /\ Behind(s)' <=> Behind(s)
  BY DEF load_session, Settled, PositionMirrored, TradeMirrored, Traded, Synced, Behind,
         Untouched, Symbol
<1>3. ASSUME NEW s \in Sessions, ~busy(s)' PROVE Settled(s)
  <2>1. CASE pc[t] \in WorkLabels /\ label \notin WorkLabels /\ update[t].session = s
    BY <2>1
  <2>2. CASE ~(pc[t] \in WorkLabels /\ label \notin WorkLabels /\ update[t].session = s)
    <3>1. ~busy(s)
      BY <1>1, <1>3, <2>2 DEF busy, Working, WorkLabels
    <3> QED BY <3>1 DEF MirrorOK
  <2> QED BY <2>1, <2>2
<1>4. ASSUME NEW u \in Tasks, pc'[u] \in WorkLabels PROVE DraftMirrorOK(u)'
  <2>1. CASE u = t
    BY <1>1, <1>4, <2>1
  <2>2. CASE u # t
    <3>1. /\ DraftMirrorOK(u) /\ update'[u] = update[u] /\ draft'[u] = draft[u]
          /\ pc'[u] = pc[u]
      BY <1>1, <1>4, <2>2 DEF MirrorOK
    <3> QED BY <1>2, <3>1 DEF DraftMirrorOK, PositionMirrored, TradeMirrored, Traded, TradeDue
  <2> QED BY <2>1, <2>2
<1>5. \A s \in Sessions : ~busy(s)' => Settled(s)'
  BY <1>2, <1>3
<1> QED BY <1>4, <1>5 DEF MirrorOK

\* A step of the call that works, on what the frameworks have of its session alone.
LEMMA MirrorStage ==
    ASSUME OwnSymbols, MirrorInv, NEW t \in Tasks, pc[t] \in WorkLabels,
           NEW s \in Sessions, s = update[t].session,
           NEW label \in WorkLabels, pc' = [pc EXCEPT ![t] = label],
           UNCHANGED <<sessions, update>>,
           DOMAIN positions' = Symbols, DOMAIN histories' = Symbols, DOMAIN trades' = Symbols,
           \A z \in Sessions \ {s} : portfolios'[z] = portfolios[z],
           \A y \in Symbols \ {Symbol(s)} :
              /\ positions'[y] = positions[y] /\ histories'[y] = histories[y]
              /\ trades'[y] = trades[y],
           DraftMirrorOK(t)'
    PROVE  MirrorOK'
<1> USE DEF MirrorInv, BookInv, CountInv, LockInv
<1>1. \A u \in Tasks : pc'[u] \in WorkLabels <=> u = t
  BY OnlyWorker DEF CallsOK
<1>2. ASSUME NEW z \in Sessions, ~busy(z)' PROVE Settled(z)'
  <2>1. z # s
    BY <1>1, <1>2 DEF busy, Working, WorkLabels
  <2>2. Settled(z)
    BY <2>1, OnlyWorker DEF MirrorOK
  <2>3. Symbol(z) \in Symbols \ {Symbol(s)}
    BY <2>1, PaperAssumption DEF OwnSymbols, Symbol
  <2>4. /\ portfolios'[z] = portfolios[z] /\ load_session(z)' = load_session(z)
        /\ positions'[Symbol(z)] = positions[Symbol(z)]
        /\ histories'[Symbol(z)] = histories[Symbol(z)]
        /\ trades'[Symbol(z)] = trades[Symbol(z)]
    BY <2>1, <2>3 DEF load_session
  <2> QED BY <2>2, <2>4 DEF Settled, PositionMirrored, TradeMirrored, Traded, Synced, Untouched,
                            Symbol
<1> QED BY <1>1, <1>2 DEF MirrorOK

\* A call that gets the lock finds its session settled.
LEMMA BeginMirrors ==
    ASSUME MirrorInv, NEW t \in Tasks, Begin(t)
    PROVE  MirrorOK'
<1> USE DEF MirrorInv, BookInv, CountInv, LockInv
<1>0. PICK s \in Sessions : s = update[t].session
  BY PaperAssumption DEF Begin, CallsOK
<1> DEFINE session == load_session(s)
<1>1. /\ pc[t] = "queued" /\ queue[1] = t
      /\ UNCHANGED <<portfolios, positions, histories, trades, update>>
  BY DEF Begin, book, tracking
<1>2. IsSession(session) /\ pc[t] \notin WorkLabels /\ \A z : ~busy(z)
  BY <1>1, LoadIs, OnlyWorker DEF WorkLabels
<1>3. Settled(s)
  BY <1>2 DEF MirrorOK
<1>4. CASE Refuse(t, session)
  BY <1>1, <1>2, <1>4, MirrorQuiet DEF Refuse, Goto, WorkLabels
<1>5. CASE StartPipeline(t, session)
  <2>1. /\ pc' = [pc EXCEPT ![t] = "step"] /\ sessions' = sessions
        /\ draft'[t] = session /\ \A u \in Tasks \ {t} : draft'[u] = draft[u]
        /\ pc'[t] = "step"
    BY <1>5 DEF StartPipeline, Goto, CallsOK
  <2>2. Settled(s)'
    BY <1>1, <1>3, <2>1 DEF Settled, load_session, PositionMirrored, TradeMirrored, Traded,
                            Synced, Untouched, Symbol
  <2>3. update'[t].session = s /\ session = load_session(s)'
    BY <1>0, <1>1, <2>1 DEF load_session
  <2>4. DraftMirrorOK(t)'
    BY <2>1, <2>2, <2>3 DEF DraftMirrorOK, Settled, PositionMirrored, TradeMirrored
  <2> QED BY <1>1, <1>2, <2>1, <2>4, MirrorQuiet
<1>6. CASE CancelSession(t, session)
  <2> DEFINE x == [session EXCEPT !.state = "cancelled"]
  <2>1. sessions' = [sessions EXCEPT ![s] = x] /\ pc' = [pc EXCEPT ![t] = "publishing"]
    BY <1>0, <1>6 DEF CancelSession, Goto
  <2>2. /\ x.state = "cancelled" /\ x.position_result = session.position_result
        /\ x.trade_result = session.trade_result /\ x.trades = session.trades
    BY <1>2 DEF IsSession, _new_session
  <2>3. x # NoSession
    BY <2>2 DEF NoSession
  <2> HIDE DEF x
  <2>4. load_session(s)' = x /\ \A z \in Sessions \ {s} : load_session(z)' = load_session(z)
    BY <2>1, <2>3 DEF load_session, SessionsOK
  <2>5. ASSUME NEW z \in Sessions PROVE Settled(z)'
    <3>1. Settled(z)
      BY <1>2 DEF MirrorOK
    <3>2. /\ load_session(z)'.position_result = load_session(z).position_result
          /\ load_session(z)'.trade_result = load_session(z).trade_result
          /\ load_session(z)'.trades = load_session(z).trades
      BY <2>2, <2>4
    <3> QED BY <1>1, <3>1, <3>2 DEF Settled, PositionMirrored, TradeMirrored, Traded,
                                    Synced, Untouched, Symbol
  <2>6. \A u \in Tasks : pc'[u] \notin WorkLabels
    BY <1>1, <2>1, OnlyWorker DEF WorkLabels, CallsOK
  <2> QED BY <1>1, <2>5, <2>6 DEF MirrorOK
<1> QED BY <1>0, <1>4, <1>5, <1>6 DEF Begin

\* What register() stores is settled.
LEMMA RegisterMirrors ==
    ASSUME MirrorInv, NEW t \in Tasks, Register(t)
    PROVE  MirrorOK'
<1> USE DEF MirrorInv, BookInv, CountInv, LockInv
<1>0. PICK s \in Sessions : s = update[t].session
  BY PaperAssumption DEF Register, CallsOK
<1> DEFINE x == new_session(t)
<1>1. /\ pc[t] = "analyzing" /\ pc' = [pc EXCEPT ![t] = "publishing"]
      /\ sessions' = [sessions EXCEPT ![s] = x]
      /\ UNCHANGED <<portfolios, positions, histories, trades, update>>
  BY <1>0 DEF Register, Goto, book, tracking, locals
<1>2. IsSession(draft[t]) /\ DraftMirrorOK(t)
  BY <1>1 DEF DraftsOK, DraftOK, WorkLabels, MirrorOK
<1>3. /\ x.state \in {"completed", "running"} /\ x.position_result = draft[t].position_result
      /\ x.trade_result = draft[t].trade_result /\ x.trades = draft[t].trades
  BY <1>2 DEF new_session, IsSession, _new_session
<1>4. x # NoSession
  BY <1>3 DEF NoSession
<1> HIDE DEF x
<1>5. load_session(s)' = x /\ \A z \in Sessions \ {s} : load_session(z)' = load_session(z)
  BY <1>1, <1>4 DEF load_session, SessionsOK
<1>6. Settled(s)'
  BY <1>0, <1>1, <1>2, <1>3, <1>5
  DEF DraftMirrorOK, Settled, PositionMirrored, TradeMirrored, Traded, Synced, Untouched, Symbol
<1>7. ASSUME NEW z \in Sessions \ {s} PROVE Settled(z)'
  <2>1. Settled(z)
    BY <1>0, <1>1, OnlyWorker DEF MirrorOK, WorkLabels
  <2> QED BY <1>1, <1>5, <2>1 DEF Settled, PositionMirrored, TradeMirrored, Traded, Synced,
                                  Untouched, Symbol
<1>8. \A u \in Tasks : pc'[u] \notin WorkLabels
  BY <1>1, OnlyWorker DEF WorkLabels, CallsOK
<1> QED BY <1>1, <1>6, <1>7, <1>8 DEF MirrorOK

\* _step() has nothing to fill.
LEMMA NothingMirrors ==
    ASSUME OwnSymbols, MirrorInv, NEW t \in Tasks, NothingToFill(t)
    PROVE  MirrorOK'
<1> USE DEF MirrorInv, BookInv, CountInv, LockInv
<1>0. PICK s \in Sessions : s = update[t].session
  BY PaperAssumption DEF NothingToFill, CallsOK
<1>1. /\ pc[t] = "step" /\ pc' = [pc EXCEPT ![t] = "analyzing"] /\ pc'[t] = "analyzing"
      /\ UNCHANGED <<sessions, portfolios, positions, histories, trades, update>>
      /\ draft'[t] = AddEquity(draft[t])
      /\ \A u \in Tasks \ {t} : draft'[u] = draft[u]
  BY DEF NothingToFill, Goto, book, tracking, CallsOK
<1>2. IsSession(draft[t]) /\ DraftMirrorOK(t)
  BY <1>1 DEF DraftsOK, DraftOK, WorkLabels, MirrorOK
<1>3. /\ draft'[t].position_result = draft[t].position_result
      /\ draft'[t].trade_result = draft[t].trade_result
      /\ draft'[t].trades = draft[t].trades
  BY <1>1, <1>2, AddEquityIs
<1>4. DraftMirrorOK(t)'
  BY <1>1, <1>2, <1>3 DEF DraftMirrorOK, PositionMirrored, TradeMirrored, Traded, Synced,
                          Untouched, Symbol
<1> QED BY <1>1, <1>4, MirrorQuiet DEF WorkLabels

\* _book() moves the holding one unit, or refuses to sell what is not held.
LEMMA BookMirrors ==
    ASSUME OwnSymbols, MirrorInv, NEW t \in Tasks, NEW side \in {"buy", "sell"}, Book(t, side)
    PROVE  MirrorOK'
<1> USE DEF MirrorInv, BookInv, CountInv, LockInv
<1>0. PICK s \in Sessions : s = update[t].session
  BY PaperAssumption DEF Book, CallsOK
<1> DEFINE y == Symbol(s)
           f == broker_fill(update[t], side)
           c == portfolio_context(f)
           p == Portfolios!updated(Portfolios!load(s), c)
<1>1. /\ pc[t] = "step" /\ pc' = [pc EXCEPT ![t] = "booked"] /\ pc'[t] = "booked"
      /\ UNCHANGED <<sessions, positions, histories, trades, update>>
      /\ \A u \in Tasks \ {t} : draft'[u] = draft[u]
      /\ Portfolios!Update(s, c) \/ Portfolios!UpdateFails(s, c)
  BY <1>0 DEF Book, Goto, tracking, CallsOK
<1>2. /\ draft'[t].position_result = draft[t].position_result
      /\ draft'[t].trade_result = draft[t].trade_result
      /\ draft'[t].trades = draft[t].trades
  BY BookDrafts
<1>3. /\ PositionMirrored(draft[t], y) /\ TradeMirrored(draft[t], y)
      /\ Synced(s) /\ Traded(y)
  BY <1>0, <1>1 DEF MirrorOK, WorkLabels, DraftMirrorOK
<1>4. /\ PositionMirrored(draft[t], y)' /\ TradeMirrored(draft[t], y)' /\ Traded(y)'
  BY <1>1, <1>2, <1>3 DEF PositionMirrored, TradeMirrored, Traded, Symbol
<1>5. f.symbol = y /\ IsUnitFill(f) /\ f.side = side
  BY <1>0 DEF broker_fill, PaperFill, Symbol, IsUnitFill
<1> HIDE DEF f, c
<1>6. PICK n \in Nat :
         \/ Untouched(s) /\ n = 0
         \/ /\ HoldsUnits(portfolios[s], y, n) /\ positions[y] # Trading!NoPosition
            /\ PositionUnits(positions[y], histories[y], n)
  BY <1>3 DEF Synced
<1>7. /\ Portfolios!Succeeds(s, c) <=> side = "buy" \/ n # 0
      /\ side = "buy" => HoldsUnits(p, y, n + 1)
      /\ side = "sell" /\ n # 0 => HoldsUnits(p, y, n - 1)
      /\ last_entry(p).side = side
  <2>1. \/ portfolios[s] = Portfolios!NoPortfolio /\ n = 0
        \/ HoldsUnits(portfolios[s], y, n)
    BY <1>6 DEF Untouched
  <2> HIDE DEF y
  <2>2. /\ Portfolios!Succeeds(s, c) <=> f.side = "buy" \/ n # 0
        /\ f.side = "buy" => HoldsUnits(p, y, n + 1)
        /\ f.side = "sell" /\ n # 0 => HoldsUnits(p, y, n - 1)
        /\ last_entry(p).side = f.side
    BY <1>5, <2>1, UnitBooking DEF c
  <2> HIDE DEF p
  <2> QED BY <1>5, <2>2
<1>8. PositionUnits(positions[y], histories[y], n)
  BY <1>6 DEF Untouched, PositionUnits
<1> HIDE DEF p, y
<1>9. Behind(s)' /\ \A z \in Sessions \ {s} : portfolios'[z] = portfolios[z]
  <2>1. CASE Portfolios!Update(s, c)
    <3>1. Portfolios!Succeeds(s, c) /\ portfolios' = [portfolios EXCEPT ![s] = p]
      BY <2>1 DEF Portfolios!Update, p
    <3>2. portfolios'[s] = p /\ \A z \in Sessions \ {s} : portfolios'[z] = portfolios[z]
      BY <3>1 DEF BookOK
    <3>3. PICK k \in Nat : HoldsUnits(p, y, k) /\ k = IF side = "buy" THEN n + 1 ELSE n - 1
      BY <1>7, <3>1
    <3>4. /\ HoldsUnits(portfolios'[s], y, k)
          /\ k = IF last_entry(portfolios'[s]).side = "buy" THEN n + 1 ELSE n - 1
          /\ PositionUnits(positions'[y], histories'[y], n)
      BY <1>1, <1>7, <1>8, <3>2, <3>3
    <3> QED BY <3>2, <3>4 DEF Behind, y, Symbol
  <2>2. CASE Portfolios!UpdateFails(s, c)
    <3>1. n = 0 /\ portfolios' = portfolios
      BY <1>7, <2>2 DEF Portfolios!UpdateFails, Portfolios!portfolio_vars
    <3>2. \/ Untouched(s)
          \/ /\ HoldsUnits(portfolios[s], y, n)
             /\ positions[y] # Trading!NoPosition /\ positions[y].state = "closed"
      BY <1>6, <3>1 DEF PositionUnits
    <3> QED BY <1>1, <3>1, <3>2 DEF Behind, Untouched, y, Symbol
  <2> QED BY <1>1, <2>1, <2>2
<1>10. update'[t].session = s /\ DraftMirrorOK(t)'
  BY <1>0, <1>1, <1>4, <1>9 DEF DraftMirrorOK, y
<1>11. /\ DOMAIN positions' = Symbols /\ DOMAIN histories' = Symbols /\ DOMAIN trades' = Symbols
  BY <1>1 DEF MirrorOK
<1> QED BY <1>0, <1>1, <1>9, <1>10, <1>11, MirrorStage DEF WorkLabels

\* _position() brings the position to what the portfolio holds, unless it is closed.
LEMMA PositionMirrors ==
    ASSUME OwnSymbols, MirrorInv, NEW t \in Tasks, Position(t)
    PROVE  MirrorOK'
<1> USE DEF MirrorInv, BookInv, CountInv, LockInv
<1>0. PICK s \in Sessions : s = update[t].session
  BY PaperAssumption DEF Position, CallsOK
<1> DEFINE y == Symbol(s)
           e == last_entry(portfolios[s])
<1>1. /\ pc[t] = "booked" /\ pc' = [pc EXCEPT ![t] = "positioned"] /\ pc'[t] = "positioned"
      /\ UNCHANGED <<sessions, portfolios, trades, update>>
  BY DEF Position, Goto, book, CallsOK
<1>2. /\ draft'[t].trade_result = draft[t].trade_result
      /\ draft'[t].trades = draft[t].trades
      /\ IsSession(draft[t])
  BY PositionDrafts
<1>3. /\ PositionMirrored(draft[t], y) /\ TradeMirrored(draft[t], y)
      /\ Behind(s) /\ Traded(y) /\ Mirrors(draft[t], s)
      /\ y \in Symbols
  BY <1>0, <1>1, PaperAssumption
  DEF MirrorOK, WorkLabels, DraftMirrorOK, BookOK, DraftBookOK, Symbol
<1>4. TradeMirrored(draft[t], y)'
  BY <1>1, <1>2, <1>3 DEF TradeMirrored, Symbol
<1>5. /\ portfolios[s] = Portfolios!NoPortfolio => draft[t].portfolio_result = NoResult
      /\ portfolios[s] # Portfolios!NoPortfolio =>
            /\ draft[t].portfolio_result # NoResult
            /\ draft[t].portfolio_result.portfolio = portfolios[s]
  <2> DEFINE r == [portfolio |-> portfolios[s], total_value |-> prev_value[s].total_value]
  <2>1. "portfolio" \in DOMAIN r /\ r.portfolio = portfolios[s]
    OBVIOUS
  <2>2. r # NoResult
    BY <2>1 DEF NoResult
  <2>3. /\ portfolios[s] = Portfolios!NoPortfolio => draft[t].portfolio_result = NoResult
        /\ portfolios[s] # Portfolios!NoPortfolio => draft[t].portfolio_result = r
    BY <1>3 DEF Mirrors
  <2> HIDE DEF r
  <2> QED BY <2>1, <2>2, <2>3
<1> HIDE DEF y, e
<1>6. CASE Untouched(s)
  <2>1. UNCHANGED <<positions, histories, draft>>
    BY <1>5, <1>6 DEF Position, Untouched
  <2>2. PositionMirrored(draft[t], y)' /\ Synced(s)' /\ Traded(y)'
    BY <1>1, <1>3, <1>6, <2>1
    DEF PositionMirrored, Synced, Untouched, Traded, y, Symbol
  <2>3. update'[t].session = s /\ DraftMirrorOK(t)'
    BY <1>0, <1>1, <1>4, <2>2 DEF DraftMirrorOK, TradeDue, y
  <2> QED BY <1>0, <1>1, <2>1, <2>3, MirrorStage DEF WorkLabels, MirrorOK
<1>7. ASSUME NEW n \in Nat, HoldsUnits(portfolios[s], y, n)
      PROVE  /\ e.symbol = y /\ IsUnitFill(e)
             /\ \/ /\ Trading!UpdatePosition(y, e)
                   /\ draft'[t].position_result = [position |-> positions'[y]]
                   /\ \A u \in Tasks \ {t} : draft'[u] = draft[u]
                \/ Trading!UpdatePositionFails(y, e) /\ UNCHANGED draft
  <2>1. e.symbol = y /\ IsUnitFill(e) /\ portfolios[s] # Portfolios!NoPortfolio
    BY <1>7 DEF HoldsUnits, e
  <2>2. /\ draft[t].portfolio_result # NoResult
        /\ draft[t].portfolio_result.portfolio.ledger
              [Len(draft[t].portfolio_result.portfolio.ledger)] = e
    BY <1>5, <2>1 DEF last_entry, e
  <2>3. \/ /\ Trading!UpdatePosition(y, e)
           /\ draft' = [draft EXCEPT ![t].position_result = [position |-> positions'[y]]]
        \/ Trading!UpdatePositionFails(y, e) /\ UNCHANGED draft
    BY <2>1, <2>2 DEF Position
  <2> QED BY <1>2, <2>1, <2>3 DEF CallsOK, IsSession, _new_session
<1>8. CASE \E n \in Nat : /\ HoldsUnits(portfolios[s], y, n)
                          /\ positions[y] # Trading!NoPosition /\ positions[y].state = "closed"
  <2>1. PICK n \in Nat : HoldsUnits(portfolios[s], y, n)
    BY <1>8
  <2>2. ~Trading!UpdatePosition(y, e)
    BY <1>8, ClosedTakesNone
  <2>3. UNCHANGED <<positions, histories, draft>>
    BY <1>7, <2>1, <2>2 DEF Trading!UpdatePositionFails, Trading!position_vars
  <2>4. Synced(s)'
    <3>1. PositionUnits(positions[y], histories[y], n)
      BY <1>8 DEF PositionUnits
    <3> QED BY <1>1, <1>8, <2>1, <2>3, <3>1 DEF Synced, y, Symbol
  <2>5. PositionMirrored(draft[t], y)' /\ Traded(y)'
    BY <1>1, <1>3, <2>3 DEF PositionMirrored, Traded, y, Symbol
  <2>6. update'[t].session = s /\ DraftMirrorOK(t)'
    BY <1>0, <1>1, <1>4, <2>4, <2>5 DEF DraftMirrorOK, TradeDue, y
  <2> QED BY <1>0, <1>1, <2>3, <2>6, MirrorStage DEF WorkLabels, MirrorOK
<1>9. CASE \E n, m \in Nat :
              /\ HoldsUnits(portfolios[s], y, n)
              /\ positions[y] # Trading!NoPosition => positions[y].state # "closed"
              /\ PositionUnits(positions[y], histories[y], m)
              /\ n = IF e.side = "buy" THEN m + 1 ELSE m - 1
  <2>1. PICK n, m \in Nat :
              /\ HoldsUnits(portfolios[s], y, n)
              /\ positions[y] # Trading!NoPosition => positions[y].state # "closed"
              /\ PositionUnits(positions[y], histories[y], m)
              /\ n = IF e.side = "buy" THEN m + 1 ELSE m - 1
    BY <1>9
  <2> DEFINE p == Trading!new_position(y, e)
             h == Trading!new_history(y, e)
  <2>2. /\ Trading!PositionSucceeds(y, e)
        /\ p # Trading!NoPosition /\ PositionUnits(p, h, n)
        /\ positions[y] = Trading!NoPosition =>
              /\ p.state = "open" /\ p.quantity = One
              /\ p.total_bought = One /\ p.total_sold = Zero
    <3>1. IsUnitFill(e) /\ y \in Symbols
      BY <1>3, <1>7, <2>1
    <3> QED BY <2>1, <3>1, FillTaken
  <2> HIDE DEF p, h
  <2>3. /\ positions' = [positions EXCEPT ![y] = p]
        /\ histories' = [histories EXCEPT ![y] = h]
        /\ draft'[t].position_result = [position |-> positions'[y]]
    BY <1>7, <2>1, <2>2 DEF Trading!UpdatePosition, Trading!UpdatePositionFails, p, h
  <2>4. /\ positions'[y] = p /\ histories'[y] = h
        /\ DOMAIN positions' = Symbols /\ DOMAIN histories' = Symbols
        /\ \A z \in Symbols \ {y} : positions'[z] = positions[z] /\ histories'[z] = histories[z]
    BY <1>3, <2>3 DEF MirrorOK
  <2>5. PositionMirrored(draft[t], y)'
    BY <2>2, <2>3, <2>4 DEF PositionMirrored, y, Symbol
  <2>6. Synced(s)'
    BY <1>1, <2>1, <2>2, <2>4 DEF Synced, y, Symbol
  <2>7. TradeDue(y)'
    BY <1>1, <1>3, <2>2, <2>4 DEF TradeDue, Traded, y, Symbol
  <2>8. update'[t].session = s /\ DraftMirrorOK(t)'
    BY <1>0, <1>1, <1>4, <2>5, <2>6, <2>7 DEF DraftMirrorOK, y
  <2> QED BY <1>0, <1>1, <2>4, <2>8, MirrorStage DEF WorkLabels, MirrorOK, y
<1> QED BY <1>3, <1>6, <1>8, <1>9 DEF Behind, y, e

\* _trade() brings the session's trade to what the trade framework has.
LEMMA TradeMirrors ==
    ASSUME OwnSymbols, MirrorInv, NEW t \in Tasks, Trade(t)
    PROVE  MirrorOK'
<1> USE DEF MirrorInv, BookInv, CountInv, LockInv
<1>0. PICK s \in Sessions : s = update[t].session
  BY PaperAssumption DEF Trade, CallsOK
<1> DEFINE y == Symbol(s)
           x == draft[t]
           new == draft'[t]
           p == x.position_result.position
<1>1. /\ pc[t] = "positioned" /\ pc' = [pc EXCEPT ![t] = "analyzing"] /\ pc'[t] = "analyzing"
      /\ UNCHANGED <<sessions, portfolios, positions, histories, update>>
  BY DEF Trade, Goto, book, CallsOK
<1>2. /\ PositionMirrored(x, y) /\ TradeMirrored(x, y) /\ Synced(s) /\ TradeDue(y)
      /\ y \in Symbols /\ DOMAIN trades = Symbols
  BY <1>0, <1>1, PaperAssumption DEF MirrorOK, WorkLabels, DraftMirrorOK, Symbol
<1>3. /\ new.position_result = x.position_result
      /\ new.trades = _upsert_trade(x.trades, new.trade_result)
      /\ \/ /\ x.position_result = NoResult
            /\ new.trade_result = x.trade_result /\ UNCHANGED <<trades, fills>>
         \/ /\ x.position_result # NoResult
            /\ Trading!UpdateTrade(y, p)
            /\ new.trade_result = [id |-> y, trade |-> trades'[y]]
         \/ /\ x.position_result # NoResult
            /\ Trading!UpdateTradeFails(y, p)
            /\ new.trade_result = x.trade_result
  BY <1>0, TradeDrafts DEF Symbol
<1>4. /\ positions[y] = Trading!NoPosition => x.position_result = NoResult
      /\ positions[y] # Trading!NoPosition => x.position_result # NoResult /\ p = positions[y]
  <2> DEFINE r == [position |-> positions[y]]
  <2>1. "position" \in DOMAIN r /\ r.position = positions[y]
    OBVIOUS
  <2>2. r # NoResult
    BY <2>1 DEF NoResult
  <2> HIDE DEF r
  <2>3. x.position_result = IF positions[y] = Trading!NoPosition THEN NoResult ELSE r
    BY <1>2 DEF PositionMirrored, r
  <2> QED BY <2>1, <2>2, <2>3
<1>5. PositionMirrored(draft[t], y)' /\ Synced(s)'
  BY <1>1, <1>2, <1>3 DEF PositionMirrored, Synced, Untouched, Symbol
<1> HIDE DEF x, new, p, y
<1>6. ASSUME DOMAIN trades' = Symbols, \A z \in Symbols \ {y} : trades'[z] = trades[z],
             TradeMirrored(draft[t], y)', Traded(y)'
      PROVE  MirrorOK'
  <2>1. update'[t].session = s /\ DraftMirrorOK(t)'
    BY <1>0, <1>1, <1>5, <1>6 DEF DraftMirrorOK, y
  <2> QED BY <1>0, <1>1, <1>6, <2>1, MirrorStage DEF WorkLabels, MirrorOK, y
<1>8. \A k : [id |-> y, trade |-> k] # NoResult /\ [id |-> y, trade |-> k].id = y
  <2> SUFFICES ASSUME NEW k PROVE [id |-> y, trade |-> k] # NoResult
    OBVIOUS
  <2>1. "id" \in DOMAIN [id |-> y, trade |-> k]
    OBVIOUS
  <2> QED BY <2>1 DEF NoResult
<1>9. CASE x.position_result = NoResult
  <2>1. positions[y] = Trading!NoPosition /\ trades' = trades
    BY <1>3, <1>4, <1>9
  <2>2. trades[y] = Trading!NoTrade
    BY <1>2, <2>1 DEF TradeDue, Traded
  <2>3. new.trade_result = NoResult /\ new.trades = <<>>
    BY <1>2, <1>3, <1>9, <2>2 DEF TradeMirrored, _upsert_trade
  <2> QED BY <1>1, <1>2, <1>6, <2>1, <2>2, <2>3 DEF TradeMirrored, Traded, y, new, Symbol
<1>10. CASE /\ x.position_result # NoResult
            /\ Trading!UpdateTrade(y, p)
            /\ new.trade_result = [id |-> y, trade |-> trades'[y]]
  <2>1. trades' = [trades EXCEPT ![y] = Trading!build(trades[y], p)]
    BY <1>10 DEF Trading!UpdateTrade
  <2>2. /\ DOMAIN trades' = Symbols /\ trades'[y] = Trading!build(trades[y], p)
        /\ \A z \in Symbols \ {y} : trades'[z] = trades[z]
    BY <1>2, <2>1
  <2>3. trades'[y] # Trading!NoTrade
    BY <2>2, BuiltTrade
  <2>4. new.trade_result # NoResult /\ new.trade_result.id = y
    BY <1>8, <1>10
  <2>5. new.trades = <<new.trade_result>>
    <3>1. CASE trades[y] = Trading!NoTrade
      BY <1>2, <1>3, <2>4, <3>1, UpsertIs DEF TradeMirrored
    <3>2. CASE trades[y] # Trading!NoTrade
      <4>1. x.trade_result.id = y /\ x.trades = <<x.trade_result>>
        BY <1>2, <1>8, <3>2 DEF TradeMirrored
      <4> QED BY <1>3, <2>4, <4>1, UpsertIs
    <3> QED BY <3>1, <3>2
  <2>6. positions[y] # Trading!NoPosition
    BY <1>4, <1>10
  <2> QED BY <1>1, <1>6, <1>10, <2>2, <2>3, <2>5, <2>6 DEF TradeMirrored, Traded, y, new, Symbol
<1>11. CASE /\ x.position_result # NoResult
            /\ Trading!UpdateTradeFails(y, p)
            /\ new.trade_result = x.trade_result
  <2>1. /\ positions[y] # Trading!NoPosition /\ p = positions[y]
        /\ trades' = trades /\ ~Trading!TradeSucceeds(y, p)
    BY <1>4, <1>11 DEF Trading!UpdateTradeFails, Trading!trade_vars
  <2>2. trades[y] # Trading!NoTrade
    <3> SUFFICES ASSUME trades[y] = Trading!NoTrade PROVE FALSE
      OBVIOUS
    <3>1. /\ p.state = "open" /\ p.quantity = One
          /\ p.total_bought = One /\ p.total_sold = Zero
      BY <1>2, <2>1 DEF TradeDue, Traded
    <3> QED BY <1>2, <2>1, <3>1, FirstTrade
  <2>3. /\ new.trade_result = [id |-> y, trade |-> trades[y]]
        /\ x.trades = <<new.trade_result>>
    BY <1>2, <1>11, <2>2 DEF TradeMirrored
  <2>4. new.trades = <<new.trade_result>>
    <3>1. new.trade_result # NoResult
      BY <1>8, <2>3
    <3> QED BY <1>3, <2>3, <3>1, UpsertIs
  <2> QED BY <1>1, <1>2, <1>6, <2>1, <2>2, <2>3, <2>4 DEF TradeMirrored, Traded, y, new, Symbol
<1> QED BY <1>3, <1>9, <1>10, <1>11

\* Every step keeps the invariant, unless it cancels a task.
LEMMA MirrorStep ==
    ASSUME ~Cancellable, OwnSymbols, MirrorInv, [PaperNext]_paper_vars
    PROVE  MirrorInv'
<1> SUFFICES MirrorOK'
  BY BookStep DEF MirrorInv
<1> USE DEF MirrorInv, BookInv, CountInv, LockInv
<1>1. ASSUME NEW t \in Tasks, NEW u \in Updates, Submit(t, u) PROVE MirrorOK'
  BY <1>1, MirrorQuiet DEF Submit, Goto, WorkLabels, book, tracking, CallsOK
<1>2. ASSUME NEW t \in Tasks, Return(t), pc[t] = "publishing" PROVE MirrorOK'
  BY <1>2, MirrorQuiet DEF Return, Goto, WorkLabels, book, tracking, CallsOK
<1>3. ASSUME NEW t \in Tasks, StepRaised(t) PROVE MirrorOK'
  <2>1. /\ pc[t] = "step" /\ pc' = [pc EXCEPT ![t] = "publishing"]
        /\ UNCHANGED <<sessions, portfolios, positions, histories, trades, update, draft>>
    BY <1>3 DEF StepRaised, Goto, book, tracking, locals
  <2>2. Settled(update[t].session)
    BY <2>1 DEF MirrorOK, WorkLabels, DraftMirrorOK
  <2> QED BY <2>1, <2>2, MirrorQuiet DEF WorkLabels
<1>4. ASSUME UNCHANGED paper_vars PROVE MirrorOK'
  <2>1. UNCHANGED <<pc, update, draft, sessions, portfolios, positions, histories, trades>>
    BY <1>4 DEF paper_vars, book, tracking, locals
  <2>2. \A s : /\ load_session(s)' = load_session(s)
               /\ Settled(s)' <=> Settled(s)
               /\ Synced(s)' <=> Synced(s)
               /\ Behind(s)' <=> Behind(s)
    BY <2>1 DEF load_session, Settled, PositionMirrored, TradeMirrored, Traded, Synced, Behind,
                Untouched, Symbol
  <2>3. \A s : busy(s)' <=> busy(s)
    BY <2>1 DEF busy, Working
  <2>4. \A t \in Tasks : DraftMirrorOK(t)' <=> DraftMirrorOK(t)
    BY <2>1, <2>2 DEF DraftMirrorOK, PositionMirrored, TradeMirrored, Traded, TradeDue
  <2> QED BY <2>1, <2>2, <2>3, <2>4 DEF MirrorOK
<1>5. ASSUME NEW t \in Tasks, Progress(t) PROVE MirrorOK'
  BY <1>2, <1>3, <1>5, BeginMirrors, NothingMirrors, BookMirrors, PositionMirrors,
     TradeMirrors, RegisterMirrors DEF Progress, Published
<1> QED BY <1>1, <1>4, <1>5 DEF PaperNext, Cancel

\* The invariant holds initially.
LEMMA MirrorInit == PaperInit => MirrorInv
<1> SUFFICES ASSUME PaperInit PROVE MirrorOK
  BY BookInit DEF MirrorInv
<1>1. /\ \A s \in Sessions : /\ portfolios[s] = Portfolios!NoPortfolio
                             /\ load_session(s) = _new_session
      /\ positions = [y \in Symbols |-> Trading!NoPosition]
      /\ histories = [y \in Symbols |-> <<>>]
      /\ trades = [y \in Symbols |-> Trading!NoTrade]
  BY DEF PaperInit, Portfolios!PortfolioInit, Trading!TradeInit, Trading!PositionInit,
         load_session
<1>2. /\ _new_session.position_result = NoResult /\ _new_session.trade_result = NoResult
      /\ _new_session.trades = <<>>
  BY DEF _new_session
<1>3. ASSUME NEW s \in Sessions PROVE Settled(s)
  <2>1. Symbol(s) \in Symbols
    BY PaperAssumption DEF Symbol
  <2> QED BY <1>1, <1>2, <2>1 DEF Settled, PositionMirrored, TradeMirrored, Traded, Synced,
                                  Untouched
<1>4. \A t \in Tasks : pc[t] \notin WorkLabels
  BY DEF PaperInit, WorkLabels
<1> QED BY <1>1, <1>3, <1>4 DEF MirrorOK

\* A session of its own symbol and the three frameworks agree whenever no update is in
\* progress, if no task is cancelled: on the book and its value, on the position, which
\* is what the portfolio holds until it is closed, on the trade, and on the commissions
\* of the fills, whatever was bought, sold or refused, and whichever updates raised.
THEOREM SessionMirrorsBookAlways ==
    ASSUME ~Cancellable, OwnSymbols
    PROVE  PaperSpec => []SessionMirrorsBook
<1>1. MirrorInv => (AtRest => PositionIsSessionHolding)
  <2> SUFFICES ASSUME MirrorInv, AtRest, NEW s \in Running,
                      sessions[s].position_result # NoResult,
                      sessions[s].position_result.position.state # "closed"
               PROVE  sessions[s].position_result.position.quantity = held(s)
    BY DEF PositionIsSessionHolding
  <2> DEFINE y == Symbol(s)
  <2>1. s \in Sessions /\ load_session(s) = sessions[s] /\ Settled(s)
    BY DEF MirrorInv, MirrorOK, AtRest, busy, Running, load_session
  <2>2. /\ positions[y] # Trading!NoPosition
        /\ sessions[s].position_result.position = positions[y]
    BY <2>1 DEF Settled, PositionMirrored
  <2>3. PICK n \in Nat : /\ HoldsUnits(portfolios[s], y, n)
                         /\ PositionUnits(positions[y], histories[y], n)
    BY <2>1, <2>2 DEF Settled, Synced, Untouched
  <2>4. n # 0 /\ positions[y].quantity = Rat(n)
    BY <2>2, <2>3 DEF PositionUnits
  <2> QED BY <2>2, <2>3, <2>4 DEF HoldsUnits, held, Symbol
<1>2. MirrorInv /\ (AtRest => BookMirrored) => (AtRest =>
         \A s \in Sessions : portfolios[s] # Portfolios!NoPortfolio =>
            sessions[s].trades = <<[id |-> SymbolOf[s], trade |-> trades[SymbolOf[s]]]>>)
  <2> SUFFICES ASSUME MirrorInv, AtRest, BookMirrored, NEW s \in Sessions,
                      portfolios[s] # Portfolios!NoPortfolio
               PROVE  sessions[s].trades = <<[id |-> SymbolOf[s], trade |-> trades[SymbolOf[s]]]>>
    OBVIOUS
  <2>1. load_session(s) = sessions[s] /\ Settled(s)
    BY DEF MirrorInv, MirrorOK, AtRest, busy, BookMirrored, Running, load_session
  <2>2. trades[Symbol(s)] # Trading!NoTrade
    BY <2>1 DEF Settled, Synced, Untouched, Traded
  <2> QED BY <2>1, <2>2 DEF Settled, TradeMirrored, Symbol
<1>3. MirrorInv /\ [PaperNext]_paper_vars => MirrorInv'
  BY MirrorStep
<1>4. PaperSpec => [](AtRest => BookMirrored)
  BY BookMirroredAtRest
<1> QED BY <1>1, <1>2, <1>3, <1>4, MirrorInit, CommissionsAlways, PTL
    DEF PaperSpec, SessionMirrorsBook
=============================================================================
