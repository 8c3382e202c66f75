----------------------------- MODULE SessionProofs -----------------------------
(***************************************************************************)
(* Proofs about the two sessions of the workbench page: ViewSession, for   *)
(* every set of spaces, and BlueprintSession with the Supervisor's side of *)
(* it, for every number of blueprints, names, requests, packages, plans    *)
(* and jobs.                                                               *)
(*                                                                         *)
(* ViewSession rests on its inductive invariant IInv: tokens are drawn in  *)
(* order, and a selection that waits for a start has not asked for a view. *)
(* BlueprintSession rests on BlueprintIInv.  The proof goes by what a step *)
(* has to do with: every step of an application Ends it, with an honest    *)
(* record, or Advances it, and writes its OwnSpaceOnly; a step of the page *)
(* Keeps what has been promised, and every request Follows from what it    *)
(* was; and what the Supervisor answers is OneServed, whose plan, if it    *)
(* has one, is new.                                                        *)
(***************************************************************************)
EXTENDS ViewSession, BlueprintSession, SequenceTheorems, TLAPS

-----------------------------------------------------------------------------
(* The view session.                                                         *)

\* The frames of v are those of the state, as ShownIsCurrent says of the page.
Synced(v, state) ==
  /\ \A t \in Space : Has(v, t) => v.frames[t].gen = state.srv[t].gen
  /\ \A t \in Space : v.frames[t].view # NoView => v.frames[t].view.gen = v.frames[t].gen
  /\ v.visible # NoSpace => v.visible = v.committed /\ Has(v, v.visible)
  /\ v.pending # NoSpace /\ Has(v, v.pending) =>
       v.frames[v.pending].selectToken = v.selectToken

\* What an answer, a message or a timer makes of v: it touches the frame of s
\* only, and ends the pending selection only if that is of s.
Settles(v, u, s) ==
  /\ u.selectToken = v.selectToken
  /\ \A t \in Space \ {s} : u.frames[t] = v.frames[t]
  /\ \/ u.frames[s] = v.frames[s]
     \/ /\ Has(v, s) /\ u.frames[s].status \notin {"none", "loading"}
        /\ u.frames[s].gen = v.frames[s].gen
        /\ u.frames[s].selectToken = v.frames[s].selectToken
        /\ \/ u.frames[s].view = v.frames[s].view
           \/ u.frames[s].view.gen = v.frames[s].gen
  /\ \/ u.pending = v.pending /\ u.committed = v.committed /\ u.visible = v.visible
     \/ /\ v.pending = s /\ u.pending = NoSpace /\ Has(v, s)
        /\ \/ u.committed = s /\ u.visible = s
           \/ u.viewError = s /\ u.committed = v.committed /\ u.visible = v.visible

-----------------------------------------------------------------------------
(* The operations of ViewSession.                                            *)

LEMMA NoFrameFacts ==
  /\ NoView \in View /\ NoFrame \in FrameOf
  /\ NoFrame.status = "none" /\ NoFrame.view = NoView /\ NoFrame.gen = -1
<1>1. NoView \in View  BY DEF NoView, View
<1>2. 0 \in Token  BY BoundAssumption DEF Token
<1>3. NoFrame = [status |-> "none", gen |-> -1, view |-> NoView, selectToken |-> 0]
  BY DEF NoFrame, Frame
<1> QED BY <1>1, <1>2, <1>3 DEF FrameOf, Statuses

LEMMA FrameFacts ==
  ASSUME NEW gen \in Int, NEW token \in Token
  PROVE  /\ Frame(gen, token) \in FrameOf
         /\ Frame(gen, token).status = "loading" /\ Frame(gen, token).gen = gen
         /\ Frame(gen, token).view = NoView /\ Frame(gen, token).selectToken = token
  BY NoFrameFacts DEF Frame, FrameOf, Statuses

\* Choosing home keeps the frames.
LEMMA HomeFacts ==
  ASSUME NEW v \in Views, v.selectToken < MaxToken
  PROVE  /\ CommitHome(v) \in Views
         /\ CommitHome(v).frames = v.frames
         /\ CommitHome(v).selectToken = v.selectToken + 1
         /\ CommitHome(v).committed = NoSpace /\ CommitHome(v).pending = NoSpace
         /\ CommitHome(v).visible = NoSpace
<1>1. v.selectToken + 1 \in Token  BY BoundAssumption DEF Views, Token
<1> QED BY <1>1 DEF CommitHome, Views

LEMMA RequestFacts ==
  ASSUME NEW v \in Views, NEW s \in Space, NEW gen \in Int, v.selectToken < MaxToken,
         NEW u, u = RequestSpace(v, s, gen)
  PROVE  /\ u \in Views
         /\ u.pending = s /\ u.selectToken = v.selectToken + 1 /\ u.committed = v.committed
         /\ u.visible = v.visible \/ u.visible = NoSpace
         /\ \A t \in Space \ {s} : u.frames[t] = v.frames[t]
         /\ u.frames[s].selectToken = v.selectToken + 1
         /\ u.frames[s].gen = gen /\ u.frames[s].status # "none"
         /\ \/ u.frames[s].view = NoView
            \/ u.frames[s].view = v.frames[s].view /\ v.frames[s].gen = gen
<1> DEFINE token == v.selectToken + 1
<1> DEFINE stale == Has(v, s) /\ v.frames[s].gen # gen
<1> DEFINE usable == Has(v, s) /\ ~stale /\ v.frames[s].status # "failed"
<1> DEFINE f == IF usable THEN [v.frames[s] EXCEPT !.selectToken = token] ELSE Frame(gen, token)
<1> DEFINE shown == IF stale /\ s \in {v.visible, v.committed} THEN NoSpace ELSE v.visible
<1>1. token \in Token  BY BoundAssumption DEF Views, Token
<1>2. u = [v EXCEPT !.pending = s, !.selectToken = token, !.viewError = NoSpace,
                    !.visible = shown, !.frames = [v.frames EXCEPT ![s] = f]]
  BY DEF RequestSpace, Views
<1>3. /\ f \in FrameOf /\ f.selectToken = token /\ f.gen = gen /\ f.status # "none"
      /\ f.view = NoView \/ (f.view = v.frames[s].view /\ v.frames[s].gen = gen)
  <2>1. CASE usable
    <3>1. v.frames[s] \in FrameOf /\ f = [v.frames[s] EXCEPT !.selectToken = token]
      BY <2>1 DEF Views
    <3>2. f \in FrameOf /\ f.selectToken = token /\ f.gen = v.frames[s].gen
          /\ f.status = v.frames[s].status /\ f.view = v.frames[s].view
      BY <1>1, <3>1 DEF FrameOf
    <3> QED BY <2>1, <3>2 DEF Has
  <2>2. CASE ~usable
    BY <1>1, <2>2, FrameFacts
  <2> QED BY <2>1, <2>2
<1>4. shown \in Space \cup {NoSpace} /\ (shown = v.visible \/ shown = NoSpace)
  BY DEF Views
<1> HIDE DEF f, shown, token
<1>5. u.frames = [v.frames EXCEPT ![s] = f] /\ u.frames \in [Space -> FrameOf]
  BY <1>2, <1>3 DEF Views
<1>6. u \in Views
  <2>1. u = [frames |-> [v.frames EXCEPT ![s] = f], committed |-> v.committed, pending |-> s,
             visible |-> shown, selectToken |-> token, viewError |-> NoSpace]
    BY <1>2 DEF Views
  <2>2. [v.frames EXCEPT ![s] = f] \in [Space -> FrameOf]  BY <1>3 DEF Views
  <2>3. v.committed \in Space \cup {NoSpace}  BY DEF Views
  <2> QED BY <1>1, <1>4, <2>1, <2>2, <2>3 DEF Views
<1> QED BY <1>2, <1>3, <1>4, <1>5, <1>6 DEF Views, token

LEMMA CommitFacts ==
  ASSUME NEW v \in Views, NEW s \in Space, NEW token, NEW u, u = CommitPending(v, s, token)
  PROVE  /\ u \in Views /\ u.frames = v.frames /\ u.selectToken = v.selectToken
         /\ \/ u = v
            \/ /\ token = v.selectToken /\ v.pending = s /\ v.frames[s].status = "ready"
               /\ u.committed = s /\ u.visible = s /\ u.pending = NoSpace
         /\ token = v.selectToken /\ v.pending = s /\ v.frames[s].status = "ready"
              => u.pending = NoSpace
  BY DEF CommitPending, Views

LEMMA FailPendingFacts ==
  ASSUME NEW v \in Views, NEW s \in Space, NEW token, NEW u, u = FailPending(v, s, token)
  PROVE  /\ u \in Views /\ u.frames = v.frames /\ u.selectToken = v.selectToken
         /\ u.committed = v.committed /\ u.visible = v.visible
         /\ \/ u = v
            \/ v.pending = s /\ u.pending = NoSpace /\ u.viewError = s
         /\ token = v.selectToken /\ v.pending = s => u.pending = NoSpace
  BY DEF FailPending, Views

\* Putting a status on a frame.
LEMMA StatusFacts ==
  ASSUME NEW v \in Views, NEW s \in Space, NEW status \in Statuses,
         NEW u, u = [v EXCEPT !.frames[s].status = status]
  PROVE  /\ u \in Views /\ u.selectToken = v.selectToken /\ u.pending = v.pending
         /\ u.committed = v.committed /\ u.visible = v.visible
         /\ \A t \in Space \ {s} : u.frames[t] = v.frames[t]
         /\ u.frames[s].status = status /\ u.frames[s].gen = v.frames[s].gen
         /\ u.frames[s].selectToken = v.frames[s].selectToken
         /\ u.frames[s].view = v.frames[s].view
<1> DEFINE f == [v.frames[s] EXCEPT !.status = status]
<1>1. v.frames[s] \in FrameOf  BY DEF Views
<1>2. /\ f \in FrameOf /\ f.status = status /\ f.gen = v.frames[s].gen
      /\ f.selectToken = v.frames[s].selectToken /\ f.view = v.frames[s].view
  BY <1>1 DEF FrameOf
<1>3. u = [v EXCEPT !.frames = [v.frames EXCEPT ![s] = f]]  BY DEF Views
<1> HIDE DEF f
<1>4. u.frames = [v.frames EXCEPT ![s] = f]  BY <1>3 DEF Views
<1>5. u \in Views  BY <1>2, <1>3 DEF Views
<1> QED BY <1>2, <1>3, <1>4, <1>5 DEF Views

LEMMA FailFacts ==
  ASSUME NEW v \in Views, NEW s \in Space, NEW token, Has(v, s), NEW u, u = Fail(v, s, token)
  PROVE  /\ u \in Views /\ Settles(v, u, s)
         /\ token = v.selectToken /\ v.pending = s => u.pending = NoSpace
<1> DEFINE w == [v EXCEPT !.frames[s].status = "failed"]
<1>1. /\ w \in Views /\ w.selectToken = v.selectToken /\ w.pending = v.pending
      /\ w.committed = v.committed /\ w.visible = v.visible
      /\ \A t \in Space \ {s} : w.frames[t] = v.frames[t]
      /\ w.frames[s].status = "failed" /\ w.frames[s].gen = v.frames[s].gen
      /\ w.frames[s].selectToken = v.frames[s].selectToken
      /\ w.frames[s].view = v.frames[s].view
  BY StatusFacts DEF Statuses
<1>2. u = FailPending(w, s, token)  BY DEF Fail
<1> HIDE DEF w
<1>3. /\ u \in Views /\ u.frames = w.frames /\ u.selectToken = w.selectToken
      /\ u.committed = w.committed /\ u.visible = w.visible
      /\ \/ u = w
         \/ w.pending = s /\ u.pending = NoSpace /\ u.viewError = s
      /\ token = w.selectToken /\ w.pending = s => u.pending = NoSpace
  BY <1>1, <1>2, FailPendingFacts
<1> QED BY <1>1, <1>3 DEF Settles

LEMMA Unsettled ==
  ASSUME NEW v, NEW s \in Space
  PROVE  Settles(v, v, s)
  BY DEF Settles

LEMMA FailViewFacts ==
  ASSUME NEW v \in Views, NEW s \in Space, NEW token, NEW u, u = FailView(v, s, token)
  PROVE  /\ u \in Views /\ Settles(v, u, s)
         /\ ~Has(v, s) => u = v
         /\ Has(v, s) /\ v.frames[s].selectToken = token /\ token = v.selectToken /\ v.pending = s
              => u.pending = NoSpace
<1>1. CASE Has(v, s) /\ v.frames[s].selectToken = token
  BY <1>1, FailFacts DEF FailView
<1>2. CASE ~(Has(v, s) /\ v.frames[s].selectToken = token)
  <2>1. u = v  BY <1>2 DEF FailView
  <2> QED BY <1>2, <2>1, Unsettled
<1> QED BY <1>1, <1>2

LEMMA ApplyViewFacts ==
  ASSUME NEW v \in Views, NEW s \in Space, NEW token, NEW view \in View,
         NEW u, u = ApplyView(v, s, token, view)
  PROVE  u \in Views /\ Settles(v, u, s)
<1>1. CASE ~Has(v, s) \/ v.frames[s].selectToken # token \/ v.frames[s].status = "failed"
  <2>1. u = v  BY <1>1 DEF ApplyView
  <2> QED BY <2>1, Unsettled
<1>2. CASE /\ ~(~Has(v, s) \/ v.frames[s].selectToken # token \/ v.frames[s].status = "failed")
           /\ view.gen # v.frames[s].gen
  <2>1. u = Fail(v, s, token)  BY <1>2 DEF ApplyView
  <2> QED BY <1>2, <2>1, FailFacts
<1>3. CASE /\ ~(~Has(v, s) \/ v.frames[s].selectToken # token \/ v.frames[s].status = "failed")
           /\ view.gen = v.frames[s].gen
  <2> DEFINE f == [[v.frames[s] EXCEPT !.view = view] EXCEPT !.status = "pending"]
  <2>1. v.frames[s] \in FrameOf  BY DEF Views
  <2>2. /\ f \in FrameOf /\ f.status = "pending" /\ f.view = view /\ f.gen = v.frames[s].gen
        /\ f.selectToken = v.frames[s].selectToken
    BY <2>1 DEF FrameOf, Statuses
  <2>3. u = [v EXCEPT !.frames[s].view = view, !.frames[s].status = "pending"]
    BY <1>3 DEF ApplyView
  <2>4. u = [v EXCEPT !.frames = [v.frames EXCEPT ![s] = f]]
    BY <2>3 DEF Views, FrameOf
  <2> HIDE DEF f
  <2>5. u.frames = [v.frames EXCEPT ![s] = f] /\ u \in Views
    BY <2>2, <2>4 DEF Views
  <2>6. /\ u.selectToken = v.selectToken /\ u.pending = v.pending
        /\ u.committed = v.committed /\ u.visible = v.visible
    BY <2>4 DEF Views
  <2>7. u.frames[s] = f /\ \A t \in Space \ {s} : u.frames[t] = v.frames[t]
    BY <2>5 DEF Views
  <2> QED BY <1>3, <2>2, <2>5, <2>6, <2>7 DEF Settles
<1> QED BY <1>1, <1>2, <1>3
LEMMA AcceptFacts ==
  ASSUME NEW v \in Views, NEW s \in Space, Has(v, s),
         NEW says \in {"ready", "disconnected", "failed"}, NEW u, u = Accept(v, s, says)
  PROVE  u \in Views /\ Settles(v, u, s)
<1> DEFINE token == v.frames[s].selectToken
<1>1. CASE says = "ready"
  <2>1. CASE v.frames[s].status = "failed"
    <3>1. u = v  BY <1>1, <2>1 DEF Accept
    <3> QED BY <3>1, Unsettled
  <2>2. CASE v.frames[s].status # "failed"
    <3> DEFINE r == [v EXCEPT !.frames[s].status = "ready"]
    <3> DEFINE w == [r EXCEPT !.viewError = IF v.committed = s /\ @ = s THEN NoSpace ELSE @]
    <3>1. u = CommitPending(w, s, token)  BY <1>1, <2>2 DEF Accept
    <3>2. /\ r \in Views /\ r.selectToken = v.selectToken /\ r.pending = v.pending
          /\ r.committed = v.committed /\ r.visible = v.visible
          /\ \A t \in Space \ {s} : r.frames[t] = v.frames[t]
          /\ r.frames[s].status = "ready" /\ r.frames[s].gen = v.frames[s].gen
          /\ r.frames[s].selectToken = v.frames[s].selectToken
          /\ r.frames[s].view = v.frames[s].view
      BY StatusFacts DEF Statuses
    <3> HIDE DEF r
    <3>3. /\ w \in Views /\ w.frames = r.frames /\ w.selectToken = r.selectToken
          /\ w.pending = r.pending /\ w.committed = r.committed /\ w.visible = r.visible
      BY <3>2 DEF Views
    <3> HIDE DEF w
    <3>4. /\ u \in Views /\ u.frames = w.frames /\ u.selectToken = w.selectToken
          /\ \/ u = w
             \/ /\ w.pending = s /\ u.committed = s /\ u.visible = s /\ u.pending = NoSpace
      BY <3>1, <3>3, CommitFacts
    <3> QED BY <3>2, <3>3, <3>4 DEF Settles
  <2> QED BY <2>1, <2>2
<1>2. CASE says = "disconnected"
  <2> DEFINE r == [v EXCEPT !.frames[s].status = "reconnecting"]
  <2> DEFINE w == FailPending(r, s, token)
  <2>1. u = IF w.committed = s THEN [w EXCEPT !.viewError = s] ELSE w
    BY <1>2 DEF Accept
  <2>2. /\ r \in Views /\ r.selectToken = v.selectToken /\ r.pending = v.pending
        /\ r.committed = v.committed /\ r.visible = v.visible
        /\ \A t \in Space \ {s} : r.frames[t] = v.frames[t]
        /\ r.frames[s].status = "reconnecting" /\ r.frames[s].gen = v.frames[s].gen
        /\ r.frames[s].selectToken = v.frames[s].selectToken
        /\ r.frames[s].view = v.frames[s].view
    BY StatusFacts DEF Statuses
  <2> HIDE DEF r
  <2>3. /\ w \in Views /\ w.frames = r.frames /\ w.selectToken = r.selectToken
        /\ w.committed = r.committed /\ w.visible = r.visible
        /\ \/ w = r
           \/ r.pending = s /\ w.pending = NoSpace /\ w.viewError = s
    BY <2>2, FailPendingFacts
  <2> HIDE DEF w
  <2>4. /\ u \in Views /\ u.frames = w.frames /\ u.selectToken = w.selectToken
        /\ u.committed = w.committed /\ u.visible = w.visible /\ u.pending = w.pending
        /\ u.viewError = w.viewError \/ u.viewError = s
    BY <2>1, <2>3 DEF Views
  <2> QED BY <2>2, <2>3, <2>4 DEF Settles
<1>3. CASE says = "failed"
  <2>1. u = Fail(v, s, token)  BY <1>3 DEF Accept
  <2> QED BY <2>1, FailFacts
<1> QED BY <1>1, <1>2, <1>3

\* A new state: what survives it is of its generations.
LEMMA SyncFacts ==
  ASSUME NEW v \in Views, NEW state \in State, NEW u, u = Sync(v, state)
  PROVE  /\ u \in Views
         /\ u.selectToken = v.selectToken /\ u.pending = v.pending /\ u.committed = v.committed
         /\ \A t \in Space : \/ u.frames[t] = v.frames[t] /\ Has(v, t)
                                /\ state.srv[t].status # "gone" /\ state.srv[t].gen = v.frames[t].gen
                             \/ u.frames[t] = NoFrame
         /\ \/ u.visible = NoSpace
            \/ u.visible = v.visible /\ (Has(v, v.visible) => Has(u, v.visible))
         /\ u.visible = v.visible \/ ~Has(u, v.visible)
<1> DEFINE kept == {s \in Space : Has(v, s) /\ Survives(v.frames[s], s, state)}
<1> DEFINE frames == [s \in Space |-> IF s \in kept THEN v.frames[s] ELSE NoFrame]
<1> DEFINE shown == IF v.visible # NoSpace /\ Has(v, v.visible) /\ v.visible \notin kept
                    THEN NoSpace ELSE v.visible
<1>1. u = [v EXCEPT !.frames = frames, !.visible = shown]
  BY DEF Sync, Views
<1>2. frames \in [Space -> FrameOf]  BY NoFrameFacts DEF Views
<1>3. shown \in Space \cup {NoSpace}  BY DEF Views
<1>4. \A t \in Space : \/ /\ t \in kept /\ frames[t] = v.frames[t] /\ Has(v, t)
                          /\ state.srv[t].status # "gone" /\ state.srv[t].gen = v.frames[t].gen
                       \/ t \notin kept /\ frames[t] = NoFrame
  BY DEF Survives
<1>5. kept \subseteq Space /\ \A t \in kept : Has(v, t)  OBVIOUS
<1>6. \/ shown = v.visible /\ (Has(v, v.visible) => v.visible \in kept \/ v.visible = NoSpace)
      \/ shown = NoSpace /\ v.visible # NoSpace /\ v.visible \notin kept
  OBVIOUS
<1> HIDE DEF frames, shown, kept
<1>7. /\ u.frames = frames /\ u.visible = shown
      /\ u.selectToken = v.selectToken /\ u.pending = v.pending /\ u.committed = v.committed
  BY <1>1 DEF Views
<1>8. u \in Views  BY <1>1, <1>2, <1>3 DEF Views
<1>9. v.visible \in Space \cup {NoSpace}  BY DEF Views
<1>10. CASE shown = v.visible /\ (Has(v, v.visible) => v.visible \in kept \/ v.visible = NoSpace)
  <2>1. v.visible # NoSpace /\ Has(v, v.visible) => Has(u, v.visible)
    BY <1>4, <1>5, <1>7, <1>10 DEF Has
  <2> QED BY <1>4, <1>7, <1>8, <1>10, <2>1
<1>11. CASE shown = NoSpace /\ v.visible # NoSpace /\ v.visible \notin kept
  <2>1. ~Has(u, v.visible)  BY <1>4, <1>7, <1>9, <1>11, NoFrameFacts DEF Has
  <2> QED BY <1>4, <1>7, <1>8, <1>11, <2>1
<1> QED BY <1>6, <1>10, <1>11

LEMMA SyncIsSynced ==
  ASSUME NEW v \in Views, NEW state \in State, NEW old, Synced(v, old)
  PROVE  Synced(Sync(v, state), state)
<1> DEFINE u == Sync(v, state)
<1>1. /\ u \in Views
      /\ u.selectToken = v.selectToken /\ u.pending = v.pending /\ u.committed = v.committed
      /\ \A t \in Space : \/ u.frames[t] = v.frames[t] /\ Has(v, t)
                             /\ state.srv[t].status # "gone" /\ state.srv[t].gen = v.frames[t].gen
                          \/ u.frames[t] = NoFrame
      /\ \/ u.visible = NoSpace
         \/ u.visible = v.visible /\ (Has(v, v.visible) => Has(u, v.visible))
  BY SyncFacts
<1> HIDE DEF u
<1>2. \A t \in Space : Has(u, t) => u.frames[t].gen = state.srv[t].gen
  BY <1>1, NoFrameFacts DEF Has
<1>3. \A t \in Space : u.frames[t].view # NoView => u.frames[t].view.gen = u.frames[t].gen
  BY <1>1, NoFrameFacts DEF Synced
<1>4. u.visible # NoSpace => u.visible = u.committed /\ Has(u, u.visible)
  BY <1>1 DEF Synced
<1>5. u.pending # NoSpace /\ Has(u, u.pending) =>
       u.frames[u.pending].selectToken = u.selectToken
  <2> HAVE u.pending # NoSpace /\ Has(u, u.pending)
  <2>1. u.pending \in Space  BY <1>1 DEF Views
  <2>2. u.frames[u.pending] = v.frames[u.pending] /\ Has(v, u.pending)
    BY <1>1, <2>1, NoFrameFacts DEF Has
  <2> QED BY <1>1, <2>2 DEF Synced
<1>6. Synced(u, state)  BY <1>2, <1>3, <1>4, <1>5 DEF Synced
<1> QED BY <1>6 DEF u

-----------------------------------------------------------------------------
(* The page's part of the invariant.                                         *)

\* What a step of the page keeps: everything of the invariant but the types
\* of the Supervisor.
PageOK ==
  /\ views \in Views /\ timer \in Timer
  /\ asked \subseteq [space : Space, token : Token]
  /\ ShownIsCurrent /\ HangIsTimed /\ TokensAreOld /\ StartHasNoRequest

LEMMA ShownIsSynced == ShownIsCurrent <=> Synced(views, seen)
  BY DEF ShownIsCurrent, Synced

LEMMA TimerFacts ==
  ASSUME timer \in Timer
  PROVE  /\ timer.token \in Token /\ timer.kind \in {"none", "start", "handshake"}
         /\ timer.kind = "start" => timer.space \in Space
         /\ timer = NoTimer => timer.space = NoSpace /\ timer.kind = "none" /\ timer.token = 0
         /\ timer # NoTimer => timer.space \in Space
<1>1. 0 \in Token  BY BoundAssumption DEF Token
<1>2. CASE timer = NoTimer  BY <1>1, <1>2 DEF NoTimer
<1>3. CASE timer # NoTimer  BY <1>3 DEF Timer
<1> QED BY <1>2, <1>3

\* An answer, a message or a timer.
LEMMA SettlesOK ==
  ASSUME IInv, NEW s \in Space, views' \in Views, Settles(views, views', s),
         UNCHANGED <<seen, last>>,
         asked' \subseteq asked, replies' \subseteq replies,
         \/ timer' = timer
         \/ /\ timer' = NoTimer
            /\ ~(views'.pending # NoSpace /\ views'.frames[views'.pending].status = "loading")
  PROVE  PageOK' /\ PendingIsLast'
<1> USE DEF IInv, Inv
<1>1. NoTimer \in Timer /\ NoTimer.token = 0 /\ NoTimer.kind = "none"  BY DEF Timer, NoTimer
<1>2. views \in Views /\ timer \in Timer /\ asked \subseteq [space : Space, token : Token]
  BY DEF TypeOK
<1>3. timer' \in Timer  BY <1>1, <1>2
<1>4. ShownIsCurrent'
  <2>1. Synced(views, seen)  BY ShownIsSynced
  <2>2. \A t \in Space : Has(views', t) => views'.frames[t].gen = seen.srv[t].gen
    BY <2>1 DEF Synced, Settles, Has
  <2>3. \A t \in Space : views'.frames[t].view # NoView => views'.frames[t].view.gen = views'.frames[t].gen
    BY <2>1 DEF Synced, Settles
  <2>4. \A t \in Space : Has(views, t) => Has(views', t)
    BY DEF Settles, Has
  <2>5. views'.visible # NoSpace => views'.visible = views'.committed /\ Has(views', views'.visible)
    <3>1. views'.visible \in Space \cup {NoSpace}  BY DEF Views
    <3>2. \/ views'.committed = views.committed /\ views'.visible = views.visible
          \/ views'.committed = s /\ views'.visible = s /\ Has(views, s)
      BY DEF Settles
    <3>3. views.visible # NoSpace => views.visible = views.committed /\ Has(views, views.visible)
      BY <2>1 DEF Synced
    <3> QED BY <2>4, <3>1, <3>2, <3>3
  <2>6. views'.pending # NoSpace /\ Has(views', views'.pending) =>
           views'.frames[views'.pending].selectToken = views'.selectToken
    <3> HAVE views'.pending # NoSpace /\ Has(views', views'.pending)
    <3>1. views'.pending = views.pending /\ views.pending \in Space  BY DEF Settles, Views
    <3>2. Has(views, views.pending)  BY <3>1 DEF Settles, Has
    <3>3. views'.frames[views.pending].selectToken = views.frames[views.pending].selectToken
      BY <3>1 DEF Settles
    <3> QED BY <2>1, <3>1, <3>2, <3>3 DEF Synced, Settles
  <2>7. Synced(views', seen')  BY <2>2, <2>3, <2>5, <2>6 DEF Synced
  <2> QED BY <2>7 DEF ShownIsCurrent, Synced
<1>5. views'.pending # NoSpace =>
        /\ views'.pending = views.pending /\ views.pending \in Space
        /\ views'.frames[views.pending].status = "loading"
             => views.frames[views.pending].status = "loading"
  BY <1>2 DEF Settles, Views
<1>6. HangIsTimed'
  <2> SUFFICES ASSUME views'.pending # NoSpace, views'.frames[views'.pending].status = "loading"
               PROVE  timer'.token = views'.selectToken /\ timer'.space = views'.pending
    BY DEF HangIsTimed
  <2>1. timer.token = views.selectToken /\ timer.space = views.pending
    BY <1>5 DEF HangIsTimed
  <2> QED BY <1>5, <2>1 DEF Settles
<1>7. TokensAreOld'
  <2>1. views'.selectToken = views.selectToken /\ views.selectToken \in Token
    BY <1>2 DEF Settles, Views
  <2>2. timer'.token <= views'.selectToken
    BY <1>1, <2>1 DEF TokensAreOld, Token
  <2> QED BY <2>1, <2>2 DEF TokensAreOld
<1>8. StartHasNoRequest'
  <2> SUFFICES ASSUME timer'.kind = "start", timer'.token = views'.selectToken
               PROVE  /\ ~InFlight(Request(timer.space, timer.token))'
                      /\ (views'.pending = timer'.space
                            /\ views'.frames[timer'.space].status = "loading"
                          => seen'.srv[timer'.space].status # "running")
    BY DEF StartHasNoRequest
  <2>1. timer' = timer /\ timer.token = views.selectToken  BY <1>1 DEF Settles
  <2>2. ~InFlight(Request(timer.space, timer.token))
    BY <2>1 DEF StartHasNoRequest
  <2>3. timer.space \in Space  BY <1>2, <2>1, TimerFacts
  <2>4. ~InFlight(Request(timer.space, timer.token))'
    BY <2>1, <2>2 DEF InFlight, Request
  <2>5. views'.pending = timer'.space /\ views'.frames[timer'.space].status = "loading"
          => seen'.srv[timer'.space].status # "running"
    <3> HAVE views'.pending = timer'.space /\ views'.frames[timer'.space].status = "loading"
    <3>1. views'.pending # NoSpace  BY <2>1, <2>3, SpaceAssumption
    <3> QED BY <1>5, <2>1, <3>1 DEF StartHasNoRequest
  <2> QED BY <2>4, <2>5
<1>9. PendingIsLast'  BY <1>5 DEF PendingIsLast
<1> QED BY <1>2, <1>3, <1>4, <1>6, <1>7, <1>8, <1>9 DEF PageOK
LEMMA WaitFacts ==
  ASSUME NEW kind \in {"start", "handshake"}, NEW token \in Token, NEW s \in Space
  PROVE  /\ Wait(kind, token, s) \in Timer
         /\ Wait(kind, token, s).kind = kind /\ Wait(kind, token, s).token = token
         /\ Wait(kind, token, s).space = s
  BY DEF Wait, Timer

\* A selection begins, with a token that nothing carries yet.
LEMMA Begins ==
  ASSUME NEW v \in Views, NEW s \in Space, NEW state \in State, Synced(v, state),
         v.selectToken < MaxToken, timer \in Timer,
         asked \subseteq [space : Space, token : Token],
         timer.token <= v.selectToken,
         \A r \in asked : r.token <= v.selectToken,
         \A p \in replies : p.token \in Token /\ p.token <= v.selectToken,
         BeginSpace(v, s, state), seen' = state, replies' = replies
  PROVE  /\ PageOK' /\ views'.selectToken = v.selectToken + 1
         /\ \/ views'.pending = s /\ views'.committed = v.committed
            \/ views'.pending = NoSpace /\ views'.committed = s
<1> DEFINE u == RequestSpace(v, s, state.srv[s].gen)
<1> DEFINE token == v.selectToken + 1
<1>1. state.srv[s].gen \in Int /\ v.selectToken \in Nat /\ token \in Token /\ token \in Nat
  BY BoundAssumption DEF State, Views, Token
<1>2. /\ u \in Views
      /\ u.pending = s /\ u.selectToken = token /\ u.committed = v.committed
      /\ u.visible = v.visible \/ u.visible = NoSpace
      /\ \A t \in Space \ {s} : u.frames[t] = v.frames[t]
      /\ u.frames[s].selectToken = token
      /\ u.frames[s].gen = state.srv[s].gen /\ u.frames[s].status # "none"
      /\ \/ u.frames[s].view = NoView
         \/ u.frames[s].view = v.frames[s].view /\ v.frames[s].gen = state.srv[s].gen
  BY <1>1, RequestFacts, SMTT(30)
<1>3. \/ /\ state.srv[s].status # "running"
         /\ views' = u /\ timer' = Wait("start", token, s) /\ asked' = asked
      \/ /\ views' = CommitPending(u, s, token) /\ timer' = timer /\ asked' = asked
         /\ u.frames[s].status = "ready"
      \/ /\ views' = u /\ u.frames[s].view = NoView /\ Load(u, s)
      \/ /\ views' = u /\ timer' = Wait("handshake", token, s) /\ asked' = asked
  <2>1. CASE state.srv[s].status # "running"
    BY <1>2, <2>1 DEF BeginSpace
  <2>2. CASE state.srv[s].status = "running" /\ u.frames[s].status = "ready"
    BY <1>2, <2>2 DEF BeginSpace
  <2>3. CASE state.srv[s].status = "running" /\ u.frames[s].status # "ready"
    BY <1>2, <2>3 DEF BeginSpace
  <2> QED BY <2>1, <2>2, <2>3
<1> HIDE DEF u
<1>4. \A x \in Space : ~InFlight(Request(x, token))
  <2> SUFFICES ASSUME NEW x \in Space, InFlight(Request(x, token)) PROVE FALSE
    OBVIOUS
  <2>1. CASE Request(x, token) \in asked
    <3>1. Request(x, token).token <= v.selectToken  BY <2>1
    <3> QED BY <1>1, <3>1 DEF Request
  <2>2. CASE \E p \in replies : Request(p.space, p.token) = Request(x, token)
    <3> PICK p \in replies : Request(p.space, p.token) = Request(x, token)  BY <2>2
    <3>1. p.token = token  BY DEF Request
    <3> QED BY <1>1, <3>1
  <2> QED BY <2>1, <2>2 DEF InFlight
<1>5. Synced(u, state)
  <2>1. \A t \in Space : Has(u, t) => u.frames[t].gen = state.srv[t].gen
    BY <1>2 DEF Synced, Has
  <2>2. \A t \in Space : u.frames[t].view # NoView => u.frames[t].view.gen = u.frames[t].gen
    BY <1>2 DEF Synced
  <2>3. \A t \in Space : Has(v, t) => Has(u, t)  BY <1>2 DEF Has
  <2>4. u.visible # NoSpace => u.visible = u.committed /\ Has(u, u.visible)
    BY <1>2, <2>3 DEF Synced, Views
  <2> QED BY <1>2, <2>1, <2>2, <2>4 DEF Synced
<1>6. ASSUME Synced(views', state) PROVE ShownIsCurrent'
  BY <1>6 DEF ShownIsCurrent, Synced
<1>7. CASE views' = CommitPending(u, s, token) /\ timer' = timer /\ asked' = asked
           /\ u.frames[s].status = "ready"
  <2>1. /\ views' \in Views /\ views'.frames = u.frames /\ views'.selectToken = token
        /\ views'.committed = s /\ views'.visible = s /\ views'.pending = NoSpace
    <3>1. /\ views' \in Views /\ views'.frames = u.frames /\ views'.selectToken = u.selectToken
          /\ \/ views' = u
             \/ /\ views'.committed = s /\ views'.visible = s /\ views'.pending = NoSpace
          /\ token = u.selectToken /\ u.pending = s /\ u.frames[s].status = "ready"
               => views'.pending = NoSpace
      BY <1>2, <1>7, CommitFacts
    <3>2. views'.pending = NoSpace  BY <1>2, <1>7, <3>1
    <3> QED BY <1>2, <3>1, <3>2, SpaceAssumption
  <2>2. Synced(views', state)
    BY <1>2, <1>5, <2>1 DEF Synced, Has
  <2>3. HangIsTimed'  BY <2>1 DEF HangIsTimed
  <2>4. timer.token \in Nat  BY TimerFacts DEF Token
  <2>5. \A r \in asked : r.token \in Nat  BY DEF Token
  <2>6. \A p \in replies : p.token \in Nat  BY DEF Token
  <2>7. TokensAreOld'  BY <1>1, <1>7, <2>1, <2>4, <2>5, <2>6 DEF TokensAreOld
  <2>8. StartHasNoRequest'  BY <1>1, <1>7, <2>1, <2>4 DEF StartHasNoRequest
  <2> QED BY <1>6, <1>7, <2>1, <2>2, <2>3, <2>7, <2>8 DEF PageOK
<1>8. ASSUME views' = u, NEW kind \in {"start", "handshake"}, timer' = Wait(kind, token, s),
             asked' = asked \/ (asked' = asked \cup {Request(s, token)} /\ kind = "handshake"),
             kind = "start" => state.srv[s].status # "running"
      PROVE  PageOK'
  <2>1. /\ timer' \in Timer /\ timer'.kind = kind /\ timer'.token = token /\ timer'.space = s
    BY <1>1, <1>8, WaitFacts
  <2>2. Request(s, token) \in [space : Space, token : Token] /\ Request(s, token).token = token
    BY <1>1 DEF Request
  <2>3. ShownIsCurrent'  BY <1>5, <1>6, <1>8
  <2>4. HangIsTimed'  BY <1>2, <1>8, <2>1 DEF HangIsTimed
  <2>5. \A r \in asked : r.token \in Nat  BY DEF Token
  <2>6. \A p \in replies : p.token \in Nat  BY DEF Token
  <2>7. TokensAreOld'
    <3>1. \A r \in asked' : r.token <= token  BY <1>1, <1>8, <2>2, <2>5
    <3>2. \A p \in replies' : p.token <= token  BY <1>1, <2>6
    <3>3. timer'.token <= token  BY <1>1, <2>1
    <3>4. views'.selectToken = token  BY <1>2, <1>8
    <3> QED BY <3>1, <3>2, <3>3, <3>4 DEF TokensAreOld
  <2>8. StartHasNoRequest'
    <3> SUFFICES ASSUME kind = "start"
                 PROVE  /\ ~InFlight(Request(timer.space, timer.token))'
                        /\ seen'.srv[s].status # "running"
      BY <2>1 DEF StartHasNoRequest
    <3>1. asked' = asked  BY <1>8
    <3>2. ~InFlight(Request(s, token))  BY <1>4
    <3> QED BY <1>8, <2>1, <3>1, <3>2 DEF InFlight, Request
  <2> QED BY <1>2, <1>8, <2>1, <2>2, <2>3, <2>4, <2>7, <2>8 DEF PageOK
<1>9. CASE views' = u /\ u.frames[s].view = NoView /\ Load(u, s)
  <2>1. asked' = asked \cup {Request(s, token)} /\ timer' = Wait("handshake", token, s)
    <3>1. u.frames[s].selectToken = token /\ u.selectToken = token  BY <1>2
    <3>2. ~InFlight(Request(s, token)) /\ Request(s, token).token = token
      BY <1>4 DEF Request
    <3> HIDE DEF token
    <3> QED BY <1>9, <3>1, <3>2 DEF Load
  <2> QED BY <1>2, <1>8, <1>9, <2>1
<1> QED BY <1>2, <1>3, <1>7, <1>8, <1>9

-----------------------------------------------------------------------------
(* The actions of the page.                                                  *)

\* LastClickWins and FailureKeepsView of one step.
ClickStep ==
  views'.committed # views.committed =>
    \/ views'.committed = last'
    \/ views'.committed = NoSpace /\ seen'.srv[views.committed].status = "gone"
FailureStep ==
  views.pending # NoSpace /\ views'.pending = NoSpace /\ views'.selectToken = views.selectToken
    => \/ views'.committed = views.pending /\ views'.visible = views.pending
       \/ /\ views'.viewError = views.pending /\ views'.committed = views.committed
          /\ views'.visible = views.visible \/ (seen' # seen /\ ~Has(views', views.visible))

LEMMA SettlesSteps ==
  ASSUME IInv, NEW s \in Space, Settles(views, views', s), UNCHANGED last
  PROVE  ClickStep /\ FailureStep
<1>1. ClickStep
  BY SpaceAssumption DEF IInv, Settles, ClickStep, PendingIsLast
<1>2. FailureStep  BY DEF Settles, FailureStep
<1> QED BY <1>1, <1>2

LEMMA HomeOK ==
  ASSUME IInv, SelectHome
  PROVE  PageOK' /\ PendingIsLast' /\ ClickStep /\ FailureStep
<1> USE DEF IInv, Inv
<1>1. views \in Views /\ views.selectToken < MaxToken /\ views.selectToken \in Nat
  BY DEF SelectHome, MaySelect, TypeOK, Views, Token
<1>2. /\ views' \in Views /\ views'.frames = views.frames
      /\ views'.selectToken = views.selectToken + 1
      /\ views'.committed = NoSpace /\ views'.pending = NoSpace /\ views'.visible = NoSpace
  BY <1>1, HomeFacts DEF SelectHome
<1>3. /\ UNCHANGED <<asked, replies, seen>> /\ timer' = NoTimer /\ last' = NoSpace
  BY DEF SelectHome, net
<1>4. NoTimer \in Timer /\ NoTimer.token = 0 /\ NoTimer.kind = "none"  BY DEF Timer, NoTimer
<1>5. ShownIsCurrent'  BY <1>2, <1>3 DEF ShownIsCurrent, Has
<1>6. HangIsTimed' /\ PendingIsLast'  BY <1>2 DEF HangIsTimed, PendingIsLast
<1>7. TokensAreOld'
  <2>1. \A r \in asked : r.token \in Nat  BY DEF TypeOK, Token
  <2>2. \A p \in replies : p.token \in Nat  BY DEF TypeOK, Token
  <2> QED BY <1>1, <1>2, <1>3, <1>4, <2>1, <2>2 DEF TokensAreOld
<1>8. StartHasNoRequest'  BY <1>3, <1>4 DEF StartHasNoRequest
<1>9. ClickStep /\ FailureStep  BY <1>1, <1>2, <1>3 DEF ClickStep, FailureStep
<1>10. timer' \in Timer /\ asked' \subseteq [space : Space, token : Token]
  BY <1>3, <1>4 DEF TypeOK
<1> QED BY <1>2, <1>5, <1>6, <1>7, <1>8, <1>9, <1>10 DEF PageOK

LEMMA SelectOK ==
  ASSUME IInv, NEW s \in Space, SelectSpace(s)
  PROVE  PageOK' /\ PendingIsLast' /\ ClickStep /\ FailureStep
<1> USE DEF IInv, Inv
<1>1. /\ views \in Views /\ seen \in State /\ timer \in Timer /\ views.selectToken \in Nat
      /\ asked \subseteq [space : Space, token : Token]
      /\ \A p \in replies : p.token \in Token
  BY DEF TypeOK, Views, Token
<1>2. /\ views.selectToken < MaxToken /\ BeginSpace(views, s, seen) /\ last' = s
      /\ seen' = seen /\ replies' = replies
  BY DEF SelectSpace, MaySelect
<1>3. Synced(views, seen)  BY ShownIsSynced
<1>4. /\ PageOK' /\ views'.selectToken = views.selectToken + 1
      /\ \/ views'.pending = s /\ views'.committed = views.committed
         \/ views'.pending = NoSpace /\ views'.committed = s
  BY <1>1, <1>2, <1>3, Begins DEF TokensAreOld
<1>5. PendingIsLast'  BY <1>2, <1>4 DEF PendingIsLast
<1>6. ClickStep  BY <1>2, <1>4 DEF ClickStep
<1>7. FailureStep  BY <1>1, <1>4 DEF FailureStep
<1> QED BY <1>4, <1>5, <1>6, <1>7

LEMMA ApplyOK ==
  ASSUME IInv, ApplyState
  PROVE  PageOK' /\ PendingIsLast' /\ ClickStep /\ FailureStep
<1> USE DEF IInv, Inv
<1> DEFINE synced == Sync(views, coming)
<1> DEFINE removed == synced.committed # NoSpace /\ coming.srv[synced.committed].status = "gone"
<1> DEFINE v == IF removed THEN CommitHome(synced) ELSE synced
<1>1. /\ views \in Views /\ coming \in State /\ timer \in Timer /\ views.selectToken \in Nat
      /\ asked \subseteq [space : Space, token : Token]
      /\ \A p \in replies : p.token \in Token
  BY DEF ApplyState, TypeOK, Views, Token
<1>2. /\ removed => views.selectToken < MaxToken
      /\ seen' = coming /\ replies' = replies
      /\ \/ /\ restore \in Space /\ v.selectToken < MaxToken
            /\ BeginSpace(v, restore, coming) /\ last' = restore
         \/ ContinuePending(v, coming) /\ last' = last
  BY DEF ApplyState, Restores, MaySelect, TypeOK
<1>3. Synced(synced, coming)  BY <1>1, ShownIsSynced, SyncIsSynced
<1>4. /\ synced \in Views
      /\ synced.selectToken = views.selectToken /\ synced.pending = views.pending
      /\ synced.committed = views.committed
      /\ \A t \in Space : \/ synced.frames[t] = views.frames[t] /\ coming.srv[t].status # "gone"
                          \/ synced.frames[t] = NoFrame
  BY <1>1, SyncFacts
<1> HIDE DEF synced
<1>5. /\ v \in Views /\ Synced(v, coming)
      /\ \A t \in Space : \/ v.frames[t] = views.frames[t] /\ coming.srv[t].status # "gone"
                          \/ v.frames[t] = NoFrame
      /\ \/ /\ v.selectToken = views.selectToken + 1 /\ v.pending = NoSpace
            /\ v.committed = NoSpace /\ coming.srv[views.committed].status = "gone"
         \/ /\ v.selectToken = views.selectToken /\ v.pending = views.pending
            /\ v.committed = views.committed
  <2>1. CASE removed
    <3>1. /\ v \in Views /\ v.frames = synced.frames /\ v.selectToken = views.selectToken + 1
          /\ v.committed = NoSpace /\ v.pending = NoSpace /\ v.visible = NoSpace
      BY <1>2, <1>4, <2>1, HomeFacts
    <3>2. Synced(v, coming)  BY <1>3, <3>1 DEF Synced, Has
    <3> QED BY <1>4, <2>1, <3>1, <3>2
  <2>2. CASE ~removed
    BY <1>3, <1>4, <2>2
  <2> QED BY <2>1, <2>2
<1> HIDE DEF v, removed
<1>9. timer.token \in Nat /\ timer.token <= views.selectToken /\ v.selectToken \in Nat
      /\ views.selectToken <= v.selectToken /\ timer.token <= v.selectToken
  <2>1. timer.token \in Nat /\ timer.token <= views.selectToken
    BY <1>1, TimerFacts DEF TokensAreOld, Token
  <2> QED BY <1>1, <1>5, <2>1
<1>10. /\ \A r \in asked : r.token \in Nat /\ r.token <= v.selectToken
       /\ \A p \in replies : p.token \in Nat /\ p.token <= v.selectToken
  <2>1. \A r \in asked : r.token \in Nat /\ r.token <= views.selectToken
    BY <1>1 DEF TokensAreOld, Token
  <2>2. \A p \in replies : p.token \in Nat /\ p.token <= views.selectToken
    BY <1>1 DEF TokensAreOld, Token
  <2> QED BY <1>1, <1>9, <2>1, <2>2
<1>15. CASE /\ restore \in Space /\ v.selectToken < MaxToken
            /\ BeginSpace(v, restore, coming) /\ last' = restore
  <2>1. /\ PageOK' /\ views'.selectToken = v.selectToken + 1
        /\ \/ views'.pending = restore /\ views'.committed = v.committed
           \/ views'.pending = NoSpace /\ views'.committed = restore
    BY <1>1, <1>2, <1>5, <1>9, <1>10, <1>15, Begins
  <2>2. PendingIsLast'  BY <1>15, <2>1 DEF PendingIsLast
  <2>3. ClickStep  BY <1>2, <1>5, <1>15, <2>1 DEF ClickStep
  <2>4. FailureStep  BY <1>1, <1>5, <1>9, <2>1 DEF FailureStep
  <2> QED BY <2>1, <2>2, <2>3, <2>4
<1>16. SUFFICES ASSUME ContinuePending(v, coming), last' = last
                PROVE  PageOK' /\ PendingIsLast' /\ ClickStep /\ FailureStep
  BY <1>2, <1>15
<1> DEFINE s == v.pending
<1>6. \/ /\ views' = v /\ timer' = timer /\ asked' = asked
         /\ s # NoSpace /\ v.frames[s].status = "loading" => coming.srv[s].status # "running"
      \/ /\ s # NoSpace /\ views' = v /\ Load(v, s) /\ v.frames[s].status = "loading"
      \/ /\ s # NoSpace /\ views.selectToken < MaxToken /\ BeginSpace(v, s, coming)
  <2>1. s = NoSpace \/ s \in Space  BY <1>5 DEF Views
  <2>2. CASE s = NoSpace  BY <1>16, <2>2 DEF ContinuePending
  <2>3. CASE s \in Space /\ coming.srv[s].status = "gone"
    <3>1. ~Has(v, s) /\ v.frames[s].status = "none"  BY <1>5, <2>3, NoFrameFacts DEF Has
    <3>2. views' = FailView(v, s, v.selectToken) /\ UNCHANGED <<timer, asked>>
      BY <1>16, <2>3, SpaceAssumption DEF ContinuePending
    <3>3. views' = v  BY <1>5, <2>3, <3>1, <3>2, FailViewFacts
    <3> QED BY <3>1, <3>2, <3>3
  <2>4. CASE s \in Space /\ coming.srv[s].status \in {"stopped", "starting"}
    BY <1>16, <2>4, SpaceAssumption DEF ContinuePending
  <2>5. CASE s \in Space /\ coming.srv[s].status = "running"
    <3>1. IF v.frames[s].gen # coming.srv[s].gen
          THEN MaySelect /\ BeginSpace(v, s, coming)
          ELSE /\ views' = v
               /\ IF v.frames[s].status = "loading" THEN Load(v, s) ELSE UNCHANGED <<timer, asked>>
      BY <1>16, <2>5, SpaceAssumption DEF ContinuePending
    <3> QED BY <2>5, <3>1, SpaceAssumption DEF MaySelect
  <2>6. s \in Space => coming.srv[s].status \in SpaceStatus  BY <1>1 DEF State
  <2> QED BY <2>1, <2>2, <2>3, <2>4, <2>5, <2>6 DEF SpaceStatus
<1>7. s # NoSpace => /\ s = views.pending /\ s \in Space /\ s = last
                     /\ v.selectToken = views.selectToken /\ v.committed = views.committed
  BY <1>5 DEF Views, PendingIsLast
<1>8. s # NoSpace /\ v.frames[s].status = "loading" =>
        /\ timer.token = views.selectToken /\ timer.space = s
        /\ v.frames[s].selectToken = v.selectToken
  <2> HAVE s # NoSpace /\ v.frames[s].status = "loading"
  <2>1. v.frames[s] = views.frames[s]  BY <1>5, <1>7, NoFrameFacts
  <2>2. Has(v, s)  BY DEF Has
  <2> QED BY <1>5, <1>7, <2>1, <2>2 DEF HangIsTimed, Synced
<1>11. ASSUME views' = v PROVE ShownIsCurrent' /\ PendingIsLast' /\ ClickStep /\ FailureStep
  <2>1. ShownIsCurrent'  BY <1>2, <1>5, <1>11 DEF ShownIsCurrent, Synced
  <2>2. PendingIsLast'  BY <1>16, <1>7, <1>11 DEF PendingIsLast
  <2>3. ClickStep  BY <1>2, <1>5, <1>11 DEF ClickStep
  <2>4. FailureStep  BY <1>1, <1>5, <1>11 DEF FailureStep
  <2> QED BY <2>1, <2>2, <2>3, <2>4
<1>12. CASE /\ views' = v /\ timer' = timer /\ asked' = asked
            /\ s # NoSpace /\ v.frames[s].status = "loading" => coming.srv[s].status # "running"
  <2>1. HangIsTimed'  BY <1>7, <1>8, <1>12 DEF HangIsTimed
  <2>2. TokensAreOld'
    <3>1. views'.selectToken = v.selectToken /\ timer' = timer /\ asked' = asked /\ replies' = replies
      BY <1>2, <1>12
    <3> QED BY <1>9, <1>10, <3>1 DEF TokensAreOld
  <2>3. StartHasNoRequest'
    <3> SUFFICES ASSUME timer.kind = "start", timer.token = v.selectToken
                 PROVE  /\ ~InFlight(Request(timer.space, timer.token))'
                        /\ (s = timer.space /\ v.frames[timer.space].status = "loading"
                              => coming.srv[timer.space].status # "running")
      BY <1>2, <1>12 DEF StartHasNoRequest
    <3>1. timer.token = views.selectToken  BY <1>1, <1>5, <1>9
    <3>2. ~InFlight(Request(timer.space, timer.token))  BY <3>1 DEF StartHasNoRequest
    <3>3. timer.space # NoSpace  BY <1>1, TimerFacts, SpaceAssumption
    <3> QED BY <1>2, <1>12, <3>2, <3>3 DEF InFlight
  <2> QED BY <1>1, <1>5, <1>11, <1>12, <2>1, <2>2, <2>3 DEF PageOK
<1>13. CASE s # NoSpace /\ views' = v /\ Load(v, s) /\ v.frames[s].status = "loading"
  <2> DEFINE token == v.selectToken
  <2>1. v.frames[s].selectToken = token /\ timer.token = token /\ timer.space = s /\ s \in Space
    BY <1>7, <1>8, <1>13
  <2>2. IF InFlight(Request(s, token)) THEN timer' = timer /\ asked' = asked
        ELSE asked' = asked \cup {Request(s, token)} /\ timer' = Wait("handshake", token, s)
    <3>1. Request(s, token).token = token  BY DEF Request
    <3> QED BY <1>13, <2>1, <3>1 DEF Load
  <2>3. CASE InFlight(Request(s, token))
    <3>1. timer.kind # "start"  BY <1>7, <1>13, <2>1, <2>3 DEF StartHasNoRequest
    <3>2. HangIsTimed'  BY <1>8, <1>13, <2>1, <2>2, <2>3 DEF HangIsTimed
    <3>3. TokensAreOld'
      <4>1. views'.selectToken = v.selectToken /\ timer' = timer /\ asked' = asked /\ replies' = replies
        BY <1>2, <1>13, <2>2, <2>3
      <4> QED BY <1>9, <1>10, <4>1 DEF TokensAreOld
    <3>4. StartHasNoRequest'  BY <2>2, <2>3, <3>1 DEF StartHasNoRequest
    <3> QED BY <1>1, <1>5, <1>11, <1>13, <2>2, <2>3, <3>2, <3>3, <3>4 DEF PageOK
  <2>4. CASE ~InFlight(Request(s, token))
    <3>1. token \in Token  BY <1>5 DEF Views
    <3>2. /\ timer' \in Timer /\ timer'.kind = "handshake" /\ timer'.token = token
          /\ timer'.space = s
      BY <2>1, <2>2, <2>4, <3>1, WaitFacts
    <3>3. Request(s, token) \in [space : Space, token : Token] /\ Request(s, token).token = token
      BY <2>1, <3>1 DEF Request
    <3>4. HangIsTimed'  BY <1>13, <3>2 DEF HangIsTimed
    <3>5. TokensAreOld'  BY <1>2, <1>9, <1>10, <1>13, <2>2, <2>4, <3>2, <3>3 DEF TokensAreOld
    <3>6. StartHasNoRequest'  BY <3>2 DEF StartHasNoRequest
    <3>7. asked' \subseteq [space : Space, token : Token]  BY <1>1, <2>2, <2>4, <3>3
    <3> QED BY <1>5, <1>11, <1>13, <3>2, <3>4, <3>5, <3>6, <3>7 DEF PageOK
  <2> QED BY <2>3, <2>4
<1>14. CASE s # NoSpace /\ views.selectToken < MaxToken /\ BeginSpace(v, s, coming)
  <2>1. s \in Space /\ v.selectToken < MaxToken /\ timer.token <= v.selectToken
    BY <1>7, <1>9, <1>14
  <2>2. /\ PageOK' /\ views'.selectToken = v.selectToken + 1
        /\ \/ views'.pending = s /\ views'.committed = v.committed
           \/ views'.pending = NoSpace /\ views'.committed = s
    BY <1>1, <1>2, <1>5, <1>10, <1>14, <2>1, Begins
  <2>3. PendingIsLast'  BY <1>2, <1>16, <1>7, <1>14, <2>2 DEF PendingIsLast
  <2>4. ClickStep  BY <1>2, <1>16, <1>7, <1>14, <2>2 DEF ClickStep
  <2>5. FailureStep  BY <1>1, <1>7, <1>14, <2>2 DEF FailureStep
  <2> QED BY <2>2, <2>3, <2>4, <2>5
<1> QED BY <1>6, <1>12, <1>13, <1>14
\* The actions that hand the page an answer, a message or a timer.
LEMMA AnswerOK ==
  ASSUME IInv, \/ \E p \in replies : HandleView(p)
               \/ \E r \in asked : HandleError(r)
               \/ \E s \in Space, says \in {"ready", "disconnected", "failed"} : FrameSays(s, says)
               \/ Timeout
  PROVE  PageOK' /\ PendingIsLast' /\ ClickStep /\ FailureStep
<1> USE DEF IInv, Inv
<1>1. views \in Views /\ timer \in Timer  BY DEF TypeOK
<1>2. ASSUME NEW p \in replies, HandleView(p)
      PROVE  PageOK' /\ PendingIsLast' /\ ClickStep /\ FailureStep
  <2>1. p.space \in Space /\ p.view \in View  BY DEF TypeOK
  <2>2. views' \in Views /\ Settles(views, views', p.space)
    BY <1>1, <1>2, <2>1, ApplyViewFacts DEF HandleView
  <2>3. UNCHANGED <<seen, last, asked, timer>> /\ replies' \subseteq replies
    BY <1>2 DEF HandleView
  <2> QED BY <2>1, <2>2, <2>3, SettlesOK, SettlesSteps
<1>3. ASSUME NEW r \in asked, HandleError(r)
      PROVE  PageOK' /\ PendingIsLast' /\ ClickStep /\ FailureStep
  <2>1. r.space \in Space  BY DEF TypeOK
  <2>2. views' \in Views /\ Settles(views, views', r.space)
    BY <1>1, <1>3, <2>1, FailViewFacts DEF HandleError
  <2>3. UNCHANGED <<seen, last, replies, timer>> /\ asked' \subseteq asked
    BY <1>3 DEF HandleError
  <2> QED BY <2>1, <2>2, <2>3, SettlesOK, SettlesSteps
<1>4. ASSUME NEW s \in Space, NEW says \in {"ready", "disconnected", "failed"}, FrameSays(s, says)
      PROVE  PageOK' /\ PendingIsLast' /\ ClickStep /\ FailureStep
  <2>1. views' \in Views /\ Settles(views, views', s)
    BY <1>1, <1>4, AcceptFacts DEF FrameSays
  <2>2. UNCHANGED <<seen, last, asked, replies, timer>>  BY <1>4 DEF FrameSays, net
  <2> QED BY <2>1, <2>2, SettlesOK, SettlesSteps
<1>5. ASSUME Timeout
      PROVE  PageOK' /\ PendingIsLast' /\ ClickStep /\ FailureStep
  <2> DEFINE s == timer.space
  <2>1. s \in Space /\ timer.kind \in {"start", "handshake"} /\ timer' = NoTimer
    BY <1>1, <1>5 DEF Timeout, Timer
  <2>2. UNCHANGED <<seen, last, asked, replies>>  BY <1>5 DEF Timeout, net
  <2>3. views' \in Views /\ Settles(views, views', s)
    <3>1. CASE TimedOut(views)  BY <1>1, <1>5, <2>1, <3>1, FailViewFacts DEF Timeout
    <3>2. CASE ~TimedOut(views)
      <4>1. views' = views  BY <1>5, <3>2 DEF Timeout
      <4> QED BY <1>1, <2>1, <4>1, Unsettled
    <3> QED BY <3>1, <3>2
  <2>4. ~(views'.pending # NoSpace /\ views'.frames[views'.pending].status = "loading")
    <3> SUFFICES ASSUME views'.pending # NoSpace, views'.frames[views'.pending].status = "loading"
                 PROVE  FALSE
      OBVIOUS
    <3>1. views'.pending = views.pending /\ views.pending \in Space
      BY <1>1, <2>3 DEF Settles, Views
    <3>2. views.frames[views.pending].status = "loading"
      BY <2>3, <3>1 DEF Settles
    <3>3. timer.token = views.selectToken /\ s = views.pending
      BY <3>1, <3>2, SpaceAssumption DEF HangIsTimed
    <3>4. TimedOut(views)
      BY <2>1, <3>2, <3>3 DEF TimedOut, StartHasNoRequest
    <3>5. Has(views, s) /\ views.frames[s].selectToken = timer.token
      BY <3>1, <3>2, <3>3, SpaceAssumption DEF Has, ShownIsCurrent
    <3>6. views' = FailView(views, s, timer.token)  BY <1>5, <3>4 DEF Timeout
    <3>7. views'.pending = NoSpace
      BY <1>1, <2>1, <3>3, <3>5, <3>6, FailViewFacts
    <3> QED BY <3>7
  <2>5. PageOK' /\ PendingIsLast'  BY <2>1, <2>2, <2>3, <2>4, SettlesOK
  <2> QED BY <2>1, <2>2, <2>3, <2>5, SettlesSteps
<1> QED BY <1>2, <1>3, <1>4, <1>5

-----------------------------------------------------------------------------
(* The Supervisor, and the types.                                            *)

\* The Supervisor changes nothing of the page; what it answers carries the
\* token it was asked with.
LEMMA ServerOK ==
  ASSUME IInv, \/ AnswerPoll \/ Restart
               \/ \E r \in asked : AnswerView(r)
               \/ \E s \in Space : SpaceChanges(s)
  PROVE  PageOK' /\ PendingIsLast' /\ TypeOK' /\ UNCHANGED views
<1> USE DEF IInv, Inv
<1>1. UNCHANGED <<seen, views, timer, restore, last>>
  BY DEF AnswerPoll, Restart, AnswerView, SpaceChanges, Becomes, Change, page
<1>2. /\ asked' \subseteq asked
      /\ \A p \in replies' : p \in replies \/ Request(p.space, p.token) \in asked
      /\ replies' \subseteq [space : Space, token : Token, view : View]
  <2>1. CASE UNCHANGED <<asked, replies>>  BY <2>1 DEF TypeOK
  <2>2. ASSUME NEW r \in asked, AnswerView(r)
        PROVE  /\ asked' \subseteq asked
               /\ \A p \in replies' : p \in replies \/ Request(p.space, p.token) \in asked
               /\ replies' \subseteq [space : Space, token : Token, view : View]
    <3> DEFINE view == [epoch |-> epoch, gen |-> srv[r.space].gen]
    <3> DEFINE q == [space |-> r.space, token |-> r.token, view |-> view]
    <3>1. r \in [space : Space, token : Token]  BY DEF TypeOK
    <3>2. epoch \in 1..MaxChange + 1 /\ srv \in [Space -> [status : SpaceStatus, gen : Nat]]
      BY DEF TypeOK, State
    <3>3. epoch \in Nat /\ srv[r.space].gen \in Int  BY <3>1, <3>2, BoundAssumption
    <3>4. view \in View  BY <3>3 DEF View
    <3>5. replies' = replies \cup {q} /\ asked' = asked \ {r}  BY <2>2 DEF AnswerView
    <3> HIDE DEF view
    <3>6. q \in [space : Space, token : Token, view : View]  BY <3>1, <3>4
    <3>7. Request(q.space, q.token) = r  BY <3>1 DEF Request
    <3> QED BY <3>5, <3>6, <3>7 DEF TypeOK
  <2> QED BY <2>1, <2>2 DEF AnswerPoll, Restart, SpaceChanges, Becomes, Change, net
<1>3. ShownIsCurrent' /\ HangIsTimed' /\ PendingIsLast'
  BY <1>1 DEF ShownIsCurrent, Has, HangIsTimed, PendingIsLast
<1>4. TokensAreOld'
  <2>1. \A p \in replies' : p.token <= views.selectToken
    <3> TAKE p \in replies'
    <3>1. CASE p \in replies  BY <3>1 DEF TokensAreOld
    <3>2. CASE Request(p.space, p.token) \in asked
      <4>1. Request(p.space, p.token).token = p.token  BY DEF Request
      <4> QED BY <3>2, <4>1 DEF TokensAreOld
    <3> QED BY <1>2, <3>1, <3>2
  <2> QED BY <1>1, <1>2, <2>1 DEF TokensAreOld
<1>5. StartHasNoRequest'
  <2> SUFFICES ASSUME timer.kind = "start", timer.token = views.selectToken
               PROVE  ~InFlight(Request(timer.space, timer.token))'
    BY <1>1 DEF StartHasNoRequest
  <2>1. ~InFlight(Request(timer.space, timer.token))  BY DEF StartHasNoRequest
  <2> QED BY <1>1, <1>2, <2>1 DEF InFlight, Request
<1>6. TypeOK'
  <2>1. /\ views \in Views /\ timer \in Timer /\ asked \subseteq [space : Space, token : Token]
        /\ seen \in State /\ coming \in State \cup {NoState}
        /\ restore \in Space \cup {NoSpace} /\ last \in Space \cup {NoSpace}
        /\ [epoch |-> epoch, srv |-> srv] \in State /\ changes \in 0..MaxChange
        /\ epoch <= changes + 1
    BY DEF TypeOK
  <2>2. epoch \in 1..MaxChange + 1 /\ srv \in [Space -> [status : SpaceStatus, gen : Nat]]
    BY <2>1 DEF State
  <2>3. /\ [epoch |-> epoch', srv |-> srv'] \in State /\ changes' \in 0..MaxChange
        /\ epoch' <= changes' + 1
        /\ coming' \in State \cup {NoState}
    <3>1. CASE AnswerPoll \/ \E r \in asked : AnswerView(r)
      BY <2>1, <3>1 DEF AnswerPoll, AnswerView, server
    <3>2. CASE (\E s \in Space : SpaceChanges(s)) \/ Restart
      <4>1. changes < MaxChange /\ changes' = changes + 1 /\ coming' = coming
        BY <3>2 DEF SpaceChanges, Becomes, Restart, Change, net
      <4>2. epoch' = epoch \/ epoch' = epoch + 1
        BY <3>2 DEF SpaceChanges, Becomes, Restart
      <4>3. epoch' \in 1..MaxChange + 1 /\ epoch' <= changes' + 1 /\ changes' \in 0..MaxChange
        BY <2>1, <2>2, <4>1, <4>2, BoundAssumption
      <4>4. srv' \in [Space -> [status : SpaceStatus, gen : Nat]]
        <5>1. ASSUME NEW s \in Space, NEW from, NEW status \in SpaceStatus, NEW more \in {0, 1},
                     Becomes(s, from, status, more)
              PROVE  srv' \in [Space -> [status : SpaceStatus, gen : Nat]]
          <6>1. srv' = [srv EXCEPT ![s] = [status |-> status, gen |-> srv[s].gen + more]]
            BY <5>1 DEF Becomes
          <6>2. srv[s].gen + more \in Nat  BY <2>2
          <6>3. [status |-> status, gen |-> srv[s].gen + more] \in [status : SpaceStatus, gen : Nat]
            BY <6>2
          <6> QED BY <2>2, <6>1, <6>3
        <5>2. CASE \E s \in Space : SpaceChanges(s)
          <6>1. {"stopped", "starting", "running", "gone"} \subseteq SpaceStatus
            BY DEF SpaceStatus
          <6> QED BY <5>1, <5>2, <6>1 DEF SpaceChanges
        <5>3. CASE Restart
          <6> PICK up \in {{}, Space} :
                srv' = [s \in Space |-> CASE srv[s].status = "gone" -> srv[s]
                          [] s \in up /\ srv[s].status # "gone" -> [status |-> "running", gen |-> 1]
                          [] OTHER -> [status |-> "stopped", gen |-> 0]]
            BY <5>3 DEF Restart
          <6>1. \A s \in Space : srv'[s] \in [status : SpaceStatus, gen : Nat]
            BY <2>2 DEF SpaceStatus
          <6>2. srv' = [s \in Space |-> srv'[s]]  OBVIOUS
          <6> QED BY <6>1, <6>2
        <5> QED BY <3>2, <5>2, <5>3
      <4> QED BY <2>1, <4>1, <4>3, <4>4 DEF State
    <3> QED BY <3>1, <3>2
  <2> QED BY <1>1, <1>2, <2>1, <2>3 DEF TypeOK
<1> QED BY <1>1, <1>2, <1>3, <1>4, <1>5, <1>6 DEF PageOK, TypeOK

LEMMA PageTypes ==
  ASSUME IInv, PageOK',
         \/ SelectHome \/ ApplyState \/ Timeout
         \/ \E s \in Space : \/ SelectSpace(s)
                             \/ \E says \in {"ready", "disconnected", "failed"} : FrameSays(s, says)
         \/ \E p \in replies : HandleView(p)
         \/ \E r \in asked : HandleError(r)
  PROVE  TypeOK'
<1> USE DEF IInv, Inv
<1>1. UNCHANGED <<epoch, srv, changes>>
  BY DEF SelectHome, ApplyState, Timeout, SelectSpace, FrameSays, HandleView, HandleError, server
<1>2. replies' \subseteq replies
  BY DEF SelectHome, ApplyState, Timeout, SelectSpace, FrameSays, HandleView, HandleError, net
<1>3. last' \in Space \cup {NoSpace}
  BY DEF SelectHome, ApplyState, Timeout, SelectSpace, FrameSays, HandleView, HandleError, TypeOK
<1>5. restore' \in Space \cup {NoSpace}
  BY DEF SelectHome, ApplyState, Timeout, SelectSpace, FrameSays, HandleView, HandleError, TypeOK
<1>4. seen' \in State /\ coming' \in State \cup {NoState}
  BY DEF SelectHome, ApplyState, Timeout, SelectSpace, FrameSays, HandleView, HandleError,
         TypeOK, net
<1> QED BY <1>1, <1>2, <1>3, <1>4, <1>5 DEF TypeOK, PageOK

-----------------------------------------------------------------------------
(* The theorems.                                                             *)

\* Every step of the page and of the Supervisor keeps the invariant, moves the
\* selection as LastClickWins says and fails it as FailureKeepsView says.
LEMMA ViewSteps ==
  ASSUME IInv, [Next]_vars
  PROVE  IInv' /\ ClickStep /\ FailureStep
<1>1. CASE \/ SelectHome \/ ApplyState \/ Timeout
           \/ \E s \in Space : \/ SelectSpace(s)
                               \/ \E says \in {"ready", "disconnected", "failed"} : FrameSays(s, says)
           \/ \E p \in replies : HandleView(p)
           \/ \E r \in asked : HandleError(r)
  <2>1. PageOK' /\ PendingIsLast' /\ ClickStep /\ FailureStep
    BY <1>1, HomeOK, SelectOK, ApplyOK, AnswerOK
  <2>2. TypeOK'  BY <1>1, <2>1, PageTypes
  <2> QED BY <2>1, <2>2 DEF IInv, Inv, PageOK
<1>2. CASE \/ AnswerPoll \/ Restart
           \/ \E r \in asked : AnswerView(r)
           \/ \E s \in Space : SpaceChanges(s)
  <2>1. PageOK' /\ PendingIsLast' /\ TypeOK' /\ UNCHANGED views
    BY <1>2, ServerOK
  <2> QED BY <2>1 DEF IInv, Inv, PageOK, ClickStep, FailureStep
<1>3. CASE UNCHANGED vars
  <2>1. UNCHANGED <<epoch, srv, changes, seen, views, timer, restore, last, coming, asked,
                  replies>>
    BY <1>3 DEF vars, server, page, net
  <2>2. TypeOK' /\ PendingIsLast' /\ HangIsTimed' /\ TokensAreOld'
    BY <2>1 DEF IInv, Inv, TypeOK, PendingIsLast, HangIsTimed, TokensAreOld
  <2>3. ShownIsCurrent'  BY <2>1 DEF IInv, Inv, ShownIsCurrent, Has
  <2>4. StartHasNoRequest'  BY <2>1 DEF IInv, StartHasNoRequest, InFlight, Request
  <2> QED BY <2>1, <2>2, <2>3, <2>4 DEF IInv, Inv, ClickStep, FailureStep
<1> QED BY <1>1, <1>2, <1>3 DEF Next

\* The invariant of the page in every reachable state: types, ShownIsCurrent,
\* HangIsTimed, and what they rest on (ViewSession and WorkbenchController).
THEOREM ViewInvariance == Spec => []IInv
<1>1. Init => IInv
  <2> SUFFICES ASSUME Init PROVE IInv
    OBVIOUS
  <2>1. 0 \in Token /\ NoTimer \in Timer /\ NoTimer.token = 0 /\ NoTimer.kind = "none"
    BY BoundAssumption DEF Token, Timer, NoTimer
  <2>2. views \in Views /\ \A s \in Space : views.frames[s] = NoFrame
    BY <2>1, NoFrameFacts DEF Init, Views
  <2>3. srv \in [Space -> [status : SpaceStatus, gen : Nat]] /\ epoch \in 1..MaxChange + 1
    BY BoundAssumption DEF Init, SpaceStatus
  <2>4. [epoch |-> epoch, srv |-> srv] \in State  BY <2>3 DEF State
  <2>5. TypeOK  BY <2>1, <2>2, <2>4, BoundAssumption DEF Init, TypeOK
  <2>6. ShownIsCurrent /\ HangIsTimed
    BY <2>2, NoFrameFacts DEF Init, ShownIsCurrent, HangIsTimed, Has
  <2>7. TokensAreOld /\ StartHasNoRequest /\ PendingIsLast
    BY <2>1 DEF Init, TokensAreOld, StartHasNoRequest, PendingIsLast
  <2> QED BY <2>5, <2>6, <2>7 DEF IInv, Inv
<1>2. IInv /\ [Next]_vars => IInv'  BY ViewSteps
<1> QED BY <1>1, <1>2, PTL DEF Spec

\* What the page shows is the selected space in a frame of the generation it
\* knows, and no selection waits for a view request without a timer.
THEOREM ViewSafety == Spec => []Inv
<1>1. IInv => Inv  BY DEF IInv
<1> QED BY <1>1, ViewInvariance, PTL

\* The selection moves only to the space that was asked for last, by a click or by
\* the restoration of an earlier selection, or home when the selected one is
\* removed, whatever arrives late.
THEOREM LastClick == Spec => LastClickWins
<1> DEFINE A == views'.committed # views.committed =>
                  \/ views'.committed = last'
                  \/ views'.committed = NoSpace /\ seen'.srv[views.committed].status = "gone"
<1>1. IInv /\ [Next]_vars => [A]_vars  BY ViewSteps DEF ClickStep
<1> QED BY <1>1, ViewInvariance, PTL DEF Spec, LastClickWins

\* A switch that fails says so and leaves the space shown before in place.
THEOREM Failures == Spec => FailureKeepsView
<1> DEFINE A == views.pending # NoSpace /\ views'.pending = NoSpace
                  /\ views'.selectToken = views.selectToken
                => \/ views'.committed = views.pending /\ views'.visible = views.pending
                   \/ /\ views'.viewError = views.pending /\ views'.committed = views.committed
                      /\ views'.visible = views.visible
                           \/ (seen' # seen /\ ~Has(views', views.visible))
<1>1. IInv /\ [Next]_vars => [A]_vars  BY ViewSteps DEF FailureStep
<1> QED BY <1>1, ViewInvariance, PTL DEF Spec, FailureKeepsView

-----------------------------------------------------------------------------
(* The blueprint session.                                                    *)

LEMMA JobFacts ==
  ASSUME BlueprintTypeOK
  PROVE  /\ Len(jobs) \in Nat /\ DOMAIN jobs = 1..Len(jobs)
         /\ \A j \in DOMAIN jobs : jobs[j] \in ApplyJob
  BY DEF BlueprintTypeOK

LEMMA ConstantFacts ==
  /\ Refusal \in Answered /\ EmptyOutcome \in Outcome /\ Idle \in Working
  /\ NoRevision \in Revisions
  /\ Packages \in Nat /\ MaxPlan \in Nat /\ MaxTime \in Nat /\ MaxHomeChange \in Nat
  /\ MaxBoots \in Nat /\ MaxJob \in Nat /\ PlanLimit \in Nat
<1>1. /\ Packages \in Nat /\ MaxPlan \in Nat /\ MaxTime \in Nat /\ MaxHomeChange \in Nat
      /\ MaxBoots \in Nat /\ MaxJob \in Nat /\ PlanLimit \in Nat
  BY BlueprintAssumption
<1>2. Refusal \in Answered  BY DEF Refusal, Answered
<1>3. EmptyOutcome \in Outcome  BY DEF EmptyOutcome, Outcome, Step
<1>4. NoRevision \in Revisions  BY DEF NoRevision, Revisions
<1>5. Idle \in Working  BY <1>1, <1>4 DEF Idle, Working
<1> QED BY <1>1, <1>2, <1>3, <1>4, <1>5

\* The types that most steps need, apart from those of jobs and work.
LEMMA SmallFacts ==
  ASSUME BlueprintTypeOK
  PROVE  /\ issued \in Nat /\ issued <= MaxPlan /\ 1..issued \subseteq 1..MaxPlan
         /\ issued < MaxPlan => issued + 1 \in 1..MaxPlan
         /\ home \in [rev : Nat, runs : Nat, llm : Nat, enabled : BOOLEAN, override : BOOLEAN,
                      edits : 0..MaxHomeChange]
         /\ plans \subseteq Plan /\ ui \in Session
         /\ \A c \in Call : calls[c] \in Requests \cup {None}
<1>1. issued \in 0..MaxPlan /\ MaxPlan \in Nat  BY ConstantFacts DEF BlueprintTypeOK
<1>2. /\ issued \in Nat /\ issued <= MaxPlan /\ 1..issued \subseteq 1..MaxPlan
      /\ issued < MaxPlan => issued + 1 \in 1..MaxPlan
  BY <1>1
<1> QED BY <1>2 DEF BlueprintTypeOK

\* A revision is of two parts, of which jobs change the first only.
LEMMA RevisionFacts ==
  ASSUME BlueprintTypeOK
  PROVE  /\ Revision \in Revisions /\ Revision[1] = home.rev
         /\ home.rev \in Nat /\ home.runs \in Nat
<1>1. home.rev \in Nat /\ home.runs \in Nat  BY SmallFacts
<1> QED BY <1>1 DEF Revision, Revisions

\* A job's record is replaced.
LEMMA JobSet ==
  ASSUME BlueprintTypeOK, NEW j \in DOMAIN jobs, NEW r \in ApplyJob,
         jobs' = [jobs EXCEPT ![j] = r]
  PROVE  /\ jobs' \in Seq(ApplyJob) /\ DOMAIN jobs' = DOMAIN jobs
         /\ jobs'[j] = r /\ \A i \in DOMAIN jobs \ {j} : jobs'[i] = jobs[i]
<1>1. jobs \in Seq(ApplyJob)  BY DEF BlueprintTypeOK
<1>2. j \in 1..Len(jobs)  BY JobFacts
<1>3. jobs' \in Seq(ApplyJob)  BY <1>1, <1>2, ExceptSeq
<1> QED BY <1>3

\* A record is put at the end.
LEMMA JobAdd ==
  ASSUME BlueprintTypeOK, NEW r \in ApplyJob, jobs' = Append(jobs, r)
  PROVE  /\ jobs' \in Seq(ApplyJob) /\ DOMAIN jobs' = DOMAIN jobs \cup {Len(jobs')}
         /\ Len(jobs') \in Nat \ {0} /\ Len(jobs') \notin DOMAIN jobs
         /\ jobs'[Len(jobs')] = r /\ \A i \in DOMAIN jobs : jobs'[i] = jobs[i]
<1>1. jobs \in Seq(ApplyJob)  BY DEF BlueprintTypeOK
<1>2. jobs' \in Seq(ApplyJob) /\ Len(jobs') = Len(jobs) + 1  BY <1>1
<1>3. DOMAIN jobs' = 1..(Len(jobs) + 1) /\ DOMAIN jobs = 1..Len(jobs) /\ Len(jobs) \in Nat
  BY <1>1, <1>2
<1>4. jobs'[Len(jobs')] = r /\ \A i \in 1..Len(jobs) : jobs'[i] = jobs[i]  BY <1>1, <1>2
<1> QED BY <1>2, <1>3, <1>4

LEMMA SettleFacts ==
  ASSUME BlueprintTypeOK, work.job \in DOMAIN jobs, NEW status \in Finished,
         NEW out \in Outcome \cup {None}, Settle(status, out)
  PROVE  /\ jobs' \in Seq(ApplyJob) /\ DOMAIN jobs' = DOMAIN jobs /\ work' = Idle
         /\ jobs'[work.job] = [jobs[work.job] EXCEPT !.status = status, !.outcome = out]
         /\ \A i \in DOMAIN jobs \ {work.job} : jobs'[i] = jobs[i]
<1> DEFINE r == [jobs[work.job] EXCEPT !.status = status, !.outcome = out]
<1>1. r \in ApplyJob  BY JobFacts DEF ApplyJob
<1>2. jobs' = [jobs EXCEPT ![work.job] = r]  BY JobFacts DEF Settle
<1>3. work' = Idle  BY DEF Settle
<1> HIDE DEF r
<1>4. /\ jobs' \in Seq(ApplyJob) /\ DOMAIN jobs' = DOMAIN jobs
      /\ jobs'[work.job] = r /\ \A i \in DOMAIN jobs \ {work.job} : jobs'[i] = jobs[i]
  BY <1>1, <1>2, JobSet
<1> QED BY <1>3, <1>4 DEF r

LEMMA AnswerFacts ==
  ASSUME BlueprintTypeOK, NEW c \in Call, calls[c] # None, NEW res \in Answered, Answer(c, res)
  PROVE  /\ calls' \in [Call -> Requests \cup {None}]
         /\ calls'[c] \in {None, [calls[c] EXCEPT !.stage = "answered", !.res = res]}
         /\ \A d \in Call \ {c} : calls'[d] = calls[d]
<1>1. calls \in [Call -> Requests \cup {None}] /\ calls[c] \in Requests  BY DEF BlueprintTypeOK
<1>2. [calls[c] EXCEPT !.stage = "answered", !.res = res] \in Requests  BY <1>1 DEF Requests
<1>3. calls' = [calls EXCEPT ![c] = IF calls[c].live
                  THEN [calls[c] EXCEPT !.stage = "answered", !.res = res] ELSE None]
  BY DEF Answer
<1> HIDE DEF Answer
<1> QED BY <1>1, <1>2, <1>3

LEMMA GiveUpFacts ==
  ASSUME BlueprintTypeOK, NEW kinds
  PROVE  /\ GiveUp(kinds) \in [Call -> Requests \cup {None}]
         /\ \A c \in Call : \/ GiveUp(kinds)[c] \in {calls[c], None}
                            \/ /\ calls[c] # None /\ calls[c].stage # "answered"
                               /\ GiveUp(kinds)[c] = [calls[c] EXCEPT !.live = FALSE]
<1>1. \A c \in Call : calls[c] \in Requests \cup {None}  BY SmallFacts
<1>2. \A c \in Call : calls[c] # None => [calls[c] EXCEPT !.live = FALSE] \in Requests
  BY <1>1 DEF Requests
<1> QED BY <1>1, <1>2 DEF GiveUp

-----------------------------------------------------------------------------
(* Types.                                                                    *)

LEMMA ServeTypes ==
  ASSUME BlueprintTypeOK, CallsAreSound, Serve, UNCHANGED ui
  PROVE  BlueprintTypeOK'
<1> USE ConstantFacts
<1> PICK c \in Call : PreviewArrives(c) \/ Gate(c) \/ Stage(c) \/ SubmitArrives(c)  BY DEF Serve
<1>1. CASE PreviewArrives(c)
  <2>1. calls[c] # None /\ calls[c] \in Requests /\ calls[c].res \in Answered
    BY <1>1 DEF PreviewArrives, At, BlueprintTypeOK, Requests
  <2>2. calls' \in [Call -> Requests \cup {None}]
    <3>1. CASE Answer(c, Refusal)  BY <2>1, <3>1, AnswerFacts
    <3> DEFINE saw == [epoch |-> serviceEpoch, rev |-> Revision]
               r == [calls[c] EXCEPT !.stage = "gate", !.res = [calls[c].res EXCEPT !.obs = saw]]
    <3>2. CASE calls' = [calls EXCEPT ![c].stage = "gate", ![c].res.obs = saw]
      <4>1. saw \in Saw  BY RevisionFacts DEF Saw, BlueprintTypeOK
      <4>2. r \in Requests  BY <2>1, <4>1 DEF Requests, Answered
      <4>3. calls' = [calls EXCEPT ![c] = r]  BY <3>2, <2>1 DEF BlueprintTypeOK
      <4> HIDE DEF r
      <4> QED BY <4>2, <4>3 DEF BlueprintTypeOK
    <3> QED BY <1>1, <3>1, <3>2 DEF PreviewArrives
  <2> QED BY <1>1, <2>2 DEF PreviewArrives, BlueprintTypeOK
<1>2. CASE Gate(c)
  <2>1. calls[c] # None /\ calls[c] \in Requests /\ calls[c].res \in Answered
    BY <1>2 DEF Gate, At, BlueprintTypeOK, Requests
  <2>2. plans' \subseteq plans  BY <1>2 DEF Gate, Live
  <2>3. calls' \in [Call -> Requests \cup {None}]
    <3>1. CASE NoPlan(c)
      <4>1. [calls[c].res EXCEPT !.type = "noplan"] \in Answered  BY <2>1 DEF Answered
      <4> QED BY <2>1, <3>1, <4>1, AnswerFacts DEF NoPlan
    <3>2. CASE Answer(c, Refusal)  BY <2>1, <3>2, AnswerFacts
    <3> DEFINE r == [calls[c] EXCEPT !.stage = "capture", !.rev = Revision,
                       !.res = [calls[c].res EXCEPT !.expires = clock + Ttl]]
    <3>3. CASE calls' = [calls EXCEPT ![c].stage = "capture", ![c].res.expires = clock + Ttl,
                                     ![c].rev = Revision]
      <4>1. clock + Ttl \in Nat /\ Revision \in Revisions  BY RevisionFacts DEF BlueprintTypeOK, Ttl
      <4>2. r \in Requests  BY <2>1, <4>1 DEF Requests, Answered
      <4>3. calls' = [calls EXCEPT ![c] = r]  BY <3>3, <2>1 DEF BlueprintTypeOK, Requests
      <4> HIDE DEF r
      <4> QED BY <4>2, <4>3 DEF BlueprintTypeOK
    <3> QED BY <1>2, <3>1, <3>2, <3>3 DEF Gate
  <2> QED BY <1>2, <2>2, <2>3 DEF Gate, BlueprintTypeOK
<1>3. CASE Stage(c)
  <2>1. calls[c] # None /\ calls[c] \in Requests /\ calls[c].res \in Answered
    BY <1>3 DEF Stage, At, BlueprintTypeOK, Requests
  <2>2. CASE NoPlan(c) /\ UNCHANGED <<plans, issued>>
    <3>1. [calls[c].res EXCEPT !.type = "noplan"] \in Answered  BY <2>1 DEF Answered
    <3>2. calls' \in [Call -> Requests \cup {None}]  BY <2>1, <2>2, <3>1, AnswerFacts DEF NoPlan
    <3> QED BY <1>3, <2>2, <3>2 DEF Stage, BlueprintTypeOK
  <2> DEFINE res == [calls[c].res EXCEPT !.type = "plan", !.plan = issued']
             p == [id |-> issued', content |-> calls[c].content, name |-> calls[c].name,
                   expires |-> calls[c].res.expires, obs |-> Observation(calls[c].rev)]
  <2>3. CASE /\ issued < MaxPlan /\ issued' = issued + 1
             /\ plans' = plans \cup {p} /\ Answer(c, res)
    <3>1. issued' \in 1..MaxPlan  BY <2>3, SmallFacts
    <3>2. calls[c].content \in Content /\ calls[c].name \in Name
      BY <1>3, <2>1 DEF Stage, At, CallsAreSound, CallIsSound
    <3>3. p \in Plan
      BY <2>1, <3>1, <3>2 DEF Plan, Observation, BlueprintTypeOK, Requests, Answered
    <3>4. res \in Answered
      <4>1. issued' \in Nat  BY <3>1
      <4> HIDE DEF p
      <4> QED BY <2>1, <4>1 DEF Answered
    <3> HIDE DEF res, p
    <3>5. calls' \in [Call -> Requests \cup {None}]  BY <2>1, <2>3, <3>4, AnswerFacts
    <3>6. plans' \subseteq Plan /\ issued' \in 0..MaxPlan
      BY <2>3, <3>1, <3>3 DEF BlueprintTypeOK
    <3> QED BY <1>3, <3>5, <3>6 DEF Stage, BlueprintTypeOK
  <2> QED BY <1>3, <2>2, <2>3 DEF Stage
<1>4. CASE SubmitArrives(c)
  <2>1. calls[c] # None /\ calls[c] \in Requests /\ calls[c].plan \in 1..issued
    BY <1>4 DEF SubmitArrives, At, BlueprintTypeOK, CallsAreSound, CallIsSound
  <2>2. CASE Answer(c, Refusal) /\ UNCHANGED jobs
    <3>1. calls' \in [Call -> Requests \cup {None}]  BY <2>1, <2>2, AnswerFacts
    <3> QED BY <1>4, <2>2, <3>1 DEF SubmitArrives, BlueprintTypeOK
  <2> DEFINE r == NewJob(calls[c].plan, calls[c].obs)
             res == [Refusal EXCEPT !.type = "job", !.plan = Len(jobs')]
  <2>3. CASE jobs' = Append(jobs, r) /\ Answer(c, res)
    <3>1. r \in ApplyJob  BY <2>1 DEF NewJob, ApplyJob, Requests, BlueprintTypeOK
    <3> HIDE DEF r
    <3>2. jobs' \in Seq(ApplyJob) /\ DOMAIN jobs \subseteq DOMAIN jobs' /\ Len(jobs') \in Nat
      BY <2>3, <3>1, JobAdd
    <3>3. res \in Answered  BY <3>2 DEF Refusal, Answered
    <3> HIDE DEF res
    <3>4. calls' \in [Call -> Requests \cup {None}]  BY <2>1, <2>3, <3>3, AnswerFacts
    <3> QED BY <1>4, <3>2, <3>4 DEF SubmitArrives, BlueprintTypeOK
  <2> QED BY <1>4, <2>2, <2>3 DEF SubmitArrives
<1> QED BY <1>1, <1>2, <1>3, <1>4


-----------------------------------------------------------------------------
(* The application: it ends, with an honest record, or it goes on.           *)

Recorded(status, out) == [jobs[work.job] EXCEPT !.status = status, !.outcome = out]

Ends ==
  \E status \in Finished, out \in Outcome \cup {None} :
    /\ Settle(status, out)
    /\ out # None => /\ status \in {"succeeded", "failed"}
                     /\ Honest(work.job, Recorded(status, out), spaces'[jobs[work.job].name])

Advances == UNCHANGED jobs /\ work' \in Working /\ WorkIsTold'

OwnSpaceOnly ==
  /\ spaces' \in [Name -> Held \cup {None}]
  /\ \A n \in Name : spaces'[n] # spaces[n] =>
       /\ spaces'[n] \in Held /\ spaces'[n].by = work.job /\ n = jobs[work.job].name
       /\ spaces[n] = None \/ spaces[n].by = work.job

WorkOK == JobsAreRecorded /\ WorkIsTold /\ OutcomeIsHonest

\* What the invariants say of a job besides its outcome.
JobsKept ==
  /\ DOMAIN jobs' = DOMAIN jobs
  /\ \A j \in DOMAIN jobs : jobs'[j].plan = jobs[j].plan /\ jobs'[j].name = jobs[j].name

\* A record is honest whatever another job does to its own space.
LEMMA HonestOfOthers ==
  ASSUME NEW i \in DOMAIN jobs, i # work.job, NEW job, NEW s, NEW t, Honest(i, job, s),
         s # t => t # None /\ t.by = work.job /\ (s = None \/ s.by = work.job)
  PROVE  Honest(i, job, t)
  BY DEF Honest

LEMMA EndsKeeps ==
  ASSUME BlueprintTypeOK, WorkOK, work.pc # "idle", Ends, OwnSpaceOnly
  PROVE  /\ jobs' \in Seq(ApplyJob) /\ work' \in Working /\ JobsKept
         /\ WorkOK'
<1> PICK status \in Finished, out \in Outcome \cup {None} :
      /\ Settle(status, out)
      /\ out # None => /\ status \in {"succeeded", "failed"}
                       /\ Honest(work.job, Recorded(status, out), spaces'[jobs[work.job].name])
  BY DEF Ends
<1> DEFINE w == work.job
<1>1. w \in DOMAIN jobs /\ jobs[w] \in ApplyJob  BY JobFacts DEF WorkOK, WorkIsTold
<1>2. /\ jobs' \in Seq(ApplyJob) /\ DOMAIN jobs' = DOMAIN jobs /\ work' = Idle
      /\ jobs'[w] = Recorded(status, out)
      /\ \A i \in DOMAIN jobs \ {w} : jobs'[i] = jobs[i]
  BY <1>1, SettleFacts DEF Recorded
<1>3. /\ Recorded(status, out).status = status /\ Recorded(status, out).outcome = out
      /\ Recorded(status, out).name = jobs[w].name
      /\ Recorded(status, out).plan = jobs[w].plan
  BY <1>1 DEF Recorded, ApplyJob
<1>4. JobsKept  BY <1>2, <1>3 DEF JobsKept
<1>5. JobsAreRecorded'
  <2>1. ASSUME NEW j \in DOMAIN jobs
        PROVE  /\ jobs'[j].status = "queued" => jobs'[j].name = None
               /\ jobs'[j].outcome # None => jobs'[j].status \in {"succeeded", "failed"}
    BY <1>2, <1>3 DEF WorkOK, JobsAreRecorded, Finished
  <2>2. ASSUME NEW n \in Name, spaces'[n] # None
        PROVE  spaces'[n].by \in DOMAIN jobs /\ jobs'[spaces'[n].by].name = n
    <3>1. CASE spaces'[n] = spaces[n]
      BY <1>4, <2>2, <3>1 DEF WorkOK, JobsAreRecorded, JobsKept
    <3>2. CASE spaces'[n] # spaces[n]
      BY <1>1, <1>2, <1>3, <3>2 DEF OwnSpaceOnly
    <3> QED BY <3>1, <3>2
  <2> QED BY <1>2, <2>1, <2>2 DEF JobsAreRecorded
<1>6. WorkIsTold'  BY <1>2 DEF WorkIsTold, Idle
<1>7. OutcomeIsHonest'
  <2> SUFFICES ASSUME NEW i \in DOMAIN jobs, jobs'[i].outcome # None
               PROVE  Honest(i, jobs'[i], spaces'[jobs'[i].name])
    BY <1>2 DEF OutcomeIsHonest
  <2>1. CASE i = w  BY <1>2, <1>3, <2>1
  <2>2. CASE i # w
    <3>1. jobs'[i] = jobs[i] /\ Honest(i, jobs[i], spaces[jobs[i].name])
      BY <1>2, <2>2 DEF WorkOK, OutcomeIsHonest
    <3>2. CASE jobs[i].name \in Name
      <4>1. None \notin Held  BY BlueprintNone
      <4> QED BY <2>2, <3>1, <3>2, <4>1, HonestOfOthers DEF OwnSpaceOnly
    <3>3. CASE jobs[i].name = None
      <4>1. jobs[i].status # "succeeded"  BY <3>1, <3>3 DEF Honest
      <4> QED BY <3>1, <3>3, <4>1 DEF Honest
    <3> QED BY <3>2, <3>3, JobFacts DEF ApplyJob
  <2> QED BY <2>1, <2>2
<1>8. work' \in Working  BY <1>2, ConstantFacts
<1> QED BY <1>2, <1>4, <1>5, <1>6, <1>7, <1>8 DEF WorkOK

LEMMA AdvancesKeeps ==
  ASSUME BlueprintTypeOK, WorkOK, work.pc # "idle", Advances, OwnSpaceOnly
  PROVE  /\ jobs' \in Seq(ApplyJob) /\ work' \in Working /\ JobsKept
         /\ WorkOK'
<1>1. jobs' = jobs /\ work' \in Working /\ WorkIsTold'  BY DEF Advances
<1>2. work.job \in DOMAIN jobs /\ jobs[work.job].outcome = None /\ jobs[work.job] \in ApplyJob
  BY JobFacts DEF WorkOK, WorkIsTold, JobsAreRecorded
<1>3. JobsAreRecorded'
  <2>1. ASSUME NEW n \in Name, spaces'[n] # None
        PROVE  spaces'[n].by \in DOMAIN jobs /\ jobs[spaces'[n].by].name = n
    BY <1>2, <2>1 DEF OwnSpaceOnly, WorkOK, JobsAreRecorded
  <2> QED BY <1>1, <2>1 DEF WorkOK, JobsAreRecorded
<1>4. OutcomeIsHonest'
  <2> SUFFICES ASSUME NEW i \in DOMAIN jobs, jobs[i].outcome # None
               PROVE  Honest(i, jobs[i], spaces'[jobs[i].name])
    BY <1>1 DEF OutcomeIsHonest
  <2>1. i # work.job /\ Honest(i, jobs[i], spaces[jobs[i].name])
    BY <1>2 DEF WorkOK, OutcomeIsHonest
  <2>2. CASE jobs[i].name \in Name
    <3>1. None \notin Held  BY BlueprintNone
    <3> QED BY <2>1, <2>2, <3>1, HonestOfOthers DEF OwnSpaceOnly
  <2>3. CASE jobs[i].name = None
    BY <2>1, <2>3 DEF Honest
  <2> QED BY <2>2, <2>3, JobFacts DEF ApplyJob
<1>5. jobs' \in Seq(ApplyJob) /\ JobsKept  BY <1>1 DEF BlueprintTypeOK, JobsKept
<1> QED BY <1>1, <1>3, <1>4, <1>5 DEF WorkOK


\* While the space is written: its plan, its space and its record.
LEMMA WritingFacts ==
  ASSUME BlueprintTypeOK, WorkOK, work.pc \in Writing
  PROVE  /\ work \in Working /\ work.k \in 0..Packages /\ work.job \in Nat
         /\ work.job \in DOMAIN jobs /\ jobs[work.job] \in ApplyJob
         /\ jobs[work.job].status = "running"
         /\ work.plan \in Plan /\ Own \in Name /\ Own # None /\ Own = work.plan.name
         /\ jobs[work.job].name = Own /\ jobs[work.job].content = work.plan.content
         /\ work.out \in Outcome /\ Told(work)
         /\ spaces[Own] \in Held /\ Done(work, spaces[Own])
         /\ work.pc # "package" => work.k = Packages
         /\ work.pc \in {"policy", "default"} => work.plan.content \in WithModel
<1>1. work \in Working /\ work.k \in 0..Packages /\ work.job \in Nat /\ work.plan \in Plan \cup {None}
      /\ work.out \in Outcome \cup {None}
  BY DEF BlueprintTypeOK, Working
<1>2. /\ work.job \in DOMAIN jobs /\ work.plan # None /\ jobs[work.job].status = "running"
      /\ jobs[work.job].name = work.plan.name /\ jobs[work.job].content = work.plan.content
      /\ Told(work) /\ Done(work, spaces[work.plan.name])
      /\ work.pc # "package" => work.k = Packages
      /\ work.pc \in {"policy", "default"} => work.plan.content \in WithModel
  BY DEF WorkOK, WorkIsTold, Writing
<1>3. jobs[work.job] \in ApplyJob  BY <1>2, JobFacts
<1>4. work.plan \in Plan /\ work.plan.name \in Name /\ work.plan.content \in Content
  BY <1>1, <1>2 DEF Plan
<1>5. Own \in Name /\ Own = work.plan.name /\ Own # None
  BY <1>4, BlueprintAssumption DEF Own
<1>6. work.out # None /\ spaces[Own] # None  BY <1>2, <1>5 DEF Told, Done
<1>7. spaces[Own] \in Held  BY <1>5, <1>6 DEF BlueprintTypeOK
<1> QED BY <1>1, <1>2, <1>3, <1>4, <1>5, <1>6, <1>7

LEMMA AgreesFacts ==
  ASSUME BlueprintTypeOK, WorkOK, work.pc \in Writing
  PROVE  Agrees(work.out, spaces[Own])
<1> DEFINE out == work.out
           s == spaces[Own]
<1>1. work.k \in 0..Packages /\ Packages \in Nat /\ Told(work) /\ Done(work, s)
  BY WritingFacts, ConstantFacts
<1> HIDE DEF s
<1>2. \A i \in 1..Packages : /\ out.package[i] = "succeeded" => i \in s.installed
                             /\ out.package[i] = "not-run" => i \notin s.installed
  BY <1>1 DEF Told, Done, Mark, Configured, Bound
<1>3. Says(out, "patch", s.patch) /\ Says(out, "settings", s.settings)
  BY <1>1 DEF Says, Told, Done, Mark, Configured, Bound
<1>4. Says(out, "model", s.policy /\ s.default)
  BY <1>1 DEF Says, Told, Done, Mark, Configured, Bound
<1>5. Says(out, "provenance", s.provenance)
  BY <1>1 DEF Says, Told, Done
<1>6. Agrees(out, s)  BY <1>2, <1>3, <1>4, <1>5 DEF Agrees
<1> QED BY <1>6 DEF s

\* A failed record is honest that agrees with the space.
LEMMA FailsHonestly ==
  ASSUME BlueprintTypeOK, WorkOK, work.pc \in Writing,
         NEW out \in Outcome, out.space, Settle("failed", out), NEW s \in Held,
         s.by = work.job, s.content = work.plan.content, Agrees(out, s),
         spaces' = [spaces EXCEPT ![Own] = s]
  PROVE  Ends /\ OwnSpaceOnly
<1>1. /\ Recorded("failed", out).outcome = out /\ Recorded("failed", out).name = Own
      /\ Recorded("failed", out).content = work.plan.content
      /\ Recorded("failed", out).status = "failed"
  BY WritingFacts DEF Recorded, ApplyJob
<1>2. spaces'[Own] = s  BY WritingFacts DEF BlueprintTypeOK
<1>3. Honest(work.job, Recorded("failed", out), s)
  BY <1>1 DEF Honest
<1>4. jobs[work.job].name = Own /\ spaces[Own].by = work.job  BY WritingFacts DEF Done
<1>5. Ends  BY <1>2, <1>3, <1>4 DEF Ends, Finished
<1>6. OwnSpaceOnly
  <2>1. spaces \in [Name -> Held \cup {None}]  BY DEF BlueprintTypeOK
  <2> QED BY <1>2, <1>4, <2>1 DEF OwnSpaceOnly
<1> QED BY <1>5, <1>6

\* The space stays as it is.
LEMMA FailsInPlace ==
  ASSUME BlueprintTypeOK, WorkOK, work.pc \in Writing,
         NEW out \in Outcome, out.space, Settle("failed", out), Agrees(out, spaces[Own]),
         UNCHANGED spaces
  PROVE  Ends /\ OwnSpaceOnly
<1>1. spaces' = [spaces EXCEPT ![Own] = spaces[Own]]
  BY WritingFacts DEF BlueprintTypeOK
<1>2. spaces[Own] \in Held /\ spaces[Own].by = work.job /\ spaces[Own].content = work.plan.content
  BY WritingFacts DEF Done
<1> QED BY <1>1, <1>2, FailsHonestly

\* The application goes on with what it has published and written.
LEMMA GoesOn ==
  ASSUME BlueprintTypeOK, WorkOK, work.pc \in Writing, UNCHANGED jobs,
         work' \in Working, work'.job = work.job, work'.plan = work.plan, work'.pc \in Writing,
         Told(work'), NEW s \in Held, spaces' = [spaces EXCEPT ![Own] = s], Done(work', s),
         work'.pc # "package" => work'.k = Packages,
         work'.pc \in {"policy", "default"} => work.plan.content \in WithModel
  PROVE  Advances /\ OwnSpaceOnly
<1>1. spaces'[Own] = s /\ Own = work.plan.name /\ Own \in Name
  BY WritingFacts DEF BlueprintTypeOK
<1>2. work'.pc \notin {"look", "observe", "check", "create", "idle"}  BY DEF Writing
<1>3. Done(work', spaces'[work'.plan.name])  BY <1>1
<1>4. /\ work'.plan # None /\ jobs'[work'.job].name = work'.plan.name
      /\ jobs'[work'.job].content = work'.plan.content
      /\ work'.job \in DOMAIN jobs' /\ jobs'[work'.job].status = "running"
  BY WritingFacts DEF WorkOK, WorkIsTold, Writing
<1>5. WorkIsTold'
  <2> HIDE DEF Told, Done
  <2> QED BY <1>2, <1>3, <1>4 DEF WorkIsTold
<1>6. s.by = work.job  BY DEF Done
<1>7. jobs[work.job].name = Own /\ spaces[Own].by = work.job  BY WritingFacts DEF Done
<1>8. OwnSpaceOnly
  <2>1. spaces \in [Name -> Held \cup {None}]  BY DEF BlueprintTypeOK
  <2> QED BY <1>1, <1>6, <1>7, <2>1 DEF OwnSpaceOnly
<1> QED BY <1>5, <1>8 DEF Advances

LEMMA InstallSteps ==
  ASSUME BlueprintTypeOK, WorkOK, InstallPackage
  PROVE  (Ends \/ Advances) /\ OwnSpaceOnly
<1> DEFINE was == work.out
           held == spaces[Own]
<1>1. work.pc = "package" /\ work.pc \in Writing /\ work.k < Packages
  BY DEF InstallPackage, Writing
<1>2. /\ work \in Working /\ work.k \in 0..Packages /\ was \in Outcome /\ Told(work)
      /\ held \in Held /\ Done(work, held) /\ Agrees(was, held)
  BY <1>1, WritingFacts, AgreesFacts
<1>3. Turn \in 1..Packages /\ Turn = work.k + 1 /\ Packages \in Nat
  BY <1>1, <1>2, ConstantFacts DEF Turn
<1>4. held.by = work.job /\ held.content = work.plan.content /\ was.space
  BY <1>2 DEF Done, Told
<1> DEFINE out == [[was EXCEPT !.package[Turn] = "failed"] EXCEPT !.packages = "failed"]
           s == [held EXCEPT !.installed = held.installed \cup {Turn}]
<1>5. /\ out \in Outcome /\ out.space
      /\ \A i \in 1..Packages : out.package[i] = IF i = Turn THEN "failed" ELSE was.package[i]
      /\ out.patch = was.patch /\ out.settings = was.settings /\ out.model = was.model
      /\ out.provenance = was.provenance
  BY <1>2, <1>3, <1>4 DEF Outcome, Step
<1>6. /\ s \in Held /\ s.by = work.job /\ s.content = work.plan.content
      /\ s.installed = held.installed \cup {Turn}
      /\ s.patch = held.patch /\ s.settings = held.settings /\ s.policy = held.policy
      /\ s.default = held.default /\ s.provenance = held.provenance
  BY <1>2, <1>3, <1>4 DEF Held
<1>7. Agrees(out, held)
  <2> HIDE DEF out, was, held
  <2> QED BY <1>2, <1>5 DEF Agrees, Says
<1>8. Agrees(out, s)
  <2> HIDE DEF out, was, held, s
  <2> QED BY <1>2, <1>5, <1>6 DEF Agrees, Says
<1>9. CASE FailPackages(WithPackage("failed")) /\ UNCHANGED spaces
  <2>1. Settle("failed", out)
    BY <1>9 DEF FailPackages, FailWith, WithPackage
  <2> HIDE DEF out
  <2> QED BY <1>1, <1>5, <1>7, <1>9, <2>1, FailsInPlace
<1>10. CASE Become([spaces[Own] EXCEPT !.installed = @ \cup {Turn}])
            /\ FailPackages(WithPackage("failed"))
  <2>1. Settle("failed", out)
    BY <1>10 DEF FailPackages, FailWith, WithPackage
  <2>2. spaces' = [spaces EXCEPT ![Own] = s]  BY <1>10 DEF Become
  <2> HIDE DEF out, s
  <2> QED BY <1>1, <1>5, <1>6, <1>8, <2>1, <2>2, FailsHonestly
<1>11. CASE /\ Become([spaces[Own] EXCEPT !.installed = @ \cup {Turn}])
            /\ work' = [work EXCEPT !.k = Turn, !.out = WithPackage("succeeded")]
            /\ UNCHANGED jobs
  <2> DEFINE now == [was EXCEPT !.package[Turn] = "succeeded"]
  <2>1. /\ now \in Outcome /\ now.space /\ now.create = was.create /\ now.packages = was.packages
        /\ now.presets = was.presets /\ now.patch = was.patch /\ now.settings = was.settings
        /\ now.model = was.model /\ now.provenance = was.provenance
        /\ \A i \in 1..Packages : now.package[i] = IF i = Turn THEN "succeeded" ELSE was.package[i]
    BY <1>2, <1>3, <1>4 DEF Outcome, Step
  <2>2. WithPackage("succeeded") = now  BY DEF WithPackage
  <2> HIDE DEF now
  <2>3. /\ work'.pc = "package" /\ work'.k = Turn /\ work'.job = work.job
        /\ work'.plan = work.plan /\ work'.out = now /\ work' \in Working
    <3>1. work' = [work EXCEPT !.k = Turn, !.out = now]  BY <1>11, <2>2
    <3>2. Turn \in 0..Packages /\ now \in Outcome \cup {None}  BY <1>3, <2>1
    <3> QED BY <1>1, <1>2, <3>1, <3>2 DEF Working
  <2>4. \A i \in 1..Packages : i <= Turn <=> i <= work.k \/ i = Turn
    BY <1>2, <1>3
  <2>5. Told(work')
    <3> HIDE DEF was
    <3>1. \A i \in 1..Packages : now.package[i] = Mark(i <= Turn)
      BY <1>2, <2>1, <2>4 DEF Told, Mark, was
    <3>2. now # None  BY <2>1, BlueprintNone
    <3> QED BY <1>1, <1>2, <2>1, <2>3, <3>1, <3>2 DEF Told, Mark, Configured, Bound, was
  <2>6. Done(work', s)
    <3>1. 1..Turn = 1..work.k \cup {Turn}  BY <1>2, <1>3
    <3>2. s # None  BY <1>6, BlueprintNone
    <3> HIDE DEF s, held
    <3> QED BY <1>1, <1>2, <1>6, <2>3, <3>1, <3>2 DEF Done, Configured, Bound
  <2>7. spaces' = [spaces EXCEPT ![Own] = s]  BY <1>11 DEF Become
  <2>8. "package" \in Writing  BY DEF Writing
  <2> HIDE DEF s
  <2> QED BY <1>1, <1>6, <1>11, <2>3, <2>5, <2>6, <2>7, <2>8, GoesOn
<1> QED BY <1>9, <1>10, <1>11 DEF InstallPackage

LEMMA ComposeSteps ==
  ASSUME BlueprintTypeOK, WorkOK, Compose
  PROVE  (Ends \/ Advances) /\ OwnSpaceOnly
<1> DEFINE was == work.out
           held == spaces[Own]
<1>1. work.pc = "package" /\ work.pc \in Writing /\ work.k = Packages /\ UNCHANGED spaces
  BY DEF Compose, Writing
<1>2. /\ work \in Working /\ was \in Outcome /\ Told(work)
      /\ held \in Held /\ Done(work, held) /\ Agrees(was, held)
  BY <1>1, WritingFacts, AgreesFacts
<1> DEFINE failed == [was EXCEPT !.packages = "failed"]
           out == [was EXCEPT !.packages = "succeeded"]
<1>3. /\ failed \in Outcome /\ failed.space /\ out \in Outcome /\ out.space
      /\ Agrees(failed, held) /\ Agrees(out, held)
  <2>1. was.space  BY <1>2 DEF Told
  <2>2. failed \in Outcome /\ failed.space /\ out \in Outcome /\ out.space
    BY <1>2, <2>1 DEF Outcome, Step
  <2>3. Agrees(failed, held) /\ Agrees(out, held)
    BY <1>2 DEF Agrees, Says, Outcome
  <2> QED BY <2>2, <2>3
<1>4. CASE FailPackages(work.out)
  <2>1. Settle("failed", failed)  BY <1>4 DEF FailPackages, FailWith
  <2> HIDE DEF failed
  <2> QED BY <1>1, <1>3, <2>1, FailsInPlace
<1>5. CASE Settle("failed", out)
  <2> HIDE DEF out
  <2> QED BY <1>1, <1>3, <1>5, FailsInPlace
<1>6. CASE Advance("presets", out) /\ UNCHANGED jobs
  <2>1. /\ work'.pc = "presets" /\ work'.k = work.k /\ work'.job = work.job
        /\ work'.plan = work.plan /\ work'.out = out /\ work' \in Working
    BY <1>2, <1>3, <1>6 DEF Advance, Working, Writing
  <2>2. Told(work')
    <3>1. out # None  BY <1>3, BlueprintNone
    <3> QED BY <1>1, <1>2, <1>3, <2>1, <3>1 DEF Told, Configured, Bound, Mark, Outcome
  <2>3. Done(work', held)  BY <1>1, <1>2, <2>1 DEF Done, Configured, Bound
  <2>4. spaces' = [spaces EXCEPT ![Own] = held]
    BY <1>1, WritingFacts DEF BlueprintTypeOK
  <2>5. "presets" \in Writing  BY DEF Writing
  <2> HIDE DEF out, held
  <2> QED BY <1>1, <1>2, <1>6, <2>1, <2>2, <2>3, <2>4, <2>5, GoesOn
<1> QED BY <1>4, <1>5, <1>6 DEF Compose, Enter

LEMMA PresetsSteps ==
  ASSUME BlueprintTypeOK, WorkOK, WritePresets
  PROVE  (Ends \/ Advances) /\ OwnSpaceOnly
<1> DEFINE was == work.out
           held == spaces[Own]
           patched == [was EXCEPT !.patch = "succeeded"]
           both == [patched EXCEPT !.settings = "succeeded"]
           out1 == [[was EXCEPT !.patch = "failed"] EXCEPT !.presets = "failed"]
           out2 == [[patched EXCEPT !.settings = "failed"] EXCEPT !.presets = "failed"]
           s2 == [held EXCEPT !.patch = TRUE]
           s3 == [held EXCEPT !.patch = TRUE, !.settings = TRUE]
           next == IF work.plan.content \in WithModel THEN "policy" ELSE "provenance"
<1>1. work.pc = "presets" /\ work.pc \in Writing
  BY DEF WritePresets, Writing
<1>2. /\ work \in Working /\ was \in Outcome /\ Told(work) /\ work.k = Packages
      /\ held \in Held /\ Done(work, held) /\ Agrees(was, held)
  BY <1>1, WritingFacts, AgreesFacts
<1>3. held.by = work.job /\ held.content = work.plan.content /\ was.space
  BY <1>2 DEF Done, Told
<1>4. /\ s2 \in Held /\ s2.by = work.job /\ s2.content = work.plan.content
      /\ s3 \in Held /\ s3.by = work.job /\ s3.content = work.plan.content
  BY <1>2, <1>3 DEF Held
<1>5. out1 \in Outcome /\ out1.space /\ out2 \in Outcome /\ out2.space /\ both \in Outcome
  BY <1>2, <1>3 DEF Outcome, Step
<1>6. Agrees(out1, held) /\ Agrees(out2, s2)
  BY <1>2 DEF Agrees, Says, Outcome, Held
<1>7. CASE FailPresets([was EXCEPT !.patch = "failed"]) /\ UNCHANGED spaces
  <2>1. Settle("failed", out1)  BY <1>7 DEF FailPresets, FailWith
  <2> HIDE DEF out1
  <2> QED BY <1>1, <1>5, <1>6, <1>7, <2>1, FailsInPlace
<1>8. CASE FailPresets([patched EXCEPT !.settings = "failed"])
           /\ Become([spaces[Own] EXCEPT !.patch = TRUE])
  <2>1. Settle("failed", out2)  BY <1>8 DEF FailPresets, FailWith
  <2>2. spaces' = [spaces EXCEPT ![Own] = s2]  BY <1>8 DEF Become
  <2> HIDE DEF out2, s2
  <2> QED BY <1>1, <1>4, <1>5, <1>6, <2>1, <2>2, FailsHonestly
<1>9. CASE /\ Advance(next, both)
           /\ Become([spaces[Own] EXCEPT !.patch = TRUE, !.settings = TRUE])
           /\ UNCHANGED jobs
  <2>1. next \in {"policy", "provenance"} /\ next \in Writing
        /\ (next = "policy" <=> work.plan.content \in WithModel)
    BY DEF Writing
  <2> HIDE DEF next
  <2>2. /\ work'.pc = next /\ work'.k = work.k /\ work'.job = work.job
        /\ work'.plan = work.plan /\ work'.out = both /\ work' \in Working
    BY <1>2, <1>5, <1>9, <2>1 DEF Advance, Working
  <2>3. Configured(work') /\ ~Bound(work') /\ ~Configured(work) /\ ~Bound(work)
    BY <1>1, <2>1, <2>2 DEF Configured, Bound
  <2>4. Told(work')
    <3>1. both # None  BY <1>5, BlueprintNone
    <3> QED BY <1>1, <1>2, <2>1, <2>2, <2>3, <3>1 DEF Told, Mark, Outcome
  <2>5. Done(work', s3)
    <3>1. s3 # None  BY <1>4, BlueprintNone
    <3> QED BY <1>1, <1>2, <2>1, <2>2, <2>3, <3>1 DEF Done, Held
  <2>6. spaces' = [spaces EXCEPT ![Own] = s3]  BY <1>9 DEF Become
  <2> HIDE DEF both, s3
  <2> QED BY <1>1, <1>2, <1>4, <1>9, <2>1, <2>2, <2>4, <2>5, <2>6, GoesOn
<1> QED BY <1>7, <1>8, <1>9 DEF WritePresets

LEMMA PolicySteps ==
  ASSUME BlueprintTypeOK, WorkOK, BindPolicy
  PROVE  (Ends \/ Advances) /\ OwnSpaceOnly
<1> DEFINE was == work.out
           held == spaces[Own]
           failed == [[was EXCEPT !.model = "failed"] EXCEPT !.presets = "failed"]
           s == [held EXCEPT !.policy = TRUE]
<1>1. work.pc = "policy" /\ work.pc \in Writing
  BY DEF BindPolicy, Writing
<1>2. /\ work \in Working /\ was \in Outcome /\ Told(work) /\ work.k = Packages
      /\ held \in Held /\ Done(work, held) /\ Agrees(was, held)
      /\ work.plan.content \in WithModel
  BY <1>1, WritingFacts, AgreesFacts
<1>3. held.by = work.job /\ held.content = work.plan.content /\ was.space
  BY <1>2 DEF Done, Told
<1>4. s \in Held /\ s.by = work.job /\ s.content = work.plan.content
  BY <1>2, <1>3 DEF Held
<1>5. failed \in Outcome /\ failed.space  BY <1>2, <1>3 DEF Outcome, Step
<1>6. Agrees(failed, held)  BY <1>2 DEF Agrees, Says, Outcome
<1>7. CASE FailPresets([was EXCEPT !.model = "failed"]) /\ UNCHANGED spaces
  <2>1. Settle("failed", failed)  BY <1>7 DEF FailPresets, FailWith
  <2> HIDE DEF failed
  <2> QED BY <1>1, <1>5, <1>6, <1>7, <2>1, FailsInPlace
<1>8. CASE /\ Become([spaces[Own] EXCEPT !.policy = TRUE])
           /\ work' = [work EXCEPT !.pc = "default"]
           /\ UNCHANGED jobs
  <2>1. /\ work'.pc = "default" /\ work'.k = work.k /\ work'.job = work.job
        /\ work'.plan = work.plan /\ work'.out = was /\ work' \in Working
    BY <1>2, <1>8 DEF Working, Writing
  <2>2. Told(work')  BY <1>1, <1>2, <2>1 DEF Told, Configured, Bound
  <2>3. Done(work', s)
    <3>1. s # None  BY <1>4, BlueprintNone
    <3> QED BY <1>1, <1>2, <2>1, <3>1 DEF Done, Held, Configured, Bound
  <2>4. spaces' = [spaces EXCEPT ![Own] = s]  BY <1>8 DEF Become
  <2>5. "default" \in Writing  BY DEF Writing
  <2> HIDE DEF s
  <2> QED BY <1>1, <1>2, <1>4, <1>8, <2>1, <2>2, <2>3, <2>4, <2>5, GoesOn
<1> QED BY <1>7, <1>8 DEF BindPolicy

LEMMA DefaultSteps ==
  ASSUME BlueprintTypeOK, WorkOK, BindDefault
  PROVE  (Ends \/ Advances) /\ OwnSpaceOnly
<1> DEFINE was == work.out
           held == spaces[Own]
           failed == [[was EXCEPT !.model = "failed"] EXCEPT !.presets = "failed"]
           out == [was EXCEPT !.model = "succeeded"]
           s == [held EXCEPT !.default = TRUE]
<1>1. work.pc = "default" /\ work.pc \in Writing
  BY DEF BindDefault, Writing
<1>2. /\ work \in Working /\ was \in Outcome /\ Told(work) /\ work.k = Packages
      /\ held \in Held /\ Done(work, held) /\ Agrees(was, held)
      /\ work.plan.content \in WithModel
  BY <1>1, WritingFacts, AgreesFacts
<1>3. held.by = work.job /\ held.content = work.plan.content /\ was.space
  BY <1>2 DEF Done, Told
<1>4. s \in Held /\ s.by = work.job /\ s.content = work.plan.content
  BY <1>2, <1>3 DEF Held
<1>5. failed \in Outcome /\ failed.space /\ out \in Outcome
  BY <1>2, <1>3 DEF Outcome, Step
<1>6. Agrees(failed, held)  BY <1>2 DEF Agrees, Says, Outcome
<1>7. CASE FailPresets([was EXCEPT !.model = "failed"]) /\ UNCHANGED spaces
  <2>1. Settle("failed", failed)  BY <1>7 DEF FailPresets, FailWith
  <2> HIDE DEF failed
  <2> QED BY <1>1, <1>5, <1>6, <1>7, <2>1, FailsInPlace
<1>8. CASE /\ Become([spaces[Own] EXCEPT !.default = TRUE])
           /\ Advance("provenance", out)
           /\ UNCHANGED jobs
  <2>1. /\ work'.pc = "provenance" /\ work'.k = work.k /\ work'.job = work.job
        /\ work'.plan = work.plan /\ work'.out = out /\ work' \in Working
    BY <1>2, <1>5, <1>8 DEF Advance, Working, Writing
  <2>2. Configured(work) /\ ~Bound(work) /\ Configured(work') /\ Bound(work')
    BY <1>1, <1>2, <2>1 DEF Configured, Bound
  <2>3. Told(work')
    <3>1. out # None  BY <1>5, BlueprintNone
    <3> QED BY <1>1, <1>2, <2>1, <2>2, <3>1 DEF Told, Mark, Outcome
  <2>4. Done(work', s)
    <3>1. s # None  BY <1>4, BlueprintNone
    <3> QED BY <1>1, <1>2, <2>1, <2>2, <3>1 DEF Done, Held
  <2>5. spaces' = [spaces EXCEPT ![Own] = s]  BY <1>8 DEF Become
  <2>6. "provenance" \in Writing  BY DEF Writing
  <2> HIDE DEF s, out
  <2> QED BY <1>1, <1>2, <1>4, <1>8, <2>1, <2>3, <2>4, <2>5, <2>6, GoesOn
<1> QED BY <1>7, <1>8 DEF BindDefault

\* The record of where the space comes from is the last word: a success is whole.
LEMMA ProvenanceSteps ==
  ASSUME BlueprintTypeOK, WorkOK, WriteProvenance
  PROVE  (Ends \/ Advances) /\ OwnSpaceOnly
<1> DEFINE was == work.out
           held == spaces[Own]
           out1 == [was EXCEPT !.presets = "failed"]
           out2 == [[was EXCEPT !.provenance = "failed"] EXCEPT !.presets = "failed"]
           told == [was EXCEPT !.provenance = "succeeded"]
           out3 == [told EXCEPT !.presets = "failed"]
           out == [told EXCEPT !.presets = "succeeded"]
           s == [held EXCEPT !.provenance = TRUE]
<1>1. work.pc = "provenance" /\ work.pc \in Writing
  BY DEF WriteProvenance, Writing
<1>2. /\ work \in Working /\ was \in Outcome /\ Told(work) /\ work.k = Packages
      /\ held \in Held /\ Done(work, held) /\ Agrees(was, held)
  BY <1>1, WritingFacts, AgreesFacts
<1>3. held.by = work.job /\ held.content = work.plan.content /\ was.space
  BY <1>2 DEF Done, Told
<1>4. s \in Held /\ s.by = work.job /\ s.content = work.plan.content
  BY <1>2, <1>3 DEF Held
<1>5. /\ out1 \in Outcome /\ out1.space /\ out2 \in Outcome /\ out2.space
      /\ out3 \in Outcome /\ out3.space /\ out \in Outcome /\ out.space
  BY <1>2, <1>3 DEF Outcome, Step
<1>6. Agrees(out1, held) /\ Agrees(out2, held)  BY <1>2 DEF Agrees, Says, Outcome
<1>7. Agrees(out3, s) /\ Agrees(out, s)  BY <1>2 DEF Agrees, Says, Outcome, Held
<1>8. CASE FailPresets(was) /\ UNCHANGED spaces
  <2>1. Settle("failed", out1)  BY <1>8 DEF FailPresets, FailWith
  <2> HIDE DEF out1
  <2> QED BY <1>1, <1>5, <1>6, <1>8, <2>1, FailsInPlace
<1>9. CASE FailPresets([was EXCEPT !.provenance = "failed"]) /\ UNCHANGED spaces
  <2>1. Settle("failed", out2)  BY <1>9 DEF FailPresets, FailWith
  <2> HIDE DEF out2
  <2> QED BY <1>1, <1>5, <1>6, <1>9, <2>1, FailsInPlace
<1>10. CASE Become([spaces[Own] EXCEPT !.provenance = TRUE]) /\ FailPresets(told)
  <2>1. Settle("failed", out3)  BY <1>10 DEF FailPresets, FailWith
  <2>2. spaces' = [spaces EXCEPT ![Own] = s]  BY <1>10 DEF Become
  <2> HIDE DEF out3, s
  <2> QED BY <1>1, <1>4, <1>5, <1>7, <2>1, <2>2, FailsHonestly
<1>11. CASE Become([spaces[Own] EXCEPT !.provenance = TRUE]) /\ Settle("succeeded", out)
  <2>1. spaces' = [spaces EXCEPT ![Own] = s]  BY <1>11 DEF Become
  <2>2. jobs[work.job] \in ApplyJob /\ jobs[work.job].name = Own /\ Own \in Name /\ Own # None
        /\ jobs[work.job].content = work.plan.content
    BY <1>1, WritingFacts
  <2>3. spaces'[Own] = s  BY <2>1, <2>2 DEF BlueprintTypeOK
  <2>4. /\ Recorded("succeeded", out).outcome = out /\ Recorded("succeeded", out).name = Own
        /\ Recorded("succeeded", out).content = work.plan.content
        /\ Recorded("succeeded", out).status = "succeeded"
    BY <2>2 DEF Recorded, ApplyJob
  <2>5. out.create = "succeeded" /\ out.packages = "succeeded" /\ out.presets = "succeeded"
    BY <1>1, <1>2 DEF Told, Mark, Outcome
  <2>6. Configured(work) /\ (Bound(work) <=> work.plan.content \in WithModel)
    BY <1>1 DEF Configured, Bound
  <2>7. /\ s # None /\ s.installed = 1..Packages /\ s.patch /\ s.settings /\ s.provenance
        /\ s.policy <=> work.plan.content \in WithModel
        /\ s.default <=> work.plan.content \in WithModel
    <3>1. s # None  BY <1>4, BlueprintNone
    <3> QED BY <1>1, <1>2, <2>6, <3>1 DEF Done, Held
  <2>8. s.policy \in BOOLEAN /\ s.default \in BOOLEAN  BY <1>4 DEF Held
  <2>9. s.policy = (s.content \in WithModel) /\ s.default = s.policy
    BY <1>4, <2>7, <2>8
  <2> HIDE DEF s, out
  <2>10. Honest(work.job, Recorded("succeeded", out), s)
    BY <1>4, <1>5, <1>7, <2>2, <2>4, <2>5, <2>7, <2>9 DEF Honest
  <2>11. Ends  BY <1>5, <1>11, <2>2, <2>3, <2>10 DEF Ends, Finished
  <2>12. OwnSpaceOnly
    <3>1. spaces \in [Name -> Held \cup {None}]  BY DEF BlueprintTypeOK
    <3> QED BY <1>3, <1>4, <2>1, <2>2, <2>3, <3>1 DEF OwnSpaceOnly
  <2> QED BY <2>11, <2>12
<1> QED BY <1>8, <1>9, <1>10, <1>11 DEF WriteProvenance

LEMMA EarlyFacts ==
  ASSUME BlueprintTypeOK, WorkOK, work.pc \in {"look", "observe", "check", "create"}
  PROVE  /\ work \in Working /\ work.out = EmptyOutcome /\ work.k = 0
         /\ work.job \in DOMAIN jobs /\ jobs[work.job] \in ApplyJob
         /\ jobs[work.job].status = "running"
         /\ \A n \in Name : spaces[n] # None => spaces[n].by # work.job
         /\ work.pc \notin {"look", "observe"} =>
              /\ work.plan \in Plan /\ Own \in Name /\ Own = work.plan.name
              /\ jobs[work.job].name = Own /\ jobs[work.job].content = work.plan.content
              /\ work.plan.obs.rev = work.rev /\ AsPreviewed(work.plan.obs)
<1>1. work \in Working /\ work.plan \in Plan \cup {None}  BY DEF BlueprintTypeOK, Working
<1>2. /\ work.job \in DOMAIN jobs /\ jobs[work.job].status = "running"
      /\ work.out = EmptyOutcome /\ work.k = 0
      /\ \A n \in Name : spaces[n] # None => spaces[n].by # work.job
      /\ work.pc \notin {"look", "observe"} =>
           /\ work.plan # None
           /\ jobs[work.job].name = work.plan.name /\ jobs[work.job].content = work.plan.content
           /\ work.plan.obs.rev = work.rev /\ AsPreviewed(work.plan.obs)
  BY DEF WorkOK, WorkIsTold
<1>3. jobs[work.job] \in ApplyJob  BY <1>2, JobFacts
<1>4. work.pc \notin {"look", "observe"} => work.plan \in Plan  BY <1>1, <1>2
<1>5. work.pc \notin {"look", "observe"} => Own \in Name /\ Own = work.plan.name
  BY <1>4 DEF Own, Plan
<1> QED BY <1>1, <1>2, <1>3, <1>4, <1>5

\* Nothing is claimed before the space is there.
LEMMA FailsEarly ==
  ASSUME BlueprintTypeOK, WorkOK, work.pc \in {"look", "observe", "check", "create"},
         NEW out \in Outcome \cup {None}, Settle("failed", out), UNCHANGED spaces
  PROVE  Ends /\ OwnSpaceOnly
<1>1. /\ jobs[work.job] \in ApplyJob
      /\ \A n \in Name : spaces[n] # None => spaces[n].by # work.job
  BY EarlyFacts
<1>2. /\ Recorded("failed", out).name = jobs[work.job].name
      /\ Recorded("failed", out).status = "failed"
  BY <1>1 DEF Recorded, ApplyJob
<1>3. jobs[work.job].name \in Name \cup {None}  BY <1>1 DEF ApplyJob
<1>4. Honest(work.job, Recorded("failed", out), spaces[jobs[work.job].name])
  BY <1>1, <1>2, <1>3 DEF Honest
<1>5. Ends  BY <1>4 DEF Ends, Finished
<1>6. OwnSpaceOnly  BY DEF OwnSpaceOnly, BlueprintTypeOK
<1> QED BY <1>5, <1>6

\* The revision is looked at.
LEMMA LookSteps ==
  ASSUME BlueprintTypeOK, WorkOK, Look
  PROVE  (Ends \/ Advances) /\ OwnSpaceOnly
<1>1. work.pc = "look" /\ UNCHANGED <<home, spaces, serviceEpoch>>  BY DEF Look
<1>2. CASE FailCreate(work.out)
  <2> DEFINE out == [work.out EXCEPT !.create = "failed"]
  <2>1. out \in Outcome  BY <1>1, EarlyFacts, ConstantFacts DEF Outcome, Step
  <2>2. Settle("failed", out)  BY <1>2 DEF FailCreate, FailWith
  <2> HIDE DEF out
  <2> QED BY <1>1, <2>1, <2>2, FailsEarly
<1>3. CASE work' = [work EXCEPT !.pc = "observe", !.rev = Revision] /\ UNCHANGED jobs
  <2>1. /\ work'.pc = "observe" /\ work'.k = work.k /\ work'.job = work.job
        /\ work'.out = work.out /\ work'.rev = Revision /\ work' \in Working
    BY <1>1, <1>3, EarlyFacts, RevisionFacts DEF Working
  <2>2. /\ work.out = EmptyOutcome /\ work.k = 0 /\ jobs[work.job].name = None
        /\ work.job \in DOMAIN jobs /\ jobs[work.job].status = "running"
        /\ \A n \in Name : spaces[n] # None => spaces[n].by # work.job
    BY <1>1 DEF WorkOK, WorkIsTold
  <2>3. WorkIsTold'
    <3>1. EmptyOutcome' = EmptyOutcome  BY DEF EmptyOutcome
    <3>2. work'.rev[1] = home'.rev  BY <1>1, <2>1, RevisionFacts
    <3> HIDE DEF EmptyOutcome
    <3> QED BY <1>1, <1>3, <2>1, <2>2, <3>1, <3>2 DEF WorkIsTold, Writing
  <2>4. OwnSpaceOnly  BY <1>1 DEF OwnSpaceOnly, BlueprintTypeOK
  <2> QED BY <1>3, <2>1, <2>3, <2>4 DEF Advances
<1> QED BY <1>2, <1>3 DEF Look

LEMMA CheckSteps ==
  ASSUME BlueprintTypeOK, WorkOK, Check
  PROVE  (Ends \/ Advances) /\ OwnSpaceOnly
<1>1. work.pc = "check" /\ UNCHANGED <<home, spaces, serviceEpoch>>  BY DEF Check
<1>2. CASE FailCreate(work.out)
  <2> DEFINE out == [work.out EXCEPT !.create = "failed"]
  <2>1. out \in Outcome  BY <1>1, EarlyFacts, ConstantFacts DEF Outcome, Step
  <2>2. Settle("failed", out)  BY <1>2 DEF FailCreate, FailWith
  <2> HIDE DEF out
  <2> QED BY <1>1, <2>1, <2>2, FailsEarly
<1>3. CASE Settle("failed", None)  BY <1>1, <1>3, FailsEarly
<1>4. CASE ModelAvailable /\ work' = [work EXCEPT !.pc = "create"] /\ UNCHANGED jobs
  <2>1. /\ work'.pc = "create" /\ work'.k = work.k /\ work'.job = work.job
        /\ work'.plan = work.plan /\ work'.out = work.out /\ work'.rev = work.rev
        /\ work' \in Working
    BY <1>1, <1>4, EarlyFacts DEF Working
  <2>2. ModelAvailable' /\ (AsPreviewed(work.plan.obs)' <=> AsPreviewed(work.plan.obs))
    BY <1>1, <1>4, <2>1 DEF ModelAvailable, AsPreviewed
  <2>3. work.plan.obs.rev = work.rev /\ AsPreviewed(work.plan.obs)
        /\ work.plan # None /\ work.out = EmptyOutcome /\ work.k = 0
        /\ jobs[work.job].name = work.plan.name /\ jobs[work.job].content = work.plan.content
        /\ work.job \in DOMAIN jobs /\ jobs[work.job].status = "running"
        /\ \A n \in Name : spaces[n] # None => spaces[n].by # work.job
    BY <1>1 DEF WorkOK, WorkIsTold
  <2>4. WorkIsTold'
    <3> HIDE DEF ModelAvailable, AsPreviewed, EmptyOutcome
    <3>1. EmptyOutcome' = EmptyOutcome  BY DEF EmptyOutcome
    <3> QED BY <1>1, <1>4, <2>1, <2>2, <2>3, <3>1 DEF WorkIsTold, Writing
  <2>5. OwnSpaceOnly  BY <1>1 DEF OwnSpaceOnly, BlueprintTypeOK
  <2> QED BY <1>4, <2>1, <2>4, <2>5 DEF Advances
<1> QED BY <1>2, <1>3, <1>4 DEF Check

LEMMA CreateSteps ==
  ASSUME BlueprintTypeOK, WorkOK, CreateSpace
  PROVE  (Ends \/ Advances) /\ OwnSpaceOnly
<1> USE ConstantFacts
<1> DEFINE was == work.out
           f == Fresh(work.plan.content)
           failed == [was EXCEPT !.space = TRUE, !.create = "failed"]
<1>1. work.pc = "create"  BY DEF CreateSpace
<1>2. /\ work \in Working /\ was = EmptyOutcome /\ was \in Outcome /\ work.k = 0
      /\ work.job \in DOMAIN jobs /\ jobs[work.job] \in ApplyJob
      /\ jobs[work.job].status = "running"
      /\ work.plan \in Plan /\ Own \in Name /\ Own = work.plan.name
      /\ jobs[work.job].name = Own /\ jobs[work.job].content = work.plan.content
  BY <1>1, EarlyFacts
<1>3. CASE FailCreate([was EXCEPT !.space = spaces[Own] # None]) /\ UNCHANGED spaces
  <2> DEFINE out == [[was EXCEPT !.space = spaces[Own] # None] EXCEPT !.create = "failed"]
  <2>1. out \in Outcome  BY <1>2 DEF Outcome, Step
  <2>2. Settle("failed", out)  BY <1>3 DEF FailCreate, FailWith
  <2> HIDE DEF out
  <2> QED BY <1>1, <1>3, <2>1, <2>2, FailsEarly
<1>4. CASE spaces[Own] = None /\ Become(f)
  <2>1. /\ f \in Held /\ f.by = work.job /\ f.content = work.plan.content /\ f.installed = {}
        /\ ~f.patch /\ ~f.settings /\ ~f.policy /\ ~f.default /\ ~f.provenance
    <3>1. work.job \in Nat /\ work.plan.content \in Content  BY <1>2 DEF Working, Plan
    <3> QED BY <3>1 DEF Fresh, Held
  <2>2. f # None  BY <2>1, BlueprintNone
  <2>3. spaces' = [spaces EXCEPT ![Own] = f]  BY <1>4 DEF Become
  <2> HIDE DEF f
  <2>4. spaces'[Own] = f  BY <1>2, <2>3 DEF BlueprintTypeOK
  <2>5. OwnSpaceOnly
    <3>1. spaces \in [Name -> Held \cup {None}]  BY DEF BlueprintTypeOK
    <3> QED BY <1>2, <1>4, <2>1, <2>3, <2>4, <3>1 DEF OwnSpaceOnly
  <2>6. /\ was.package = [i \in 1..Packages |-> "not-run"] /\ was.patch = "not-run"
        /\ was.settings = "not-run" /\ was.model = "not-run" /\ was.provenance = "not-run"
        /\ was.packages = "not-run" /\ was.presets = "not-run"
    BY <1>2 DEF EmptyOutcome
  <2>7. ASSUME NEW out \in Outcome, out.space, out.package = was.package, out.patch = was.patch,
               out.settings = was.settings, out.model = was.model,
               out.provenance = was.provenance, Settle("failed", out)
        PROVE  Ends
    <3>1. Agrees(out, f)
      <4> HIDE DEF was
      <4> QED BY <2>1, <2>6, <2>7 DEF Agrees, Says
    <3>2. /\ Recorded("failed", out).outcome = out /\ Recorded("failed", out).name = Own
          /\ Recorded("failed", out).content = work.plan.content
          /\ Recorded("failed", out).status = "failed"
      BY <1>2 DEF Recorded, ApplyJob
    <3>3. Honest(work.job, Recorded("failed", out), f)
      BY <2>1, <2>7, <3>1, <3>2 DEF Honest
    <3> QED BY <1>2, <2>4, <2>7, <3>3 DEF Ends, Finished
  <2>8. CASE FailCreate([was EXCEPT !.space = TRUE])
    <3> DEFINE out == [[was EXCEPT !.space = TRUE] EXCEPT !.create = "failed"]
    <3>1. /\ out \in Outcome /\ out.space /\ out.package = was.package /\ out.patch = was.patch
          /\ out.settings = was.settings /\ out.model = was.model
          /\ out.provenance = was.provenance
      BY <1>2 DEF Outcome, Step
    <3>2. Settle("failed", out)  BY <2>8 DEF FailCreate, FailWith
    <3> HIDE DEF out, was
    <3> QED BY <2>5, <2>7, <3>1, <3>2
  <2> DEFINE made == [was EXCEPT !.space = TRUE, !.create = "succeeded"]
  <2>9. /\ made \in Outcome /\ made.space /\ made.package = was.package /\ made.patch = was.patch
        /\ made.settings = was.settings /\ made.model = was.model
        /\ made.provenance = was.provenance /\ made.create = "succeeded"
        /\ made.packages = was.packages /\ made.presets = was.presets
    BY <1>2 DEF Outcome, Step
  <2>10. Created = made  BY DEF Created
  <2> HIDE DEF made
  <2>11. CASE Settle("failed", Created)
    <3> HIDE DEF was
    <3> QED BY <2>5, <2>7, <2>9, <2>10, <2>11
  <2>12. CASE Advance("package", Created) /\ UNCHANGED jobs
    <3>1. work' = [work EXCEPT !.pc = "package", !.out = made]  BY <2>10, <2>12 DEF Advance
    <3>2. /\ work'.pc = "package" /\ work'.k = 0 /\ work'.job = work.job
          /\ work'.plan = work.plan /\ work'.out = made /\ work' \in Working
      BY <1>2, <2>9, <3>1 DEF Working, Writing
    <3>3. ~Configured(work') /\ ~Bound(work')  BY <3>2 DEF Configured, Bound
    <3>4. Told(work')
      <4> HIDE DEF was
      <4>1. made # None  BY <2>9, BlueprintNone
      <4> QED BY <2>6, <2>9, <3>2, <3>3, <4>1 DEF Told, Mark
    <3>5. Done(work', f)  BY <2>1, <2>2, <3>2, <3>3 DEF Done
    <3>6. WorkIsTold'
      <4>1. spaces'[work'.plan.name] = f  BY <1>2, <2>4, <3>2
      <4>2. work'.plan # None  BY <1>2, <3>2, BlueprintNone
      <4> HIDE DEF Told, Done
      <4> QED BY <1>2, <2>12, <3>2, <3>4, <3>5, <4>1, <4>2 DEF WorkIsTold
    <3> QED BY <2>5, <2>12, <3>2, <3>6 DEF Advances
  <2> QED BY <1>4, <2>8, <2>11, <2>12, <1>1, <1>3 DEF CreateSpace, Enter
<1> QED BY <1>3, <1>4 DEF CreateSpace

\* A job begins with nothing to its name.
LEMMA BeginKeeps ==
  ASSUME BlueprintTypeOK, WorkOK, NEW j \in DOMAIN jobs, BeginJob(j)
  PROVE  jobs' \in Seq(ApplyJob) /\ work' \in Working /\ JobsKept /\ WorkOK'
<1>1. /\ work.pc = "idle" /\ jobs[j] \in ApplyJob /\ jobs[j].status = "queued" /\ j \in Nat
      /\ UNCHANGED spaces
  BY JobFacts DEF BeginJob
<1>2. jobs[j].name = None /\ jobs[j].outcome = None
  BY <1>1 DEF WorkOK, JobsAreRecorded
<1>3. PICK status \in {"running", "failed"} :
        /\ jobs' = [jobs EXCEPT ![j].status = status]
        /\ \/ status = "running" /\ work' = [Idle EXCEPT !.pc = "look", !.job = j, !.out = EmptyOutcome]
           \/ status = "failed" /\ work' = work
  BY DEF BeginJob
<1> DEFINE r == [jobs[j] EXCEPT !.status = status]
<1>4. /\ r \in ApplyJob /\ r.status = status /\ r.name = None /\ r.outcome = None
      /\ r.plan = jobs[j].plan
  BY <1>1, <1>2 DEF ApplyJob, Finished
<1>5. jobs' = [jobs EXCEPT ![j] = r]  BY <1>1, <1>3
<1> HIDE DEF r
<1>6. /\ jobs' \in Seq(ApplyJob) /\ DOMAIN jobs' = DOMAIN jobs
      /\ jobs'[j] = r /\ \A i \in DOMAIN jobs \ {j} : jobs'[i] = jobs[i]
  BY <1>4, <1>5, JobSet
<1>7. JobsKept  BY <1>2, <1>4, <1>6 DEF JobsKept
<1>8. JobsAreRecorded'
  BY <1>1, <1>2, <1>4, <1>6 DEF JobsAreRecorded, WorkOK
<1>9. OutcomeIsHonest'
  BY <1>1, <1>2, <1>4, <1>6 DEF OutcomeIsHonest, WorkOK
<1>10. work' \in Working
  BY <1>1, <1>3, ConstantFacts DEF Idle, Working, BlueprintTypeOK
<1>11. WorkIsTold'
  <2>1. CASE work' = work  BY <1>1, <2>1 DEF WorkIsTold
  <2>2. CASE status = "running" /\ work' = [Idle EXCEPT !.pc = "look", !.job = j, !.out = EmptyOutcome]
    <3>1. work'.pc = "look" /\ work'.job = j /\ work'.out = EmptyOutcome /\ work'.k = 0
      BY <2>2 DEF Idle
    <3>2. EmptyOutcome' = EmptyOutcome  BY DEF EmptyOutcome
    <3>3. \A n \in Name : spaces[n] # None => spaces[n].by # j
      BY <1>2, BlueprintAssumption DEF WorkOK, JobsAreRecorded
    <3> HIDE DEF EmptyOutcome
    <3> QED BY <1>1, <1>4, <1>6, <2>2, <3>1, <3>2, <3>3 DEF WorkIsTold, Writing
  <2> QED BY <1>3, <2>1, <2>2
<1> QED BY <1>6, <1>7, <1>8, <1>9, <1>10, <1>11 DEF WorkOK

\* consumePlan: the plan of the job's id is the only one of that id, and is used
\* only if what was observed for it is what the job has observed.
LEMMA ObserveKeeps ==
  ASSUME BlueprintTypeOK, ConsumedOnce, PlansAreIssued, WorkOK, Observe
  PROVE  /\ jobs' \in Seq(ApplyJob) /\ work' \in Working /\ WorkOK' /\ plans' \subseteq plans
         /\ DOMAIN jobs' = DOMAIN jobs
         /\ \A j \in DOMAIN jobs : jobs'[j].plan = jobs[j].plan
         /\ ConsumedOnce' /\ PlansAreIssued'
<1> DEFINE w == work.job
<1>1. work.pc = "observe" /\ UNCHANGED <<spaces, home, serviceEpoch, issued>>  BY DEF Observe
<1>2. /\ work \in Working /\ work.out = EmptyOutcome /\ work.k = 0
      /\ w \in DOMAIN jobs /\ jobs[w] \in ApplyJob /\ jobs[w].status = "running"
      /\ \A n \in Name : spaces[n] # None => spaces[n].by # w
  BY <1>1, EarlyFacts
<1>3. jobs[w].name = None /\ jobs[w].outcome = None
  BY <1>1, <1>2 DEF WorkOK, WorkIsTold, JobsAreRecorded
<1>4. plans' \subseteq plans  BY DEF Observe, Live
<1>5. CASE FailCreate(work.out)
  <2> DEFINE out == [work.out EXCEPT !.create = "failed"]
  <2>1. out \in Outcome  BY <1>2, ConstantFacts DEF Outcome, Step
  <2>2. Settle("failed", out)  BY <1>5 DEF FailCreate, FailWith
  <2> HIDE DEF out
  <2>3. Ends /\ OwnSpaceOnly  BY <1>1, <2>1, <2>2, FailsEarly
  <2>4. jobs' \in Seq(ApplyJob) /\ work' \in Working /\ JobsKept /\ WorkOK'
    BY <1>1, <2>3, EndsKeeps
  <2>5. ConsumedOnce'
    BY <1>4, <2>4 DEF ConsumedOnce, JobsKept
  <2>6. PlansAreIssued'  BY <1>1, <1>4, <2>4 DEF PlansAreIssued, JobsKept
  <2> QED BY <1>4, <2>4, <2>5, <2>6 DEF JobsKept
<1> DEFINE mine == {p \in Live(plans) : p.id = jobs[w].plan}
<1>6. CASE ~FailCreate(work.out)
  <2>1. /\ plans' = Live(plans) \ mine /\ \E p \in mine : Consumable(p)
        /\ work' = [work EXCEPT !.pc = "check", !.plan = CHOOSE p \in mine : TRUE]
        /\ jobs' = [jobs EXCEPT ![w].name = (CHOOSE p \in mine : TRUE).name,
                                ![w].content = (CHOOSE p \in mine : TRUE).content]
    BY <1>6 DEF Observe
  <2> DEFINE p == CHOOSE p \in mine : TRUE
  <2>2. p \in mine /\ \A q \in mine : q = p
    <3>1. \A q, r \in mine : q = r  BY DEF Live, ConsumedOnce
    <3> QED BY <2>1, <3>1
  <2> HIDE DEF p
  <2>3. /\ p \in plans /\ p \in Plan /\ p.id = jobs[w].plan /\ Consumable(p)
        /\ p.id \in 1..issued
    <3>1. p \in plans /\ p \in Plan  BY <2>2 DEF Live, BlueprintTypeOK
    <3>2. Consumable(p) /\ p.id = jobs[w].plan  BY <2>1, <2>2
    <3>3. p.id \in 1..MaxPlan /\ p.id <= issued  BY <3>1 DEF Plan, PlansAreIssued
    <3>4. p.id \in 1..issued  BY <3>3, ConstantFacts DEF BlueprintTypeOK
    <3> QED BY <3>1, <3>2, <3>4
  <2> DEFINE r == [jobs[w] EXCEPT !.name = p.name, !.content = p.content]
  <2>4. /\ r \in ApplyJob /\ r.name = p.name /\ r.content = p.content /\ r.plan = jobs[w].plan
        /\ r.status = "running" /\ r.outcome = None
    BY <1>2, <1>3, <2>3 DEF ApplyJob, Plan
  <2>5. jobs' = [jobs EXCEPT ![w] = r]  BY <1>2, <2>1 DEF p
  <2> HIDE DEF r
  <2>6. /\ jobs' \in Seq(ApplyJob) /\ DOMAIN jobs' = DOMAIN jobs
        /\ jobs'[w] = r /\ \A i \in DOMAIN jobs \ {w} : jobs'[i] = jobs[i]
    BY <1>2, <2>4, <2>5, JobSet
  <2>7. work' = [work EXCEPT !.pc = "check", !.plan = p]  BY <2>1 DEF p
  <2>8. /\ work'.pc = "check" /\ work'.plan = p /\ work'.job = w /\ work'.out = EmptyOutcome
        /\ work'.k = 0 /\ work'.rev = work.rev /\ work' \in Working
    BY <1>2, <2>3, <2>7 DEF Working
  <2>9. /\ p.obs.rev = work.rev /\ work.rev[1] = home.rev
        /\ p.obs.epoch = serviceEpoch /\ p.obs.llm = home.llm
    <3>1. work.rev[1] = home.rev  BY <1>1 DEF WorkOK, WorkIsTold
    <3>2. p.obs = Observation(work.rev)  BY <2>3 DEF Consumable
    <3> QED BY <3>1, <3>2 DEF Observation
  <2>10. JobsAreRecorded'
    BY <1>1, <1>2, <2>4, <2>6 DEF JobsAreRecorded, WorkOK
  <2>11. OutcomeIsHonest'
    BY <1>1, <2>4, <2>6 DEF OutcomeIsHonest, WorkOK
  <2>12. WorkIsTold'
    <3>1. EmptyOutcome' = EmptyOutcome  BY DEF EmptyOutcome
    <3>2. work'.plan.obs.rev = work'.rev /\ AsPreviewed(work.plan.obs)'
      BY <1>1, <2>8, <2>9 DEF AsPreviewed
    <3>3. p # None  BY <2>3, BlueprintNone
    <3> HIDE DEF EmptyOutcome, AsPreviewed
    <3> QED BY <1>1, <1>2, <2>4, <2>6, <2>8, <2>9, <3>1, <3>2, <3>3 DEF WorkIsTold, Writing
  <2>13. ConsumedOnce'
    <3>1. \A q1, q2 \in plans' : q1.id = q2.id => q1 = q2  BY <1>4 DEF ConsumedOnce
    <3>2. \A q \in plans' : q.id # jobs[w].plan  BY <2>1
    <3>3. \A i \in DOMAIN jobs : jobs[i].name # None => jobs[i].plan # jobs[w].plan
      BY <2>3 DEF ConsumedOnce
    <3>4. ASSUME NEW j \in DOMAIN jobs, jobs'[j].name # None
          PROVE  /\ \A q \in plans' : q.id # jobs'[j].plan
                 /\ \A i \in DOMAIN jobs \ {j} : jobs'[i].name # None => jobs'[i].plan # jobs'[j].plan
      <4>1. CASE j = w  BY <2>4, <2>6, <3>2, <3>3, <4>1
      <4>2. CASE j # w
        <5>1. jobs'[j] = jobs[j]  BY <2>6, <4>2
        <5>2. \A q \in plans' : q.id # jobs'[j].plan  BY <1>4, <3>4, <5>1 DEF ConsumedOnce
        <5>3. \A i \in DOMAIN jobs \ {j} : jobs'[i].name # None => jobs'[i].plan # jobs'[j].plan
          BY <2>4, <2>6, <3>3, <3>4, <5>1 DEF ConsumedOnce
        <5> QED BY <5>2, <5>3
      <4> QED BY <4>1, <4>2
    <3> QED BY <2>6, <3>1, <3>4 DEF ConsumedOnce
  <2>14. PlansAreIssued'
    BY <1>1, <1>4, <2>3, <2>4, <2>6 DEF PlansAreIssued
  <2>15. \A j \in DOMAIN jobs : jobs'[j].plan = jobs[j].plan  BY <2>4, <2>6
  <2> QED BY <1>4, <2>6, <2>8, <2>10, <2>11, <2>12, <2>13, <2>14, <2>15 DEF WorkOK
<1> QED BY <1>5, <1>6

-----------------------------------------------------------------------------
(* The Supervisor's steps.                                                   *)

\* What no step of the application touches, as far as requests and answers go.
Quiet ==
  /\ plans' \subseteq plans /\ UNCHANGED <<issued, calls, ui, serviceEpoch>>
  /\ DOMAIN jobs' = DOMAIN jobs /\ \A j \in DOMAIN jobs : jobs'[j].plan = jobs[j].plan

PlansOK == ConsumedOnce /\ PlansAreIssued

LEMMA PlansKept ==
  ASSUME PlansOK, plans' \subseteq plans, UNCHANGED issued, JobsKept
  PROVE  PlansOK'
<1>1. ConsumedOnce'  BY DEF PlansOK, ConsumedOnce, JobsKept
<1>2. PlansAreIssued'  BY DEF PlansOK, PlansAreIssued, JobsKept
<1> QED BY <1>1, <1>2 DEF PlansOK

LEMMA WorkKept ==
  ASSUME WorkOK, UNCHANGED <<jobs, work, spaces, home, serviceEpoch>>
  PROVE  WorkOK'
<1>1. JobsAreRecorded' /\ OutcomeIsHonest'
  BY DEF WorkOK, JobsAreRecorded, OutcomeIsHonest
<1>2. EmptyOutcome' = EmptyOutcome /\ (AsPreviewed(work.plan.obs)' <=> AsPreviewed(work.plan.obs))
      /\ ModelAvailable' = ModelAvailable
  BY DEF EmptyOutcome, AsPreviewed, ModelAvailable
<1>3. WorkIsTold'
  <2> HIDE DEF EmptyOutcome, AsPreviewed, ModelAvailable, Told, Done
  <2> QED BY <1>2 DEF WorkOK, WorkIsTold
<1> QED BY <1>1, <1>3 DEF WorkOK

LEMMA ApplyKeeps ==
  ASSUME BlueprintTypeOK, WorkOK, PlansOK, Apply, UNCHANGED ui
  PROVE  BlueprintTypeOK' /\ WorkOK' /\ PlansOK' /\ Quiet
<1>1. CASE \E j \in DOMAIN jobs : BeginJob(j)
  <2> PICK j \in DOMAIN jobs : BeginJob(j)  BY <1>1
  <2>1. jobs' \in Seq(ApplyJob) /\ work' \in Working /\ JobsKept /\ WorkOK'
    BY BeginKeeps
  <2>2. UNCHANGED <<serviceEpoch, clock, home, spaces, plans, issued, calls>>
    BY DEF BeginJob
  <2>3. BlueprintTypeOK'  BY <2>1, <2>2 DEF BlueprintTypeOK, JobsKept
  <2>4. PlansOK'  BY <2>1, <2>2, PlansKept
  <2> QED BY <2>1, <2>2, <2>3, <2>4 DEF Quiet, JobsKept
<1>2. CASE Observe
  <2>1. UNCHANGED <<serviceEpoch, clock, home, spaces, issued, calls>>  BY <1>2 DEF Observe
  <2>2. /\ jobs' \in Seq(ApplyJob) /\ work' \in Working /\ WorkOK' /\ plans' \subseteq plans
        /\ DOMAIN jobs' = DOMAIN jobs
        /\ \A j \in DOMAIN jobs : jobs'[j].plan = jobs[j].plan
        /\ PlansOK'
    BY <1>2, ObserveKeeps DEF PlansOK
  <2>3. BlueprintTypeOK'  BY <2>1, <2>2 DEF BlueprintTypeOK
  <2> QED BY <2>1, <2>2, <2>3 DEF Quiet
<1>3. CASE \/ Look \/ Check \/ CreateSpace \/ InstallPackage \/ Compose
           \/ WritePresets \/ BindPolicy \/ BindDefault \/ WriteProvenance
  <2>1. (Ends \/ Advances) /\ OwnSpaceOnly
    BY <1>3, LookSteps, CheckSteps, CreateSteps, InstallSteps, ComposeSteps, PresetsSteps, PolicySteps,
       DefaultSteps, ProvenanceSteps
  <2>2. work.pc # "idle" /\ UNCHANGED <<serviceEpoch, clock, plans, issued, calls>>
    BY <1>3 DEF Look, Check, CreateSpace, InstallPackage, Compose, WritePresets, BindPolicy,
                BindDefault, WriteProvenance
  <2>3. jobs' \in Seq(ApplyJob) /\ work' \in Working /\ JobsKept /\ WorkOK'
    BY <2>1, <2>2, EndsKeeps, AdvancesKeeps
  <2>4. home' \in [rev : Nat, runs : Nat, llm : Nat, enabled : BOOLEAN, override : BOOLEAN,
                   edits : 0..MaxHomeChange]
    <3>1. home' \in {home, [home EXCEPT !.rev = home.rev + 1]}
      BY <1>3 DEF Look, Check, CreateSpace, InstallPackage, Compose, WritePresets, BindPolicy,
                  BindDefault, WriteProvenance
    <3> QED BY <3>1 DEF BlueprintTypeOK
  <2>5. BlueprintTypeOK'
    BY <2>1, <2>2, <2>3, <2>4 DEF BlueprintTypeOK, JobsKept, OwnSpaceOnly
  <2>6. PlansOK'  BY <2>2, <2>3, PlansKept
  <2> QED BY <2>2, <2>3, <2>5, <2>6 DEF Quiet, JobsKept
<1> QED BY <1>1, <1>2, <1>3 DEF Apply

\* A plan that is staged is of a new id; a job that is submitted has nothing yet.
LEMMA ServeKeeps ==
  ASSUME BlueprintTypeOK, CallsAreSound, WorkOK, PlansOK, Serve
  PROVE  WorkOK' /\ PlansOK'
<1> USE ConstantFacts
<1> PICK c \in Call : PreviewArrives(c) \/ Gate(c) \/ Stage(c) \/ SubmitArrives(c)  BY DEF Serve
<1>1. CASE PreviewArrives(c) \/ Gate(c)
  <2>1. UNCHANGED <<serviceEpoch, home, spaces, jobs, work, issued>> /\ plans' \subseteq plans
    BY <1>1 DEF PreviewArrives, Gate, Live
  <2> QED BY <2>1, WorkKept, PlansKept DEF JobsKept
<1>2. CASE Stage(c)
  <2>1. UNCHANGED <<serviceEpoch, home, spaces, jobs, work>>  BY <1>2 DEF Stage
  <2>2. WorkOK'  BY <2>1, WorkKept
  <2>3. CASE UNCHANGED <<plans, issued>>
    BY <2>1, <2>2, <2>3, PlansKept DEF JobsKept
  <2>4. CASE ~UNCHANGED <<plans, issued>>
    <3> DEFINE p == [id |-> issued', content |-> calls[c].content, name |-> calls[c].name,
                     expires |-> calls[c].res.expires, obs |-> Observation(calls[c].rev)]
    <3>1. issued' = issued + 1 /\ issued \in Nat /\ p.id = issued' /\ plans' = plans \cup {p}
      BY <1>2, <2>4 DEF Stage, BlueprintTypeOK
    <3> HIDE DEF p
    <3>2. \A q \in plans : q.id \in Nat /\ q.id <= issued
      <4>1. \A q \in plans : q.id \in 1..MaxPlan  BY SmallFacts DEF Plan
      <4> QED BY <4>1 DEF PlansOK, PlansAreIssued
    <3>3. \A j \in DOMAIN jobs : jobs[j].plan \in Nat /\ jobs[j].plan <= issued
      BY JobFacts DEF PlansOK, PlansAreIssued, ApplyJob
    <3>4. ConsumedOnce'
      BY <2>1, <3>1, <3>2, <3>3 DEF PlansOK, ConsumedOnce
    <3>5. PlansAreIssued'
      BY <2>1, <3>1, <3>2, <3>3 DEF PlansAreIssued
    <3> QED BY <2>2, <3>4, <3>5 DEF PlansOK
  <2> QED BY <2>3, <2>4
<1>3. CASE SubmitArrives(c)
  <2>1. UNCHANGED <<serviceEpoch, home, spaces, work, plans, issued>>  BY <1>3 DEF SubmitArrives
  <2>2. CASE UNCHANGED jobs
    BY <2>1, <2>2, WorkKept, PlansKept DEF JobsKept
  <2> DEFINE r == NewJob(calls[c].plan, calls[c].obs)
  <2>3. CASE jobs' = Append(jobs, r)
    <3>1. calls[c] \in Requests /\ calls[c].plan \in 1..issued
      BY <1>3 DEF SubmitArrives, At, BlueprintTypeOK, CallsAreSound, CallIsSound
    <3>2. r \in ApplyJob /\ r.name = None /\ r.outcome = None /\ r.status = "queued"
          /\ r.plan \in 1..issued
      BY <3>1 DEF NewJob, ApplyJob, Requests, BlueprintTypeOK
    <3> HIDE DEF r
    <3> DEFINE end == Len(jobs')
    <3>3. /\ DOMAIN jobs' = DOMAIN jobs \cup {end} /\ end \notin DOMAIN jobs
          /\ jobs'[end] = r /\ \A i \in DOMAIN jobs : jobs'[i] = jobs[i]
      BY <2>3, <3>2, JobAdd
    <3> HIDE DEF end
    <3>4. PlansOK'
      <4>1. ConsumedOnce'  BY <2>1, <3>2, <3>3 DEF PlansOK, ConsumedOnce
      <4>2. PlansAreIssued'
        <5>1. r.plan <= issued  BY <3>2 DEF BlueprintTypeOK
        <5> QED BY <2>1, <3>3, <5>1 DEF PlansOK, PlansAreIssued
      <4> QED BY <4>1, <4>2 DEF PlansOK
    <3>5. JobsAreRecorded'  BY <2>1, <3>2, <3>3 DEF WorkOK, JobsAreRecorded
    <3>6. OutcomeIsHonest'  BY <2>1, <3>2, <3>3 DEF WorkOK, OutcomeIsHonest
    <3>7. WorkIsTold'
      <4>1. EmptyOutcome' = EmptyOutcome /\ (AsPreviewed(work.plan.obs)' <=> AsPreviewed(work.plan.obs))
            /\ ModelAvailable' = ModelAvailable
        BY <2>1 DEF EmptyOutcome, AsPreviewed, ModelAvailable
      <4>2. work.pc # "idle" => work.job \in DOMAIN jobs' /\ jobs'[work.job] = jobs[work.job]
        BY <3>3 DEF WorkOK, WorkIsTold
      <4> HIDE DEF EmptyOutcome, AsPreviewed, ModelAvailable, Told, Done
      <4> QED BY <2>1, <4>1, <4>2 DEF WorkOK, WorkIsTold
    <3> QED BY <3>4, <3>5, <3>6, <3>7 DEF WorkOK
  <2> QED BY <1>3, <2>2, <2>3 DEF SubmitArrives
<1> QED BY <1>1, <1>2, <1>3

LEMMA EnvironmentKeeps ==
  ASSUME BlueprintTypeOK, WorkOK, PlansOK, Environment, UNCHANGED ui
  PROVE  BlueprintTypeOK' /\ WorkOK' /\ PlansOK'
<1> USE ConstantFacts
<1> DEFINE Homes == [rev : Nat, runs : Nat, llm : Nat, enabled : BOOLEAN, override : BOOLEAN,
                     edits : 0..MaxHomeChange]
<1>0. home \in Homes /\ (home.edits < MaxHomeChange => home.edits + 1 \in 0..MaxHomeChange)
      /\ home.rev + 1 \in Nat /\ home.runs + 1 \in Nat /\ home.llm + 1 \in Nat
  <2>1. home \in Homes  BY SmallFacts
  <2>2. /\ home.edits \in 0..MaxHomeChange
        /\ home.rev \in Nat /\ home.runs \in Nat /\ home.llm \in Nat
    BY <2>1
  <2> QED BY <2>1, <2>2
<1>1. CASE \E j \in DOMAIN jobs : CancelQueued(j)
  <2> PICK j \in DOMAIN jobs : CancelQueued(j)  BY <1>1
  <2>1. UNCHANGED <<serviceEpoch, clock, home, spaces, plans, issued, calls, work>>
        /\ jobs[j].status = "queued" /\ jobs[j] \in ApplyJob
    BY JobFacts DEF CancelQueued
  <2> DEFINE r == [jobs[j] EXCEPT !.status = "cancelled"]
  <2>2. /\ r \in ApplyJob /\ r.status = "cancelled" /\ r.name = jobs[j].name
        /\ r.plan = jobs[j].plan /\ r.outcome = jobs[j].outcome
    BY <2>1 DEF ApplyJob, Finished
  <2>3. jobs' = [jobs EXCEPT ![j] = r]  BY <2>1 DEF CancelQueued
  <2> HIDE DEF r
  <2>4. /\ jobs' \in Seq(ApplyJob) /\ DOMAIN jobs' = DOMAIN jobs
        /\ jobs'[j] = r /\ \A i \in DOMAIN jobs \ {j} : jobs'[i] = jobs[i]
    BY <2>2, <2>3, JobSet
  <2>5. jobs[j].outcome = None  BY <2>1 DEF WorkOK, JobsAreRecorded
  <2>6. JobsKept  BY <2>2, <2>4 DEF JobsKept
  <2>7. BlueprintTypeOK'  BY <2>1, <2>4 DEF BlueprintTypeOK
  <2>8. JobsAreRecorded'  BY <2>1, <2>2, <2>4, <2>5 DEF WorkOK, JobsAreRecorded
  <2>9. OutcomeIsHonest'  BY <2>1, <2>2, <2>4, <2>5 DEF WorkOK, OutcomeIsHonest
  <2>10. WorkIsTold'
    <3>1. EmptyOutcome' = EmptyOutcome /\ (AsPreviewed(work.plan.obs)' <=> AsPreviewed(work.plan.obs))
          /\ ModelAvailable' = ModelAvailable
      BY <2>1 DEF EmptyOutcome, AsPreviewed, ModelAvailable
    <3>2. work.pc # "idle" => work.job \in DOMAIN jobs /\ work.job # j
      BY <2>1 DEF WorkOK, WorkIsTold
    <3>3. work.pc # "idle" => jobs'[work.job] = jobs[work.job]  BY <2>4, <3>2
    <3> HIDE DEF EmptyOutcome, AsPreviewed, ModelAvailable, Told, Done
    <3> QED BY <2>1, <2>4, <3>1, <3>3 DEF WorkOK, WorkIsTold
  <2> QED BY <2>1, <2>6, <2>7, <2>8, <2>9, <2>10, PlansKept DEF WorkOK
<1>2. CASE OtherJob
  <2>1. work.pc = "idle" /\ UNCHANGED <<serviceEpoch, clock, spaces, plans, issued, calls, jobs, work>>
    BY <1>2 DEF OtherJob
  <2>2. home' \in Homes
    <3> DEFINE e == home.edits + 1
    <3>1. e \in 0..MaxHomeChange  BY <1>0, <1>2 DEF OtherJob
    <3> HIDE DEF e
    <3>2. CASE home' = [home EXCEPT !.edits = e, !.rev = home.rev + 1]  BY <1>0, <3>1, <3>2
    <3>3. ASSUME NEW on \in BOOLEAN,
                 home' = [home EXCEPT !.edits = e, !.llm = home.llm + 1, !.enabled = on]
          PROVE  home' \in Homes
      BY <1>0, <3>1, <3>3
    <3> QED BY <1>2, <3>2, <3>3 DEF OtherJob, e
  <2>3. BlueprintTypeOK'  BY <2>1, <2>2 DEF BlueprintTypeOK
  <2>4. WorkOK'
    BY <2>1 DEF WorkOK, JobsAreRecorded, OutcomeIsHonest, WorkIsTold
  <2> QED BY <2>1, <2>3, <2>4, PlansKept DEF JobsKept
<1>3. CASE ProcessChanges \/ EditPatch
  <2>1. UNCHANGED <<serviceEpoch, clock, spaces, plans, issued, calls, jobs, work>>
    BY <1>3 DEF ProcessChanges, EditPatch
  <2>2. home' \in Homes
        /\ home'.rev = home.rev /\ home'.llm = home.llm /\ home'.enabled = home.enabled
    <3> DEFINE e == home.edits + 1
               o == ~home.override
               k == home.runs + 1
    <3>1. e \in 0..MaxHomeChange  BY <1>0, <1>3 DEF ProcessChanges, EditPatch
    <3>2. o \in BOOLEAN /\ k \in Nat  BY <1>0
    <3>3. \/ home' = [home EXCEPT !.edits = e, !.override = o]
          \/ home' = [home EXCEPT !.edits = e, !.runs = k]
      BY <1>3 DEF ProcessChanges, EditPatch
    <3> HIDE DEF e, o, k
    <3>4. CASE home' = [home EXCEPT !.edits = e, !.override = o]
      BY <1>0, <3>1, <3>2, <3>4
    <3>5. CASE home' = [home EXCEPT !.edits = e, !.runs = k]
      BY <1>0, <3>1, <3>2, <3>5
    <3> QED BY <3>3, <3>4, <3>5
  <2>3. BlueprintTypeOK'  BY <2>1, <2>2 DEF BlueprintTypeOK
  <2>4. EmptyOutcome' = EmptyOutcome /\ ModelAvailable' = ModelAvailable
    BY <2>1, <2>2 DEF EmptyOutcome, ModelAvailable
  <2>5. AsPreviewed(work.plan.obs)' <=> AsPreviewed(work.plan.obs)
    BY <2>1, <2>2 DEF AsPreviewed
  <2>6. WorkIsTold'
    <3> HIDE DEF EmptyOutcome, ModelAvailable, Told, Done, AsPreviewed
    <3> QED BY <2>1, <2>2, <2>4, <2>5 DEF WorkOK, WorkIsTold
  <2>7. JobsAreRecorded' /\ OutcomeIsHonest'
    BY <2>1 DEF WorkOK, JobsAreRecorded, OutcomeIsHonest
  <2> QED BY <2>1, <2>3, <2>6, <2>7, PlansKept DEF WorkOK, JobsKept
<1>4. CASE Tick
  <2>1. UNCHANGED <<serviceEpoch, home, spaces, plans, issued, calls, jobs, work>>
    BY <1>4 DEF Tick
  <2>2. BlueprintTypeOK'  BY <1>4, <2>1 DEF Tick, BlueprintTypeOK
  <2> QED BY <2>1, <2>2, WorkKept, PlansKept DEF JobsKept
<1>5. CASE RestartSupervisor
  <2>1. /\ UNCHANGED <<clock, home, spaces, issued>> /\ serviceEpoch' = serviceEpoch + 1
        /\ plans' = {} /\ work' = Idle
        /\ jobs' = [j \in DOMAIN jobs |->
                IF jobs[j].status \in Finished THEN jobs[j] ELSE [jobs[j] EXCEPT !.status = "failed"]]
    BY <1>5 DEF RestartSupervisor
  <2>2. \A j \in DOMAIN jobs :
          /\ jobs'[j] \in ApplyJob /\ jobs'[j].plan = jobs[j].plan /\ jobs'[j].name = jobs[j].name
          /\ jobs'[j].outcome = jobs[j].outcome /\ jobs'[j].status \in Finished
          /\ jobs[j].status \in Finished => jobs'[j] = jobs[j]
    BY <2>1, JobFacts DEF ApplyJob, Finished
  <2>3. DOMAIN jobs' = DOMAIN jobs /\ DOMAIN jobs = 1..Len(jobs) /\ Len(jobs) \in Nat
    BY <2>1, JobFacts
  <2>4. jobs' \in Seq(ApplyJob)
    <3>1. jobs' \in [1..Len(jobs) -> ApplyJob]  BY <2>1, <2>2, <2>3
    <3> QED BY <2>3, <3>1
  <2>5. calls' \in [Call -> Requests \cup {None}]
    <3>1. \A c \in Call : calls[c] \in Requests \cup {None}  BY DEF BlueprintTypeOK
    <3>2. \A c \in Call : calls[c] # None =>
            [calls[c] EXCEPT !.stage = "answered", !.res = Refusal] \in Requests
      BY <3>1 DEF Requests
    <3> QED BY <1>5, <3>1, <3>2 DEF RestartSupervisor
  <2>6. BlueprintTypeOK'
    <3>1. serviceEpoch' \in Nat /\ plans' \subseteq Plan
      <4>1. serviceEpoch \in Nat  BY DEF BlueprintTypeOK
      <4> QED BY <2>1, <4>1
    <3>2. work' \in Working  BY <2>1
    <3> QED BY <2>1, <2>3, <2>4, <2>5, <3>1, <3>2 DEF BlueprintTypeOK
  <2>7. JobsKept  BY <2>2, <2>3 DEF JobsKept
  <2>8. JobsAreRecorded'
    BY <2>1, <2>2, <2>3 DEF WorkOK, JobsAreRecorded, Finished
  <2>9. OutcomeIsHonest'
    <3>1. ASSUME NEW j \in DOMAIN jobs, jobs'[j].outcome # None
          PROVE  jobs'[j] = jobs[j]
      BY <2>2, <3>1 DEF WorkOK, JobsAreRecorded, Finished
    <3> QED BY <2>1, <2>2, <2>3, <3>1 DEF WorkOK, OutcomeIsHonest
  <2>10. WorkIsTold'  BY <2>1 DEF WorkIsTold, Idle
  <2> QED BY <2>1, <2>6, <2>7, <2>8, <2>9, <2>10, PlansKept DEF WorkOK
<1> QED BY <1>1, <1>2, <1>3, <1>4, <1>5 DEF Environment

-----------------------------------------------------------------------------
(* The session's requests.                                                   *)

\* What becomes of a request: it is gone, it is as it was or answered with a
\* refusal, or it is an inspection or a preview that was sent just now.
Follows(c) ==
  \/ calls'[c] = None
  \/ /\ calls[c] # None /\ calls'[c].kind = calls[c].kind /\ calls'[c].plan = calls[c].plan
     /\ calls'[c].content = calls[c].content /\ calls'[c].name = calls[c].name
     /\ calls'[c].obs = calls[c].obs
     /\ \/ calls'[c].stage = calls[c].stage /\ calls'[c].res = calls[c].res
        \/ calls'[c].stage = "answered" /\ calls'[c].res = Refusal
  \/ /\ calls[c] = None /\ calls'[c].stage = "sent" /\ calls'[c].res = Refusal
     /\ calls'[c].kind \in {"inspect", "preview"} /\ calls'[c].content \in Content
     /\ calls'[c].kind = "preview" => calls'[c].name \in Name

\* The jobs and the plans, as far as the session has to do with them.
Settled ==
  /\ UNCHANGED issued /\ plans' \subseteq plans
  /\ DOMAIN jobs' = DOMAIN jobs /\ \A j \in DOMAIN jobs : jobs'[j].plan = jobs[j].plan

SameEpoch ==
  \/ UNCHANGED serviceEpoch
  \/ \A c \in Call : calls'[c] # None => calls'[c].stage \notin {"gate", "capture"}

\* The preview that is shown stays what it is, or goes.
ShownStays ==
  ui'.preview # None =>
    ui.preview # None /\ ui'.preview = ui.preview /\ (Submitted(ui) => Submitted(ui)')

RequestsOK == CallsAreSound /\ AnswersAreNew /\ ShownIsKnown

LEMMA FollowsFacts ==
  ASSUME NEW c \in Call, Follows(c)
  PROVE  /\ Offers(c)' => Offers(c) /\ calls'[c].res = calls[c].res
                          /\ calls'[c].content = calls[c].content /\ calls'[c].name = calls[c].name
         /\ calls'[c] # None /\ calls'[c].kind = "submit" =>
              calls[c] # None /\ calls[c].kind = "submit" /\ calls'[c].plan = calls[c].plan
<1>1. CASE calls'[c] = None  BY <1>1 DEF Offers
<1>2. CASE /\ calls[c] # None /\ calls'[c].kind = calls[c].kind /\ calls'[c].plan = calls[c].plan
           /\ calls'[c].content = calls[c].content /\ calls'[c].name = calls[c].name
           /\ \/ calls'[c].stage = calls[c].stage /\ calls'[c].res = calls[c].res
              \/ calls'[c].res = Refusal
  BY <1>2 DEF Offers, Refusal
<1>3. CASE calls'[c].stage = "sent" /\ calls'[c].kind \in {"inspect", "preview"}
  BY <1>3 DEF Offers
<1> QED BY <1>1, <1>2, <1>3 DEF Follows

LEMMA FollowsKeeps ==
  ASSUME BlueprintTypeOK, RequestsOK, \A c \in Call : Follows(c), Settled, SameEpoch, ShownStays
  PROVE  RequestsOK'
<1>1. CallsAreSound'
  <2> SUFFICES ASSUME NEW c \in Call, calls'[c] # None PROVE CallIsSound(c)'
    BY DEF CallsAreSound
  <2>1. CASE /\ calls[c] # None /\ calls'[c].kind = calls[c].kind /\ calls'[c].plan = calls[c].plan
             /\ calls'[c].content = calls[c].content /\ calls'[c].name = calls[c].name
             /\ calls'[c].obs = calls[c].obs
             /\ calls'[c].stage = calls[c].stage /\ calls'[c].res = calls[c].res
    <3>1. CallIsSound(c)  BY <2>1 DEF RequestsOK, CallsAreSound
    <3> QED BY <2>1, <3>1 DEF CallIsSound, Settled, SameEpoch
  <2>2. CASE /\ calls[c] # None /\ calls'[c].kind = calls[c].kind /\ calls'[c].plan = calls[c].plan
             /\ calls'[c].content = calls[c].content /\ calls'[c].name = calls[c].name
             /\ calls'[c].obs = calls[c].obs
             /\ calls'[c].stage = "answered" /\ calls'[c].res = Refusal
    <3>1. CallIsSound(c)  BY <2>2 DEF RequestsOK, CallsAreSound
    <3>2. Refusal.type = "error" /\ Refusal' = Refusal  BY DEF Refusal
    <3> QED BY <2>2, <3>1, <3>2 DEF CallIsSound, Settled
  <2>3. CASE /\ calls'[c].stage = "sent" /\ calls'[c].res = Refusal
             /\ calls'[c].kind \in {"inspect", "preview"} /\ calls'[c].content \in Content
             /\ calls'[c].kind = "preview" => calls'[c].name \in Name
    <3>2. Refusal.type = "error" /\ Refusal' = Refusal  BY DEF Refusal
    <3> QED BY <2>3, <3>2 DEF CallIsSound
  <2> QED BY <2>1, <2>2, <2>3 DEF Follows
<1>2. \A plan : WasSubmitted(plan)' => WasSubmitted(plan)
  BY FollowsFacts DEF WasSubmitted, Settled
<1>3. AnswersAreNew'
  <2> SUFFICES ASSUME NEW c \in Call, Offers(c)'
               PROVE  /\ calls'[c].res.plan \in 1..issued' /\ ~WasSubmitted(calls[c].res.plan)'
                      /\ \A d \in Call : Offers(d)' /\ calls'[d].res.plan = calls'[c].res.plan => d = c
                      /\ ui'.preview # None => ui'.preview.plan # calls'[c].res.plan
                      /\ \A p \in plans' : p.id = calls'[c].res.plan =>
                           IsOf(p, calls'[c].content, calls'[c].name, calls'[c].res.obs)
    BY DEF AnswersAreNew
  <2>1. /\ Offers(c) /\ calls'[c].res = calls[c].res
        /\ calls'[c].content = calls[c].content /\ calls'[c].name = calls[c].name
    BY FollowsFacts
  <2>2. /\ calls[c].res.plan \in 1..issued /\ ~WasSubmitted(calls[c].res.plan)
        /\ \A d \in Call : Offers(d) /\ calls[d].res.plan = calls[c].res.plan => d = c
        /\ ui.preview # None => ui.preview.plan # calls[c].res.plan
        /\ \A p \in plans : p.id = calls[c].res.plan =>
             IsOf(p, calls[c].content, calls[c].name, calls[c].res.obs)
    BY <2>1 DEF RequestsOK, AnswersAreNew
  <2>3. calls'[c].res.plan \in 1..issued' /\ ~WasSubmitted(calls[c].res.plan)'
    BY <1>2, <2>1, <2>2 DEF Settled
  <2>4. \A d \in Call : Offers(d)' /\ calls'[d].res.plan = calls'[c].res.plan => d = c
    BY <2>1, <2>2, FollowsFacts
  <2>5. ui'.preview # None => ui'.preview.plan # calls'[c].res.plan
    BY <2>1, <2>2 DEF ShownStays
  <2>6. \A p \in plans' : p.id = calls'[c].res.plan =>
          IsOf(p, calls'[c].content, calls'[c].name, calls'[c].res.obs)
    BY <2>1, <2>2 DEF Settled
  <2> QED BY <2>3, <2>4, <2>5, <2>6
<1>4. ShownIsKnown'
  <2> SUFFICES ASSUME ui'.preview # None, ui'.preview.plan # None
               PROVE  /\ ui'.preview.plan \in 1..issued'
                      /\ WasSubmitted(ui.preview.plan)' => Submitted(ui)'
                      /\ \A p \in plans' : p.id = ui'.preview.plan =>
                           IsOf(p, ui'.preview.content, ui'.preview.name, ui'.preview.obs)
    BY DEF ShownIsKnown
  <2>1. ui.preview # None /\ ui'.preview = ui.preview /\ (Submitted(ui) => Submitted(ui)')
    BY DEF ShownStays
  <2> HIDE DEF Submitted
  <2>2. WasSubmitted(ui.preview.plan)' => WasSubmitted(ui.preview.plan)
    BY <1>2, <2>1
  <2> QED BY <2>1, <2>2 DEF RequestsOK, ShownIsKnown, Settled
<1> QED BY <1>1, <1>3, <1>4 DEF RequestsOK

\* A step of the session that opens no application and takes no new preview.
Keeps ==
  /\ UNCHANGED <<serviceEpoch, clock, home, spaces, plans, issued, jobs, work>>
  /\ calls' \in [Call -> Requests \cup {None}] /\ \A c \in Call : Follows(c)
  /\ ui' \in Session /\ ui'.applyJob \in DOMAIN jobs \cup {None}
  /\ FormIsShown' /\ ShownStays

LEMMA KeepsAll ==
  ASSUME BlueprintTypeOK, RequestsOK, Keeps
  PROVE  BlueprintTypeOK' /\ RequestsOK'
<1>1. BlueprintTypeOK'  BY DEF Keeps, BlueprintTypeOK
<1>2. Settled /\ SameEpoch  BY DEF Keeps, Settled, SameEpoch
<1>3. RequestsOK'  BY <1>2, FollowsKeeps DEF Keeps
<1> QED BY <1>1, <1>3

LEMMA GivenUp ==
  ASSUME BlueprintTypeOK, NEW kinds, NEW c \in Call, calls'[c] = GiveUp(kinds)[c]
  PROVE  Follows(c)
<1>1. CASE calls'[c] \in {calls[c], None}  BY <1>1 DEF Follows
<1>2. CASE calls[c] # None /\ calls'[c] = [calls[c] EXCEPT !.live = FALSE]
  <2>1. calls[c] \in Requests  BY <1>2 DEF BlueprintTypeOK
  <2> QED BY <1>2, <2>1 DEF Follows, Requests
<1> QED BY <1>1, <1>2, GiveUpFacts

\* What is taken out, and what is sent.
LEMMA Freed ==
  ASSUME BlueprintTypeOK, NEW c \in Call, Free(c)
  PROVE  /\ calls' \in [Call -> Requests \cup {None}] /\ calls'[c] = None
         /\ \A d \in Call \ {c} : calls'[d] = calls[d]
         /\ \A d \in Call : Follows(d)
<1>1. /\ calls' \in [Call -> Requests \cup {None}] /\ calls'[c] = None
      /\ \A d \in Call \ {c} : calls'[d] = calls[d]
  BY DEF Free, BlueprintTypeOK
<1>2. \A d \in Call : Follows(d)
  <2> TAKE d \in Call
  <2>1. calls'[d] = None \/ calls'[d] = calls[d]  BY <1>1
  <2> QED BY <2>1 DEF Follows
<1> QED BY <1>1, <1>2

LEMMA Sent ==
  ASSUME BlueprintTypeOK, NEW kinds, NEW kind \in {"inspect", "preview"}, NEW name \in Name \cup {None},
         kind = "preview" => name \in Name, Send(kinds, kind, ui.content, name, None, None)
  PROVE  calls' \in [Call -> Requests \cup {None}] /\ \A d \in Call : Follows(d)
<1> DEFINE r == [kind |-> kind, live |-> TRUE, stage |-> "sent", epoch |-> ui.epoch,
                 content |-> ui.content, name |-> name, plan |-> None, obs |-> None,
                 rev |-> NoRevision, res |-> Refusal]
<1>1. ui.content \in Content  BY DEF BlueprintTypeOK, Session
<1>2. PICK c \in Call : calls[c] = None /\ calls' = [GiveUp(kinds) EXCEPT ![c] = r]
  BY DEF Send
<1>3. r.stage = "sent" /\ r.res = Refusal /\ r.kind = kind /\ r.content = ui.content /\ r.name = name
  OBVIOUS
<1> HIDE DEF r
<1>4. GiveUp(kinds) \in [Call -> Requests \cup {None}]  BY GiveUpFacts
<1>5. calls'[c] = r /\ \A d \in Call \ {c} : calls'[d] = GiveUp(kinds)[d]  BY <1>2, <1>4
<1>6. \A d \in Call \ {c} : Follows(d)  BY <1>5, GivenUp
<1>7. Follows(c)  BY <1>1, <1>2, <1>3, <1>5 DEF Follows
<1>8. r \in Requests
  <2>1. ui.epoch \in Nat  BY DEF BlueprintTypeOK, Session
  <2> QED BY <1>1, <2>1, ConstantFacts DEF Requests, r
<1>9. calls' \in [Call -> Requests \cup {None}]  BY <1>2, <1>4, <1>8
<1> QED BY <1>6, <1>7, <1>9

LEMMA GaveUp ==
  ASSUME BlueprintTypeOK, NEW kinds, calls' = GiveUp(kinds)
  PROVE  calls' \in [Call -> Requests \cup {None}] /\ \A d \in Call : Follows(d)
<1>1. calls' \in [Call -> Requests \cup {None}]  BY GiveUpFacts
<1>2. \A d \in Call : Follows(d)  BY GivenUp
<1> QED BY <1>1, <1>2

LEMMA FormFacts ==
  ASSUME BlueprintTypeOK
  PROVE  ui \in Session /\ ui.edits < MaxEdit => ui.edits + 1 \in 0..MaxEdit
  BY BlueprintEdits DEF BlueprintTypeOK, Session

\* What a person does at the form.
LEMMA FormKeeps ==
  ASSUME BlueprintTypeOK, FormIsShown, RequestsOK,
         \/ \E x \in Content : SetContent(x)
         \/ \E n \in Name : SetName(n)
         \/ SetMode \/ Inspect \/ Preview \/ CancelStaged
  PROVE  Keeps
<1>1. ui \in Session /\ (ui.edits < MaxEdit => ui.edits + 1 \in 0..MaxEdit)
      /\ ui.applyJob \in DOMAIN jobs \cup {None} /\ None \notin Shown
  BY FormFacts, BlueprintNone DEF BlueprintTypeOK
<1> DEFINE e == ui.edits + 1
<1>2. CASE \E x \in Content : SetContent(x)
  <2> PICK x \in Content : SetContent(x)  BY <1>2
  <2>1. /\ calls' = GiveUp({"inspect", "preview"}) /\ ui.edits < MaxEdit
        /\ ui' = [ui EXCEPT !.preview = None, !.content = x, !.inspect = None,
                    !.inspectStatus = "idle", !.previewStatus = "idle", !.previewInvalid = TRUE,
                    !.edits = e]
        /\ UNCHANGED <<serviceEpoch, clock, home, spaces, plans, issued, jobs, work>>
    BY <1>1 DEF SetContent, Edit, Only, NoPreview, Session
  <2>2. ui' \in Session /\ ui'.applyJob = ui.applyJob /\ ui'.inspect = None /\ ui'.preview = None
        /\ ui'.previewStatus = "idle"
    BY <1>1, <2>1 DEF Session, Status
  <2>3. FormIsShown' /\ ShownStays  BY <2>2 DEF FormIsShown, ShownStays
  <2> QED BY <1>1, <2>1, <2>2, <2>3, GaveUp DEF Keeps
<1>3. CASE \E n \in Name : SetName(n)
  <2> PICK n \in Name : SetName(n)  BY <1>3
  <2>1. /\ calls' = GiveUp({"preview"}) /\ ui.edits < MaxEdit
        /\ ui' = [ui EXCEPT !.name = n, !.previewInvalid = TRUE, !.edits = e]
        /\ UNCHANGED <<serviceEpoch, clock, home, spaces, plans, issued, jobs, work>>
    BY <1>1 DEF SetName, Edit, Only, Invalidated, Session
  <2>2. ui' \in Session /\ ui'.applyJob = ui.applyJob /\ ui'.inspect = ui.inspect
        /\ ui'.content = ui.content /\ ui'.preview = ui.preview /\ ui'.previewInvalid
        /\ ui'.applyPlan = ui.applyPlan /\ ui'.applyStatus = ui.applyStatus
    BY <1>1, <2>1 DEF Session
  <2>3. FormIsShown' /\ ShownStays  BY <2>2 DEF FormIsShown, ShownStays, Submitted
  <2> QED BY <1>1, <2>1, <2>2, <2>3, GaveUp DEF Keeps
<1>4. CASE SetMode
  <2>1. /\ calls' = GiveUp({"inspect", "preview"}) /\ ui.edits < MaxEdit
        /\ ui' = [ui EXCEPT !.edits = e]
        /\ UNCHANGED <<serviceEpoch, clock, home, spaces, plans, issued, jobs, work>>
    BY <1>4 DEF SetMode, Edit, Only
  <2>2. ui' \in Session /\ ui'.applyJob = ui.applyJob /\ ui'.inspect = ui.inspect
        /\ ui'.content = ui.content /\ ui'.name = ui.name /\ ui'.preview = ui.preview
        /\ ui'.applyPlan = ui.applyPlan /\ ui'.applyStatus = ui.applyStatus
        /\ ui'.previewStatus = ui.previewStatus
    BY <1>1, <2>1 DEF Session
  <2>3. ui'.previewInvalid = ui.previewInvalid  BY <1>1, <2>1 DEF Session
  <2>4. FormIsShown' /\ ShownStays  BY <2>2, <2>3 DEF FormIsShown, ShownStays, Submitted
  <2> QED BY <1>1, <2>1, <2>2, <2>4, GaveUp DEF Keeps
<1>5. CASE Inspect
  <2>1. /\ Send({"inspect"}, "inspect", ui.content, None, None, None)
        /\ ui' = [ui EXCEPT !.preview = None, !.inspectStatus = "loading", !.previewInvalid = TRUE]
        /\ UNCHANGED <<serviceEpoch, clock, home, spaces, plans, issued, jobs, work>>
    BY <1>1, <1>5 DEF Inspect, Only, NoPreview, Session
  <2>2. ui' \in Session /\ ui'.applyJob = ui.applyJob /\ ui'.inspect = ui.inspect
        /\ ui'.content = ui.content /\ ui'.preview = None /\ ui'.previewInvalid
    BY <1>1, <2>1 DEF Session, Status
  <2>3. FormIsShown' /\ ShownStays  BY <2>2 DEF FormIsShown, ShownStays
  <2>4. calls' \in [Call -> Requests \cup {None}] /\ \A d \in Call : Follows(d)
    BY <2>1, Sent
  <2> QED BY <1>1, <2>1, <2>2, <2>3, <2>4 DEF Keeps
<1>6. CASE Preview
  <2>1. /\ Send({"preview"}, "preview", ui.content, ui.name, None, None)
        /\ ui' = [ui EXCEPT !.previewStatus = "loading", !.previewInvalid = FALSE]
        /\ UNCHANGED <<serviceEpoch, clock, home, spaces, plans, issued, jobs, work>>
    BY <1>6 DEF Preview, Only
  <2>2. ui' \in Session /\ ui'.applyJob = ui.applyJob /\ ui'.inspect = ui.inspect
        /\ ui'.content = ui.content /\ ui'.preview = ui.preview /\ ui'.previewStatus = "loading"
        /\ ui'.applyPlan = ui.applyPlan /\ ui'.applyStatus = ui.applyStatus
    BY <1>1, <2>1 DEF Session, Status
  <2>3. FormIsShown' /\ ShownStays  BY <2>2 DEF FormIsShown, ShownStays, Submitted
  <2>4. ui.name \in Name  BY <1>1 DEF Session
  <2>5. calls' \in [Call -> Requests \cup {None}] /\ \A d \in Call : Follows(d)
    BY <2>1, <2>4, Sent
  <2> QED BY <1>1, <2>1, <2>2, <2>3, <2>5 DEF Keeps
<1>7. CASE CancelStaged
  <2> DEFINE s == IF ui.applyStatus \in {"submitting", "running"} THEN ui.applyStatus ELSE "idle"
  <2>1. /\ calls' = GiveUp({"preview"}) /\ ui.edits < MaxEdit
        /\ ui' = [ui EXCEPT !.preview = None, !.previewStatus = "idle", !.previewInvalid = FALSE,
                    !.applyStatus = s, !.edits = e]
        /\ UNCHANGED <<serviceEpoch, clock, home, spaces, plans, issued, jobs, work>>
    BY <1>1, <1>7 DEF CancelStaged, Edit, Only, NoPreview, Session
  <2>2. s \in {"idle", "submitting", "running", "succeeded", "failed"}  OBVIOUS
  <2> HIDE DEF s
  <2>3. ui' \in Session /\ ui'.applyJob = ui.applyJob /\ ui'.inspect = ui.inspect
        /\ ui'.content = ui.content /\ ui'.preview = None /\ ui'.previewStatus = "idle"
    BY <1>1, <2>1, <2>2 DEF Session, Status
  <2>4. FormIsShown' /\ ShownStays  BY <2>3 DEF FormIsShown, ShownStays
  <2> QED BY <1>1, <2>1, <2>3, <2>4, GaveUp DEF Keeps
<1> QED BY <1>2, <1>3, <1>4, <1>5, <1>6, <1>7

\* Answers, the poll, and the application.
LEMMA HearsJob ==
  ASSUME BlueprintTypeOK, NEW STATE u, u \in Session, NEW STATE j, j \in DOMAIN jobs,
         u.applyJob \in DOMAIN jobs \cup {None}
  PROVE  LET v == OnApplyJob(u, j) IN
         /\ v \in Session /\ v.applyJob \in DOMAIN jobs \cup {None}
         /\ v.inspect = u.inspect /\ v.content = u.content /\ v.name = u.name
         /\ v.preview = u.preview /\ v.previewStatus = u.previewStatus
         /\ v.previewInvalid = u.previewInvalid /\ v.applyPlan = u.applyPlan
         /\ u.applyStatus # "idle" => v.applyStatus # "idle"
<1> DEFINE status == jobs[j].status
           s == CASE status \in {"queued", "running"} -> "running"
                  [] status = "succeeded" -> "succeeded"
                  [] OTHER -> "failed"
           w == [u EXCEPT !.applyJob = j, !.applyStatus = s]
<1>1. s \in {"running", "succeeded", "failed"}  OBVIOUS
<1>2. OnApplyJob(u, j) \in {u, w}  BY DEF OnApplyJob
<1>3. j \in Nat  BY JobFacts
<1> HIDE DEF s, OnApplyJob
<1>4. /\ w \in Session /\ w.applyJob = j
      /\ w.inspect = u.inspect /\ w.content = u.content /\ w.name = u.name
      /\ w.preview = u.preview /\ w.previewStatus = u.previewStatus
      /\ w.applyPlan = u.applyPlan /\ w.applyStatus = s
  BY <1>1, <1>3 DEF Session
<1>5. w.previewInvalid = u.previewInvalid  BY DEF Session
<1> HIDE DEF w
<1> QED BY <1>1, <1>2, <1>4, <1>5

LEMMA AnswersKeep ==
  ASSUME BlueprintTypeOK, FormIsShown, RequestsOK,
         \/ \E c \in Call : InspectAnswer(c) \/ SubmitAnswer(c) \/ Lose(c)
         \/ Poll
  PROVE  Keeps
<1>1. ui \in Session /\ ui.applyJob \in DOMAIN jobs \cup {None} /\ None \notin Shown
  BY BlueprintNone DEF BlueprintTypeOK
<1>2. ASSUME NEW c \in Call, InspectAnswer(c) PROVE Keeps
  <2>1. calls[c] # None /\ calls[c].kind = "inspect" /\ Free(c)
        /\ UNCHANGED <<serviceEpoch, clock, home, spaces, plans, issued, jobs, work>>
    BY <1>2 DEF InspectAnswer, Only
  <2>2. calls[c].content \in Content
    BY <2>1 DEF RequestsOK, CallsAreSound, CallIsSound
  <2>3. CASE ui' = ui
    <3>1. FormIsShown' /\ ShownStays  BY <2>3 DEF FormIsShown, ShownStays, Submitted
    <3> QED BY <1>1, <2>1, <2>3, <3>1, Freed DEF Keeps
  <2>4. CASE ui' = [ui EXCEPT !.inspectStatus = "error"]
    <3>1. ui' \in Session /\ ui'.applyJob = ui.applyJob /\ ui'.inspect = ui.inspect
          /\ ui'.content = ui.content /\ ui'.name = ui.name /\ ui'.preview = ui.preview
          /\ ui'.applyPlan = ui.applyPlan /\ ui'.applyStatus = ui.applyStatus
          /\ ui'.previewStatus = ui.previewStatus
      BY <1>1, <2>4 DEF Session, Status
    <3>2. ui'.previewInvalid = ui.previewInvalid  BY <1>1, <2>4 DEF Session
    <3>3. FormIsShown' /\ ShownStays  BY <3>1, <3>2 DEF FormIsShown, ShownStays, Submitted
    <3> QED BY <1>1, <2>1, <3>1, <3>3, Freed DEF Keeps
  <2>5. CASE /\ calls[c].content = ui.content
             /\ ui' = [ui EXCEPT !.preview = None, !.inspectStatus = "ready",
                         !.inspect = calls[c].content,
                         !.previewStatus = "idle", !.previewInvalid = TRUE]
    <3>1. ui' \in Session /\ ui'.applyJob = ui.applyJob /\ ui'.inspect = ui'.content
          /\ ui'.preview = None /\ ui'.previewStatus = "idle"
      BY <1>1, <2>2, <2>5 DEF Session, Status
    <3>2. FormIsShown' /\ ShownStays  BY <3>1 DEF FormIsShown, ShownStays
    <3> QED BY <1>1, <2>1, <3>1, <3>2, Freed DEF Keeps
  <2> QED BY <1>1, <1>2, <2>3, <2>4, <2>5 DEF InspectAnswer, Only, NoPreview, Session
<1>3. ASSUME NEW c \in Call, SubmitAnswer(c) PROVE Keeps
  <2>1. calls[c] # None /\ calls[c].kind = "submit" /\ Free(c)
        /\ UNCHANGED <<serviceEpoch, clock, home, spaces, plans, issued, jobs, work>>
    BY <1>3 DEF SubmitAnswer, At, Only
  <2>2. /\ ui' \in Session /\ ui'.applyJob \in DOMAIN jobs \cup {None}
        /\ ui'.inspect = ui.inspect /\ ui'.content = ui.content /\ ui'.name = ui.name
        /\ ui'.preview = ui.preview /\ ui'.previewStatus = ui.previewStatus
        /\ ui'.previewInvalid = ui.previewInvalid /\ ui'.applyPlan = ui.applyPlan
        /\ ui.applyStatus # "idle" => ui'.applyStatus # "idle"
    <3> DEFINE u == OnApplyJob(ui, calls[c].res.plan)
               v == [u EXCEPT !.applyStatus = "running"]
               f == [ui EXCEPT !.applyStatus = "failed"]
    <3>1. CASE calls[c].res.type = "job" /\ ui' \in {u, v}
      <4>1. calls[c].res.plan \in DOMAIN jobs
        BY <2>1, <3>1 DEF RequestsOK, CallsAreSound, CallIsSound
      <4>2. /\ u \in Session /\ u.applyJob \in DOMAIN jobs \cup {None}
            /\ u.inspect = ui.inspect /\ u.content = ui.content /\ u.name = ui.name
            /\ u.preview = ui.preview /\ u.previewStatus = ui.previewStatus
            /\ u.previewInvalid = ui.previewInvalid /\ u.applyPlan = ui.applyPlan
            /\ ui.applyStatus # "idle" => u.applyStatus # "idle"
        BY <1>1, <4>1, HearsJob
      <4> HIDE DEF u
      <4>3. /\ v \in Session /\ v.applyJob = u.applyJob
            /\ v.inspect = u.inspect /\ v.content = u.content /\ v.name = u.name
            /\ v.preview = u.preview /\ v.previewStatus = u.previewStatus
            /\ v.applyPlan = u.applyPlan /\ v.applyStatus = "running"
        BY <4>2 DEF Session
      <4>4. v.previewInvalid = u.previewInvalid  BY <4>2 DEF Session
      <4> HIDE DEF v
      <4> QED BY <3>1, <4>2, <4>3, <4>4
    <3>2. CASE ui' \in {ui, f}
      <4>1. /\ f \in Session /\ f.applyJob = ui.applyJob
            /\ f.inspect = ui.inspect /\ f.content = ui.content /\ f.name = ui.name
            /\ f.preview = ui.preview /\ f.previewStatus = ui.previewStatus
            /\ f.applyPlan = ui.applyPlan /\ f.applyStatus = "failed"
        BY <1>1 DEF Session
      <4>2. f.previewInvalid = ui.previewInvalid  BY <1>1 DEF Session
      <4> HIDE DEF f
      <4> QED BY <1>1, <3>2, <4>1, <4>2
    <3> HIDE DEF u
    <3> QED BY <1>3, <3>1, <3>2 DEF SubmitAnswer, Only, OfPlan, u
  <2>3. FormIsShown' /\ ShownStays  BY <2>2 DEF FormIsShown, ShownStays, Submitted
  <2> QED BY <2>1, <2>2, <2>3, Freed DEF Keeps
<1>4. ASSUME NEW c \in Call, Lose(c) PROVE Keeps
  <2>1. calls[c] # None /\ Answer(c, Refusal)
        /\ UNCHANGED <<serviceEpoch, clock, home, spaces, plans, issued, jobs, work, ui>>
    BY <1>4 DEF Lose
  <2>2. /\ calls' \in [Call -> Requests \cup {None}]
        /\ calls'[c] \in {None, [calls[c] EXCEPT !.stage = "answered", !.res = Refusal]}
        /\ \A d \in Call \ {c} : calls'[d] = calls[d]
    BY <2>1, ConstantFacts, AnswerFacts
  <2>3. calls[c] \in Requests  BY <2>1 DEF BlueprintTypeOK
  <2>4. Follows(c)  BY <2>1, <2>2, <2>3 DEF Follows, Requests
  <2>5. \A d \in Call : Follows(d)
    <3> TAKE d \in Call
    <3>1. CASE d = c  BY <2>4, <3>1
    <3>2. CASE d # c
      <4>1. calls'[d] = calls[d]  BY <2>2, <3>2
      <4> QED BY <4>1 DEF Follows
    <3> QED BY <3>1, <3>2
  <2>6. FormIsShown' /\ ShownStays  BY <2>1 DEF FormIsShown, ShownStays, Submitted
  <2> QED BY <1>1, <2>1, <2>2, <2>5, <2>6 DEF Keeps
<1>5. CASE Poll
  <2> DEFINE outdated == ui.epoch # serviceEpoch /\ ui.preview # None
                           /\ ui.preview.obs.epoch # serviceEpoch
             b == ui.previewInvalid \/ outdated
             heard == [ui EXCEPT !.epoch = serviceEpoch, !.previewInvalid = b]
  <2>1. /\ ui' = Heard(heard) /\ calls' \in {GiveUp({"preview"}), calls}
        /\ UNCHANGED <<serviceEpoch, clock, home, spaces, plans, issued, jobs, work>>
    BY <1>5 DEF Poll, Only
  <2>2. b \in BOOLEAN /\ (ui.previewInvalid => b)  OBVIOUS
  <2> HIDE DEF b
  <2>3. /\ heard \in Session /\ heard.applyJob = ui.applyJob
        /\ heard.inspect = ui.inspect /\ heard.content = ui.content /\ heard.name = ui.name
        /\ heard.preview = ui.preview /\ heard.previewStatus = ui.previewStatus
        /\ heard.applyPlan = ui.applyPlan /\ heard.applyStatus = ui.applyStatus
    BY <1>1, <2>2 DEF Session, BlueprintTypeOK
  <2>4. ui.previewInvalid => heard.previewInvalid  BY <1>1, <2>2 DEF Session
  <2> HIDE DEF heard
  <2>5. /\ ui' \in Session /\ ui'.applyJob \in DOMAIN jobs \cup {None}
        /\ ui'.inspect = ui.inspect /\ ui'.content = ui.content /\ ui'.name = ui.name
        /\ ui'.preview = ui.preview /\ ui'.previewStatus = ui.previewStatus
        /\ (ui.previewInvalid => ui'.previewInvalid) /\ ui'.applyPlan = ui.applyPlan
        /\ ui.applyStatus # "idle" => ui'.applyStatus # "idle"
    <3>1. CASE jobs = <<>>
      <4>1. ui' = heard  BY <2>1, <3>1 DEF Heard
      <4> QED BY <1>1, <2>3, <2>4, <4>1
    <3>2. CASE jobs # <<>>
      <4> DEFINE j == IF heard.applyJob = None THEN 1 ELSE heard.applyJob
      <4>1. ui' = OnApplyJob(heard, j)  BY <2>1, <3>2 DEF Heard
      <4>2. 1 \in DOMAIN jobs  BY <3>2 DEF BlueprintTypeOK
      <4>3. j \in DOMAIN jobs  BY <1>1, <2>3, <4>2
      <4> HIDE DEF j
      <4> QED BY <1>1, <2>3, <2>4, <4>1, <4>3, HearsJob
    <3> QED BY <3>1, <3>2
  <2>6. FormIsShown' /\ ShownStays  BY <2>5 DEF FormIsShown, ShownStays, Submitted
  <2>7. calls' \in [Call -> Requests \cup {None}] /\ \A d \in Call : Follows(d)
    <3>1. CASE calls' = calls
      <4>1. \A d \in Call : calls'[d] = calls[d]  BY <3>1
      <4> QED BY <3>1, <4>1 DEF Follows, BlueprintTypeOK
    <3> QED BY <2>1, <3>1, GaveUp
  <2> QED BY <2>1, <2>5, <2>6, <2>7 DEF Keeps
<1> QED BY <1>2, <1>3, <1>4, <1>5

\* A plan is shown for the first time: nobody else has been told of it.
LEMMA ShowKeeps ==
  ASSUME BlueprintTypeOK, FormIsShown, RequestsOK, NEW c \in Call, PreviewAnswer(c)
  PROVE  /\ BlueprintTypeOK' /\ FormIsShown' /\ RequestsOK'
         /\ UNCHANGED <<serviceEpoch, clock, home, spaces, plans, issued, jobs, work>>
<1> DEFINE r == calls[c].res
           shown == [plan |-> r.plan, expires |-> r.expires, obs |-> r.obs,
                     content |-> calls[c].content, name |-> calls[c].name]
<1>1. ui \in Session /\ ui.applyJob \in DOMAIN jobs \cup {None} /\ None \notin Shown
      /\ None \notin Nat
  BY BlueprintNone DEF BlueprintTypeOK
<1>2. /\ calls[c] # None /\ calls[c].kind = "preview" /\ calls[c].stage = "answered" /\ Free(c)
      /\ UNCHANGED <<serviceEpoch, clock, home, spaces, plans, issued, jobs, work>>
  BY DEF PreviewAnswer, At, Only
<1>3. /\ calls' \in [Call -> Requests \cup {None}] /\ calls'[c] = None
      /\ \A d \in Call \ {c} : calls'[d] = calls[d]
      /\ \A d \in Call : Follows(d)
  BY <1>2, Freed
<1>4. \/ ui' = ui
      \/ ui' = [ui EXCEPT !.previewStatus = "error"]
      \/ /\ r.type # "error" /\ calls[c].content = ui.content /\ calls[c].name = ui.name
         /\ ui' = [ui EXCEPT !.previewStatus = "ready", !.previewInvalid = FALSE, !.preview = shown]
  BY DEF PreviewAnswer, Only
<1>5. CASE ui' = ui
  <2>1. FormIsShown' /\ ShownStays  BY <1>5 DEF FormIsShown, ShownStays, Submitted
  <2> QED BY <1>1, <1>2, <1>3, <1>5, <2>1, KeepsAll DEF Keeps
<1>6. CASE ui' = [ui EXCEPT !.previewStatus = "error"]
  <2>1. ui' \in Session /\ ui'.applyJob = ui.applyJob /\ ui'.inspect = ui.inspect
        /\ ui'.content = ui.content /\ ui'.preview = ui.preview /\ ui'.previewStatus = "error"
        /\ ui'.applyPlan = ui.applyPlan /\ ui'.applyStatus = ui.applyStatus
    BY <1>1, <1>6 DEF Session, Status
  <2>2. FormIsShown' /\ ShownStays  BY <2>1 DEF FormIsShown, ShownStays, Submitted
  <2> QED BY <1>1, <1>2, <1>3, <2>1, <2>2, KeepsAll DEF Keeps
<1>7. CASE /\ r.type # "error" /\ calls[c].content = ui.content /\ calls[c].name = ui.name
           /\ ui' = [ui EXCEPT !.previewStatus = "ready", !.previewInvalid = FALSE, !.preview = shown]
  <2>1. /\ CallIsSound(c) /\ calls[c] \in Requests /\ r \in Answered
    BY <1>2 DEF RequestsOK, CallsAreSound, BlueprintTypeOK, Requests
  <2>2. /\ calls[c].content \in Content /\ calls[c].name \in Name /\ r.obs \in Saw
        /\ r.type \in {"plan", "noplan"} /\ (r.type = "noplan" => r.plan = None)
    BY <1>2, <1>7, <2>1 DEF CallIsSound, Answered
  <2>3. r.type = "plan" => Offers(c)  BY <1>2 DEF Offers
  <2>4. /\ r.plan \in 1..issued \cup {None} /\ r.expires \in Nat
        /\ r.plan # None => /\ ~WasSubmitted(r.plan)
                            /\ \A d \in Call : Offers(d) /\ calls[d].res.plan = r.plan => d = c
                            /\ \A p \in plans : p.id = r.plan =>
                                 IsOf(p, calls[c].content, calls[c].name, r.obs)
    BY <2>1, <2>2, <2>3 DEF RequestsOK, AnswersAreNew, Answered
  <2>5. 1..issued \subseteq 1..MaxPlan  BY ConstantFacts DEF BlueprintTypeOK
  <2>6. /\ shown \in Shown /\ shown.plan = r.plan /\ shown.content = ui.content
        /\ shown.name = ui.name /\ shown.obs = r.obs
    BY <1>7, <2>2, <2>4, <2>5 DEF Shown
  <2> HIDE DEF shown
  <2>7. /\ ui' \in Session /\ ui'.applyJob = ui.applyJob /\ ui'.inspect = ui.inspect
        /\ ui'.content = ui.content /\ ui'.name = ui.name /\ ui'.preview = shown
    BY <1>1, <1>7, <2>6 DEF Session, Status
  <2>8. BlueprintTypeOK'  BY <1>1, <1>2, <1>3, <2>7 DEF BlueprintTypeOK
  <2>9. FormIsShown'  BY <1>1, <2>6, <2>7 DEF FormIsShown
  <2>10. \A plan : WasSubmitted(plan)' => WasSubmitted(plan)
    BY <1>2, <1>3, FollowsFacts DEF WasSubmitted
  <2>11. ShownIsKnown'
    <3> SUFFICES ASSUME r.plan # None
                 PROVE  /\ shown.plan \in 1..issued' /\ ~WasSubmitted(ui.preview.plan)'
                        /\ \A p \in plans' : p.id = shown.plan =>
                             IsOf(p, shown.content, shown.name, shown.obs)
      BY <2>6, <2>7 DEF ShownIsKnown
    <3>1. ~WasSubmitted(ui.preview.plan)'  BY <2>4, <2>6, <2>7, <2>10
    <3> QED BY <1>2, <1>7, <2>4, <2>6, <3>1
  <2>12. Settled /\ SameEpoch  BY <1>2 DEF Settled, SameEpoch
  <2>13. CallsAreSound' /\ AnswersAreNew'
    <3>1. CallsAreSound'
      <4> SUFFICES ASSUME NEW d \in Call, calls'[d] # None PROVE CallIsSound(d)'
        BY DEF CallsAreSound
      <4>1. calls'[d] = calls[d]  BY <1>3
      <4>2. CallIsSound(d)  BY <4>1 DEF RequestsOK, CallsAreSound
      <4> QED BY <1>2, <4>1, <4>2 DEF CallIsSound, Refusal
    <3>2. AnswersAreNew'
      <4> SUFFICES ASSUME NEW d \in Call, Offers(d)'
                   PROVE  /\ calls'[d].res.plan \in 1..issued' /\ ~WasSubmitted(calls[d].res.plan)'
                          /\ \A f \in Call : Offers(f)' /\ calls'[f].res.plan = calls'[d].res.plan => f = d
                          /\ ui'.preview # None => ui'.preview.plan # calls'[d].res.plan
                          /\ \A p \in plans' : p.id = calls'[d].res.plan =>
                               IsOf(p, calls'[d].content, calls'[d].name, calls'[d].res.obs)
        BY DEF AnswersAreNew
      <4>1. d # c /\ calls'[d] = calls[d]  BY <1>3 DEF Offers
      <4>2. Offers(d)  BY <4>1 DEF Offers
      <4>3. /\ calls[d].res.plan \in 1..issued /\ ~WasSubmitted(calls[d].res.plan)
            /\ \A f \in Call : Offers(f) /\ calls[f].res.plan = calls[d].res.plan => f = d
            /\ \A p \in plans : p.id = calls[d].res.plan =>
                 IsOf(p, calls[d].content, calls[d].name, calls[d].res.obs)
        BY <4>2 DEF RequestsOK, AnswersAreNew
      <4>4. ~WasSubmitted(calls[d].res.plan)'  BY <2>10, <4>1, <4>3
      <4>5. \A f \in Call : Offers(f)' /\ calls'[f].res.plan = calls'[d].res.plan => f = d
        BY <1>3, <4>1, <4>3, FollowsFacts
      <4>6. ui'.preview.plan # calls'[d].res.plan
        BY <1>1, <2>4, <2>6, <2>7, <4>1, <4>2, <4>3
      <4> QED BY <1>2, <4>1, <4>3, <4>4, <4>5, <4>6
    <3> QED BY <3>1, <3>2
  <2> QED BY <1>2, <2>8, <2>9, <2>11, <2>13 DEF RequestsOK
<1> QED BY <1>4, <1>5, <1>6, <1>7

\* The click: what is sent is the plan that is shown, or nothing.
LEMMA ClickFacts ==
  ASSUME BlueprintTypeOK, RequestsOK, ApplyClick
  PROVE  /\ UNCHANGED <<serviceEpoch, clock, home, spaces, plans, issued, jobs, work>>
         /\ ui.preview \in Shown /\ ui.preview.plan \in 1..issued /\ ~Submitted(ui)
         /\ ~ui.previewInvalid
         /\ \/ ui' = [ui EXCEPT !.previewInvalid = TRUE] /\ UNCHANGED calls
            \/ \E c \in Call :
                 /\ calls[c] = None /\ calls' \in [Call -> Requests \cup {None}]
                 /\ \A d \in Call \ {c} : calls'[d] = calls[d]
                 /\ calls'[c].kind = "submit" /\ calls'[c].stage = "sent" /\ calls'[c].res = Refusal
                 /\ calls'[c].plan = ui.preview.plan /\ calls'[c].obs = ui.preview.obs
                 /\ ui' = [ui EXCEPT !.applyStatus = "submitting", !.applyPlan = ui.preview.plan,
                                     !.applyJob = None]
<1>1. ui.preview # None /\ ui.preview.plan # None /\ ~Submitted(ui) /\ ~ui.previewInvalid
      /\ UNCHANGED <<serviceEpoch, clock, home, spaces, plans, issued, jobs, work>>
  BY DEF ApplyClick, CanApply, Only
<1>2. ui.preview \in Shown  BY <1>1 DEF BlueprintTypeOK, Session
<1>3. ui.preview.plan \in 1..issued  BY <1>1 DEF RequestsOK, ShownIsKnown
<1>4. CASE ui' = [ui EXCEPT !.previewInvalid = TRUE] /\ UNCHANGED calls
  BY <1>1, <1>2, <1>3, <1>4
<1>5. CASE /\ Send({}, "submit", None, None, ui.preview.plan, ui.preview.obs)
           /\ ui' = [ui EXCEPT !.applyStatus = "submitting", !.applyPlan = ui.preview.plan,
                               !.applyJob = None]
  <2> DEFINE r == [kind |-> "submit", live |-> TRUE, stage |-> "sent", epoch |-> ui.epoch,
                   content |-> None, name |-> None, plan |-> ui.preview.plan,
                   obs |-> ui.preview.obs, rev |-> NoRevision, res |-> Refusal]
  <2>1. PICK c \in Call : calls[c] = None /\ calls' = [GiveUp({}) EXCEPT ![c] = r]
    BY <1>5 DEF Send
  <2>2. \A d \in Call : GiveUp({})[d] = calls[d]  BY DEF GiveUp
  <2>3. GiveUp({}) \in [Call -> Requests \cup {None}]  BY GiveUpFacts
  <2>4. r \in Requests
    <3>1. ui.epoch \in Nat /\ ui.preview.plan \in 0..MaxPlan \cup {None} /\ ui.preview.obs \in Saw
      BY <1>2, ConstantFacts DEF BlueprintTypeOK, Session, Shown
    <3> QED BY <3>1, ConstantFacts DEF Requests
  <2>5. /\ r.kind = "submit" /\ r.stage = "sent" /\ r.res = Refusal
        /\ r.plan = ui.preview.plan /\ r.obs = ui.preview.obs
    OBVIOUS
  <2> HIDE DEF r
  <2>6. calls' \in [Call -> Requests \cup {None}] /\ calls'[c] = r
        /\ \A d \in Call \ {c} : calls'[d] = calls[d]
    BY <2>1, <2>2, <2>3, <2>4
  <2> QED BY <1>1, <1>2, <1>3, <1>5, <2>1, <2>5, <2>6
<1> QED BY <1>4, <1>5 DEF ApplyClick, Only

LEMMA ClickKeeps ==
  ASSUME BlueprintTypeOK, FormIsShown, RequestsOK, ApplyClick
  PROVE  BlueprintTypeOK' /\ FormIsShown' /\ RequestsOK'
<1>1. /\ UNCHANGED <<serviceEpoch, clock, home, spaces, plans, issued, jobs, work>>
      /\ ui.preview \in Shown /\ ui.preview.plan \in 1..issued /\ ~Submitted(ui)
      /\ ~ui.previewInvalid
  BY ClickFacts
<1>2. ui \in Session /\ ui.applyJob \in DOMAIN jobs \cup {None} /\ None \notin Shown
      /\ None \notin Nat /\ None \notin Requests
  BY BlueprintNone DEF BlueprintTypeOK
<1>3. CASE ui' = [ui EXCEPT !.previewInvalid = TRUE] /\ UNCHANGED calls
  <2>1. ui' \in Session /\ ui'.applyJob = ui.applyJob /\ ui'.inspect = ui.inspect
        /\ ui'.content = ui.content /\ ui'.preview = ui.preview /\ ui'.previewInvalid
        /\ ui'.applyPlan = ui.applyPlan /\ ui'.applyStatus = ui.applyStatus
    BY <1>2, <1>3 DEF Session
  <2>2. FormIsShown' /\ ShownStays  BY <2>1 DEF FormIsShown, ShownStays, Submitted
  <2>3. \A c \in Call : calls'[c] = calls[c]  BY <1>3
  <2>4. calls' \in [Call -> Requests \cup {None}] /\ \A c \in Call : Follows(c)
    BY <1>3, <2>3 DEF Follows, BlueprintTypeOK
  <2> QED BY <1>1, <1>2, <2>1, <2>2, <2>4, KeepsAll DEF Keeps
<1>4. CASE \E c \in Call :
             /\ calls[c] = None /\ calls' \in [Call -> Requests \cup {None}]
             /\ \A d \in Call \ {c} : calls'[d] = calls[d]
             /\ calls'[c].kind = "submit" /\ calls'[c].stage = "sent" /\ calls'[c].res = Refusal
             /\ calls'[c].plan = ui.preview.plan /\ calls'[c].obs = ui.preview.obs
             /\ ui' = [ui EXCEPT !.applyStatus = "submitting", !.applyPlan = ui.preview.plan,
                                 !.applyJob = None]
  <2> PICK c \in Call :
             /\ calls[c] = None /\ calls' \in [Call -> Requests \cup {None}]
             /\ \A d \in Call \ {c} : calls'[d] = calls[d]
             /\ calls'[c].kind = "submit" /\ calls'[c].stage = "sent" /\ calls'[c].res = Refusal
             /\ calls'[c].plan = ui.preview.plan /\ calls'[c].obs = ui.preview.obs
             /\ ui' = [ui EXCEPT !.applyStatus = "submitting", !.applyPlan = ui.preview.plan,
                                 !.applyJob = None]
    BY <1>4
  <2>1. ui.preview.plan \in 1..MaxPlan /\ ui.preview.obs \in Saw
    BY <1>1, SmallFacts DEF Shown
  <2>2. /\ ui' \in Session /\ ui'.applyJob = None /\ ui'.inspect = ui.inspect
        /\ ui'.content = ui.content /\ ui'.name = ui.name /\ ui'.preview = ui.preview
        /\ ui'.previewStatus = ui.previewStatus
        /\ ui'.applyPlan = ui.preview.plan /\ ui'.applyStatus = "submitting"
    BY <1>2, <2>1 DEF Session
  <2>3. ui'.previewInvalid = ui.previewInvalid  BY <1>2 DEF Session
  <2>4. BlueprintTypeOK'  BY <1>1, <2>2 DEF BlueprintTypeOK
  <2>5. FormIsShown'  BY <2>2, <2>3 DEF FormIsShown
  <2>6. CallsAreSound'
    <3> SUFFICES ASSUME NEW d \in Call, calls'[d] # None PROVE CallIsSound(d)'
      BY DEF CallsAreSound
    <3>1. CASE d = c
      BY <1>1, <2>1, <3>1 DEF CallIsSound, Refusal
    <3>2. CASE d # c
      <4>1. calls'[d] = calls[d]  BY <3>2
      <4>2. CallIsSound(d)  BY <4>1 DEF RequestsOK, CallsAreSound
      <4> QED BY <1>1, <4>1, <4>2 DEF CallIsSound, Refusal
    <3> QED BY <3>1, <3>2
  <2>7. \A plan : WasSubmitted(plan)' => WasSubmitted(plan) \/ plan = ui.preview.plan
    BY <1>1 DEF WasSubmitted
  <2>8. \A d \in Call : Offers(d)' => Offers(d) /\ calls'[d] = calls[d]
    BY DEF Offers
  <2>9. AnswersAreNew'
    <3> SUFFICES ASSUME NEW d \in Call, Offers(d)'
                 PROVE  /\ calls'[d].res.plan \in 1..issued' /\ ~WasSubmitted(calls[d].res.plan)'
                        /\ \A f \in Call : Offers(f)' /\ calls'[f].res.plan = calls'[d].res.plan => f = d
                        /\ ui'.preview # None => ui'.preview.plan # calls'[d].res.plan
                        /\ \A p \in plans' : p.id = calls'[d].res.plan =>
                             IsOf(p, calls'[d].content, calls'[d].name, calls'[d].res.obs)
      BY DEF AnswersAreNew
    <3>1. Offers(d) /\ calls'[d] = calls[d]  BY <2>8
    <3>2. /\ calls[d].res.plan \in 1..issued /\ ~WasSubmitted(calls[d].res.plan)
          /\ \A f \in Call : Offers(f) /\ calls[f].res.plan = calls[d].res.plan => f = d
          /\ ui.preview.plan # calls[d].res.plan
          /\ \A p \in plans : p.id = calls[d].res.plan =>
               IsOf(p, calls[d].content, calls[d].name, calls[d].res.obs)
      BY <1>1, <1>2, <3>1 DEF RequestsOK, AnswersAreNew
    <3>3. ~WasSubmitted(calls[d].res.plan)'  BY <2>7, <3>1, <3>2
    <3> QED BY <1>1, <2>2, <2>8, <3>1, <3>2, <3>3
  <2>10. ShownIsKnown'
    <3>1. Submitted(ui)'  BY <2>2 DEF Submitted
    <3> HIDE DEF Submitted
    <3> QED BY <1>1, <1>2, <2>2, <3>1 DEF RequestsOK, ShownIsKnown
  <2> QED BY <2>4, <2>5, <2>6, <2>9, <2>10 DEF RequestsOK
<1> QED BY <1>3, <1>4, ClickFacts

-----------------------------------------------------------------------------
(* What the Supervisor answers.                                              *)

LEMMA OneServed ==
  ASSUME BlueprintTypeOK, PlansOK, RequestsOK, NEW c \in Call, UNCHANGED <<ui, serviceEpoch>>,
         \A d \in Call \ {c} : calls'[d] = calls[d],
         calls'[c] # None => CallIsSound(c)',
         issued' \in {issued, issued + 1}, \A p \in plans' : p \in plans \/ p.id = issued + 1,
         Offers(c)' => /\ calls'[c].res.plan = issued + 1 /\ issued' = issued + 1
                       /\ \A p \in plans' : p.id = issued + 1 =>
                            IsOf(p, calls'[c].content, calls'[c].name, calls'[c].res.obs),
         \A plan : WasSubmitted(plan)' => WasSubmitted(plan),
         DOMAIN jobs \subseteq DOMAIN jobs'
  PROVE  RequestsOK'
<1>1. issued \in Nat /\ None \notin Nat  BY BlueprintNone DEF BlueprintTypeOK
<1>2. CallsAreSound'
  <2> SUFFICES ASSUME NEW d \in Call \ {c}, calls'[d] # None PROVE CallIsSound(d)'
    BY DEF CallsAreSound
  <2>1. calls'[d] = calls[d]  OBVIOUS
  <2>2. CallIsSound(d)  BY <2>1 DEF RequestsOK, CallsAreSound
  <2>3. calls[d].plan \in 1..issued => calls[d].plan \in 1..issued'  BY <1>1
  <2> QED BY <2>1, <2>2, <2>3 DEF CallIsSound, Refusal
<1>3. ~WasSubmitted(issued + 1)
  <2>1. \A j \in DOMAIN jobs : jobs[j].plan # issued + 1
    BY <1>1, JobFacts DEF PlansOK, PlansAreIssued, ApplyJob
  <2>2. \A d \in Call : calls[d] # None /\ calls[d].kind = "submit" => calls[d].plan # issued + 1
    BY <1>1 DEF RequestsOK, CallsAreSound, CallIsSound
  <2> QED BY <2>1, <2>2 DEF WasSubmitted
<1>4. \A d \in Call \ {c} : Offers(d)' => Offers(d)  BY DEF Offers
<1>5. AnswersAreNew'
  <2> SUFFICES ASSUME NEW d \in Call, Offers(d)'
               PROVE  /\ calls'[d].res.plan \in 1..issued' /\ ~WasSubmitted(calls[d].res.plan)'
                      /\ \A f \in Call : Offers(f)' /\ calls'[f].res.plan = calls'[d].res.plan => f = d
                      /\ ui'.preview # None => ui'.preview.plan # calls'[d].res.plan
                      /\ \A p \in plans' : p.id = calls'[d].res.plan =>
                           IsOf(p, calls'[d].content, calls'[d].name, calls'[d].res.obs)
    BY DEF AnswersAreNew
  <2>1. \A f \in Call \ {c} : Offers(f)' =>
          calls'[f] = calls[f] /\ calls[f].res.plan \in 1..issued
    BY <1>4 DEF RequestsOK, AnswersAreNew
  <2>2. CASE d = c
    <3>1. calls'[d].res.plan = issued + 1  BY <2>2
    <3>2. ~WasSubmitted(calls[d].res.plan)'  BY <1>3, <3>1
    <3>3. \A f \in Call : Offers(f)' /\ calls'[f].res.plan = calls'[d].res.plan => f = d
      BY <1>1, <2>1, <2>2, <3>1
    <3>4. ui'.preview # None => ui'.preview.plan # calls'[d].res.plan
      BY <1>1, <3>1 DEF RequestsOK, ShownIsKnown
    <3> QED BY <1>1, <2>2, <3>1, <3>2, <3>3, <3>4
  <2>3. CASE d # c
    <3>1. Offers(d) /\ calls'[d] = calls[d]  BY <1>4, <2>3
    <3>2. /\ calls[d].res.plan \in 1..issued /\ ~WasSubmitted(calls[d].res.plan)
          /\ \A f \in Call : Offers(f) /\ calls[f].res.plan = calls[d].res.plan => f = d
          /\ ui.preview # None => ui.preview.plan # calls[d].res.plan
          /\ \A p \in plans : p.id = calls[d].res.plan =>
               IsOf(p, calls[d].content, calls[d].name, calls[d].res.obs)
      BY <3>1 DEF RequestsOK, AnswersAreNew
    <3>3. ~WasSubmitted(calls[d].res.plan)'  BY <3>1, <3>2
    <3>4. \A f \in Call : Offers(f)' /\ calls'[f].res.plan = calls'[d].res.plan => f = d
      BY <1>1, <1>4, <2>1, <3>1, <3>2
    <3>5. calls[d].res.plan \in 1..issued' /\ calls[d].res.plan # issued + 1  BY <1>1, <3>2
    <3> QED BY <3>1, <3>2, <3>3, <3>4, <3>5
  <2> QED BY <2>2, <2>3
<1>6. ShownIsKnown'
  <2> SUFFICES ASSUME ui.preview # None, ui.preview.plan # None
               PROVE  /\ ui.preview.plan \in 1..issued'
                      /\ WasSubmitted(ui.preview.plan)' => Submitted(ui)
                      /\ \A p \in plans' : p.id = ui.preview.plan =>
                           IsOf(p, ui.preview.content, ui.preview.name, ui.preview.obs)
    BY DEF ShownIsKnown, Submitted
  <2> HIDE DEF Submitted
  <2>1. /\ ui.preview.plan \in 1..issued
        /\ WasSubmitted(ui.preview.plan) => Submitted(ui)
        /\ \A p \in plans : p.id = ui.preview.plan =>
             IsOf(p, ui.preview.content, ui.preview.name, ui.preview.obs)
    BY DEF RequestsOK, ShownIsKnown
  <2>2. WasSubmitted(ui.preview.plan)' => WasSubmitted(ui.preview.plan)  OBVIOUS
  <2>3. ui.preview.plan \in 1..issued' /\ ui.preview.plan # issued + 1  BY <1>1, <2>1
  <2> QED BY <2>1, <2>2, <2>3
<1> QED BY <1>2, <1>5, <1>6 DEF RequestsOK

LEMMA AnswerIs ==
  ASSUME BlueprintTypeOK, NEW c \in Call, calls[c] # None, NEW STATE res, res \in Answered, Answer(c, res)
  PROVE  /\ \A d \in Call \ {c} : calls'[d] = calls[d]
         /\ calls'[c] # None =>
              /\ calls'[c].kind = calls[c].kind /\ calls'[c].plan = calls[c].plan
              /\ calls'[c].content = calls[c].content /\ calls'[c].name = calls[c].name
              /\ calls'[c].obs = calls[c].obs
              /\ calls'[c].stage = "answered" /\ calls'[c].res = res
<1>1. calls'[c] \in {None, [calls[c] EXCEPT !.stage = "answered", !.res = res]}
      /\ \A d \in Call \ {c} : calls'[d] = calls[d]
  <2>1. calls' = [calls EXCEPT ![c] = IF calls[c].live
                    THEN [calls[c] EXCEPT !.stage = "answered", !.res = res] ELSE None]
    BY DEF Answer
  <2> QED BY <2>1 DEF BlueprintTypeOK
<1>2. calls[c] \in Requests  BY DEF BlueprintTypeOK
<1> QED BY <1>1, <1>2 DEF Requests

LEMMA ServeAnswers ==
  ASSUME BlueprintTypeOK, PlansOK, RequestsOK, Serve, UNCHANGED ui
  PROVE  RequestsOK'
<1> PICK c \in Call : PreviewArrives(c) \/ Gate(c) \/ Stage(c) \/ SubmitArrives(c)  BY DEF Serve
<1>1. /\ calls[c] # None /\ calls[c] \in Requests /\ calls[c].res \in Answered /\ CallIsSound(c)
      /\ calls[c].stage # "answered" /\ UNCHANGED serviceEpoch
  BY DEF PreviewArrives, Gate, Stage, SubmitArrives, At, BlueprintTypeOK, Requests,
         RequestsOK, CallsAreSound
<1>2. Refusal.type = "error" /\ Refusal.plan = None /\ Refusal' = Refusal /\ Refusal \in Answered
      /\ Ttl = 1 /\ None \notin Requests /\ issued \in Nat
  BY ConstantFacts, BlueprintNone DEF Refusal, Ttl, BlueprintTypeOK
<1>3. CASE PreviewArrives(c) \/ Gate(c)
  <2>1. UNCHANGED <<issued, jobs>> /\ plans' \subseteq plans /\ calls[c].kind = "preview"
    BY <1>3 DEF PreviewArrives, Gate, At, Live
  <2>2. CASE Answer(c, Refusal)
    <3>1. /\ \A d \in Call \ {c} : calls'[d] = calls[d]
          /\ calls'[c] # None =>
              /\ calls'[c].kind = "preview"
              /\ calls'[c].content = calls[c].content /\ calls'[c].name = calls[c].name
              /\ calls'[c].stage = "answered" /\ calls'[c].res = Refusal
      BY <1>1, <1>2, <2>1, <2>2, AnswerIs
    <3>2. calls'[c] # None => CallIsSound(c)'
      BY <1>1, <1>2, <2>1, <3>1 DEF CallIsSound
    <3>3. ~Offers(c)'  BY <1>2, <3>1 DEF Offers
    <3>4. \A plan : WasSubmitted(plan)' => WasSubmitted(plan)
      BY <2>1, <3>1 DEF WasSubmitted
    <3> QED BY <1>1, <2>1, <3>1, <3>2, <3>3, <3>4, OneServed
  <2>3. CASE NoPlan(c) /\ calls[c].stage = "gate"
    <3> DEFINE res == [calls[c].res EXCEPT !.type = "noplan"]
    <3>1. /\ res \in Answered /\ res.type = "noplan" /\ res.plan = None /\ res.obs \in Saw
      BY <1>1, <2>3 DEF Answered, CallIsSound
    <3>2. Answer(c, res)  BY <2>3 DEF NoPlan
    <3> HIDE DEF res
    <3>3. /\ \A d \in Call \ {c} : calls'[d] = calls[d]
          /\ calls'[c] # None =>
              /\ calls'[c].kind = "preview"
              /\ calls'[c].content = calls[c].content /\ calls'[c].name = calls[c].name
              /\ calls'[c].stage = "answered" /\ calls'[c].res = res
      BY <1>1, <2>1, <3>1, <3>2, AnswerIs
    <3>4. calls'[c] # None => CallIsSound(c)'
      BY <1>1, <2>1, <3>1, <3>3 DEF CallIsSound
    <3>5. ~Offers(c)'  BY <3>1, <3>3 DEF Offers
    <3>6. \A plan : WasSubmitted(plan)' => WasSubmitted(plan)
      BY <2>1, <3>3 DEF WasSubmitted
    <3> QED BY <1>1, <2>1, <3>3, <3>4, <3>5, <3>6, OneServed
  <2>4. CASE calls' = [calls EXCEPT ![c].stage = "gate",
                                    ![c].res.obs = [epoch |-> serviceEpoch, rev |-> Revision]]
             /\ calls[c].stage = "sent"
    <3> DEFINE saw == [epoch |-> serviceEpoch, rev |-> Revision]
               r == [calls[c] EXCEPT !.stage = "gate", !.res = [calls[c].res EXCEPT !.obs = saw]]
    <3>1. saw \in Saw /\ saw.epoch = serviceEpoch  BY RevisionFacts DEF Saw, BlueprintTypeOK
    <3>2. /\ r.kind = "preview" /\ r.content = calls[c].content /\ r.name = calls[c].name
          /\ r.stage = "gate" /\ r.res.obs = saw /\ r.res.type = "error" /\ r.res.plan = None
      <4>1. calls[c].res = Refusal  BY <1>1, <2>4 DEF CallIsSound
      <4> HIDE DEF saw
      <4> QED BY <1>1, <1>2, <2>1, <4>1 DEF Requests, Answered
    <3>3. calls' = [calls EXCEPT ![c] = r]  BY <2>4
    <3> HIDE DEF r, saw
    <3>4. calls'[c] = r /\ \A d \in Call \ {c} : calls'[d] = calls[d]
      BY <3>3 DEF BlueprintTypeOK
    <3>5. CallIsSound(c)'
      BY <1>1, <2>1, <3>1, <3>2, <3>4 DEF CallIsSound
    <3>6. ~Offers(c)'  BY <3>2, <3>4 DEF Offers
    <3>7. \A plan : WasSubmitted(plan)' => WasSubmitted(plan)
      BY <2>1, <3>2, <3>4 DEF WasSubmitted
    <3> QED BY <1>1, <2>1, <3>4, <3>5, <3>6, <3>7, OneServed
  <2>5. CASE calls' = [calls EXCEPT ![c].stage = "capture", ![c].res.expires = clock + Ttl,
                                    ![c].rev = Revision]
             /\ calls[c].stage = "gate"
    <3> DEFINE t == clock + Ttl
               r == [calls[c] EXCEPT !.stage = "capture", !.res = [calls[c].res EXCEPT !.expires = t],
                                     !.rev = Revision]
    <3>1. /\ r.kind = "preview" /\ r.content = calls[c].content /\ r.name = calls[c].name
          /\ r.stage = "capture" /\ r.res.obs = calls[c].res.obs /\ r.res.type = calls[c].res.type
          /\ r.res.plan = None
      <4>1. calls[c].res.plan = None  BY <1>1, <2>5 DEF CallIsSound
      <4> HIDE DEF t
      <4> QED BY <1>1, <2>1, <4>1 DEF Requests, Answered
    <3>2. calls' = [calls EXCEPT ![c] = r]  BY <2>5
    <3> HIDE DEF r
    <3>3. calls'[c] = r /\ \A d \in Call \ {c} : calls'[d] = calls[d]
      BY <3>2 DEF BlueprintTypeOK
    <3>4. calls[c].res.obs \in Saw /\ calls[c].res.obs.epoch = serviceEpoch
      BY <1>1, <2>5 DEF CallIsSound
    <3>5. CallIsSound(c)'
      BY <1>1, <2>1, <3>1, <3>3, <3>4 DEF CallIsSound
    <3>6. ~Offers(c)'  BY <3>1, <3>3 DEF Offers
    <3>7. \A plan : WasSubmitted(plan)' => WasSubmitted(plan)
      BY <2>1, <3>1, <3>3 DEF WasSubmitted
    <3> QED BY <1>1, <2>1, <3>3, <3>5, <3>6, <3>7, OneServed
  <2> QED BY <1>3, <2>2, <2>3, <2>4, <2>5 DEF PreviewArrives, Gate, At
<1>4. CASE Stage(c)
  <2>1. /\ UNCHANGED jobs /\ calls[c].kind = "preview" /\ calls[c].stage = "capture"
        /\ calls[c].res.plan = None /\ calls[c].res.obs \in Saw
        /\ calls[c].res.obs.epoch = serviceEpoch
    BY <1>1, <1>4 DEF Stage, At, CallIsSound
  <2>2. ASSUME NEW STATE res, res \in Answered, Answer(c, res), res.type \in {"plan", "noplan"},
               res.obs = calls[c].res.obs, res.type = "noplan" => res.plan = None,
               issued' \in {issued, issued + 1}, \A p \in plans' : p \in plans \/ p.id = issued + 1,
               res.type = "plan" =>
                 /\ res.plan = issued + 1 /\ issued' = issued + 1
                 /\ \A p \in plans' : p.id = issued + 1 =>
                      IsOf(p, calls[c].content, calls[c].name, calls[c].res.obs)
        PROVE  RequestsOK'
    <3>1. /\ \A d \in Call \ {c} : calls'[d] = calls[d]
          /\ calls'[c] # None =>
              /\ calls'[c].kind = "preview"
              /\ calls'[c].content = calls[c].content /\ calls'[c].name = calls[c].name
              /\ calls'[c].stage = "answered" /\ calls'[c].res = res
      BY <1>1, <2>1, <2>2, AnswerIs
    <3>2. calls'[c] # None => CallIsSound(c)'
      BY <1>1, <2>1, <2>2, <3>1 DEF CallIsSound
    <3>3. Offers(c)' => /\ calls'[c].res.plan = issued + 1 /\ issued' = issued + 1
                        /\ \A p \in plans' : p.id = issued + 1 =>
                             IsOf(p, calls'[c].content, calls'[c].name, calls'[c].res.obs)
      BY <2>2, <3>1 DEF Offers
    <3>4. \A plan : WasSubmitted(plan)' => WasSubmitted(plan)
      BY <2>1, <3>1 DEF WasSubmitted
    <3> QED BY <1>1, <2>1, <2>2, <3>1, <3>2, <3>3, <3>4, OneServed
  <2>3. CASE NoPlan(c) /\ UNCHANGED <<plans, issued>>
    <3> DEFINE res == [calls[c].res EXCEPT !.type = "noplan"]
    <3>1. /\ res \in Answered /\ res.type = "noplan" /\ res.plan = None
          /\ res.obs = calls[c].res.obs
      BY <1>1, <2>1 DEF Answered
    <3>2. Answer(c, res)  BY <2>3 DEF NoPlan
    <3> HIDE DEF res
    <3> QED BY <2>2, <2>3, <3>1, <3>2
  <2> DEFINE n == issued + 1
             res == [calls[c].res EXCEPT !.type = "plan", !.plan = n]
             p == [id |-> n, content |-> calls[c].content, name |-> calls[c].name,
                   expires |-> calls[c].res.expires, obs |-> Observation(calls[c].rev)]
  <2>4. CASE issued' = n /\ plans' = plans \cup {p} /\ Answer(c, res)
    <3>1. n \in Nat /\ n = issued + 1  BY <1>2
    <3>2. /\ p.id = n /\ IsOf(p, calls[c].content, calls[c].name, calls[c].res.obs)
      BY <2>1 DEF IsOf, Observation
    <3> HIDE DEF n, p
    <3>3. /\ res \in Answered /\ res.type = "plan" /\ res.plan = n
          /\ res.obs = calls[c].res.obs
      BY <1>1, <3>1 DEF Answered
    <3> HIDE DEF res
    <3>4. \A q \in plans : q.id # n
      BY <1>2, <3>1 DEF PlansOK, PlansAreIssued, BlueprintTypeOK, Plan
    <3>5. /\ \A q \in plans' : q \in plans \/ q.id = n
          /\ \A q \in plans' : q.id = n =>
               IsOf(q, calls[c].content, calls[c].name, calls[c].res.obs)
      BY <2>4, <3>2, <3>4
    <3> QED BY <2>2, <2>4, <3>1, <3>3, <3>5
  <2> QED BY <1>4, <2>3, <2>4 DEF Stage
<1>5. CASE SubmitArrives(c)
  <2>1. /\ UNCHANGED <<plans, issued>> /\ calls[c].kind = "submit" /\ calls[c].stage = "sent"
        /\ calls[c].plan \in 1..issued /\ calls[c].obs \in Saw
    BY <1>1, <1>5 DEF SubmitArrives, At, CallIsSound
  <2>2. ASSUME NEW STATE res, res \in Answered, Answer(c, res), res.type \in {"error", "job"},
               res.type = "job" => res.plan \in DOMAIN jobs',
               DOMAIN jobs \subseteq DOMAIN jobs',
               \A j \in DOMAIN jobs' :
                 \/ j \in DOMAIN jobs /\ jobs'[j].plan = jobs[j].plan
                 \/ jobs'[j].plan = calls[c].plan
        PROVE  RequestsOK'
    <3>1. /\ \A d \in Call \ {c} : calls'[d] = calls[d]
          /\ calls'[c] # None =>
              /\ calls'[c].kind = "submit" /\ calls'[c].plan = calls[c].plan
              /\ calls'[c].obs = calls[c].obs
              /\ calls'[c].stage = "answered" /\ calls'[c].res = res
      BY <1>1, <2>1, <2>2, AnswerIs
    <3>2. calls'[c] # None => CallIsSound(c)'
      BY <1>1, <2>1, <2>2, <3>1 DEF CallIsSound
    <3>3. ~Offers(c)'  BY <3>1 DEF Offers
    <3>4. \A plan : WasSubmitted(plan)' => WasSubmitted(plan)
      BY <1>1, <2>1, <2>2, <3>1 DEF WasSubmitted
    <3> QED BY <1>1, <2>1, <2>2, <3>1, <3>2, <3>3, <3>4, OneServed
  <2>3. CASE Answer(c, Refusal) /\ UNCHANGED jobs
    BY <1>2, <2>2, <2>3
  <2> DEFINE r == NewJob(calls[c].plan, calls[c].obs)
             m == Len(jobs) + 1
             res == [Refusal EXCEPT !.type = "job", !.plan = m]
  <2>4. CASE jobs' = Append(jobs, r) /\ Answer(c, [Refusal EXCEPT !.type = "job", !.plan = Len(jobs')])
    <3>1. r \in ApplyJob /\ r.plan = calls[c].plan
      <4>1. calls[c].plan \in 0..MaxPlan  BY <2>1, ConstantFacts DEF BlueprintTypeOK
      <4> QED BY <2>1, <4>1 DEF NewJob, ApplyJob
    <3> HIDE DEF r
    <3>2. /\ DOMAIN jobs' = DOMAIN jobs \cup {m} /\ Len(jobs') = m /\ m \in Nat
          /\ jobs'[m] = r /\ \A i \in DOMAIN jobs : jobs'[i] = jobs[i]
      <4>1. Len(jobs') = m  BY <2>4 DEF BlueprintTypeOK
      <4> HIDE DEF m
      <4> QED BY <2>4, <3>1, <4>1, JobAdd
    <3> HIDE DEF m
    <3>3. res \in Answered /\ res.type = "job" /\ res.plan = m
      BY <3>2 DEF Refusal, Answered
    <3>4. Answer(c, res)  BY <2>4, <3>2
    <3> HIDE DEF res
    <3> QED BY <2>2, <3>1, <3>2, <3>3, <3>4
  <2> QED BY <1>5, <2>3, <2>4 DEF SubmitArrives
<1> QED BY <1>3, <1>4, <1>5

LEMMA EnvironmentAnswers ==
  ASSUME BlueprintTypeOK, RequestsOK, Environment, UNCHANGED ui
  PROVE  RequestsOK'
<1>1. ShownStays  BY DEF ShownStays, Submitted
<1>2. CASE (\E j \in DOMAIN jobs : CancelQueued(j)) \/ OtherJob \/ ProcessChanges \/ EditPatch \/ Tick
  <2>1. UNCHANGED <<serviceEpoch, plans, issued, calls>>
    BY <1>2 DEF CancelQueued, OtherJob, ProcessChanges, EditPatch, Tick
  <2>2. DOMAIN jobs' = DOMAIN jobs /\ \A j \in DOMAIN jobs : jobs'[j].plan = jobs[j].plan
    <3>1. CASE UNCHANGED jobs  BY <3>1
    <3>2. ASSUME NEW j \in DOMAIN jobs, CancelQueued(j)
          PROVE  DOMAIN jobs' = DOMAIN jobs /\ \A i \in DOMAIN jobs : jobs'[i].plan = jobs[i].plan
      <4> DEFINE r == [jobs[j] EXCEPT !.status = "cancelled"]
      <4>1. jobs' = [jobs EXCEPT ![j] = r]  BY <3>2 DEF CancelQueued
      <4>2. r.plan = jobs[j].plan  BY JobFacts DEF ApplyJob
      <4> HIDE DEF r
      <4>3. DOMAIN jobs' = DOMAIN jobs /\ \A i \in DOMAIN jobs : jobs'[i] = IF i = j THEN r ELSE jobs[i]
        BY <4>1, JobFacts
      <4> QED BY <4>2, <4>3
    <3> QED BY <1>2, <3>1, <3>2 DEF OtherJob, ProcessChanges, EditPatch, Tick
  <2>3. \A c \in Call : Follows(c)
    <3>1. \A c \in Call : calls'[c] = calls[c]  BY <2>1
    <3> QED BY <3>1 DEF Follows
  <2>4. Settled /\ SameEpoch  BY <2>1, <2>2 DEF Settled, SameEpoch
  <2> QED BY <1>1, <2>3, <2>4, FollowsKeeps
<1>3. CASE RestartSupervisor
  <2>1. /\ UNCHANGED issued /\ plans' = {}
        /\ jobs' = [j \in DOMAIN jobs |->
                IF jobs[j].status \in Finished THEN jobs[j] ELSE [jobs[j] EXCEPT !.status = "failed"]]
        /\ calls' = [c \in Call |->
                 IF calls[c] = None \/ calls[c].stage = "answered" THEN calls[c]
                 ELSE IF ~calls[c].live THEN None
                 ELSE [calls[c] EXCEPT !.stage = "answered", !.res = Refusal]]
    BY <1>3 DEF RestartSupervisor
  <2>2. Settled
    <3>1. \A j \in DOMAIN jobs : jobs'[j].plan = jobs[j].plan
      BY <2>1, JobFacts DEF ApplyJob
    <3> QED BY <2>1, <3>1 DEF Settled
  <2>3. ASSUME NEW c \in Call
        PROVE  Follows(c) /\ (calls'[c] # None => calls'[c].stage \notin {"gate", "capture"})
    <3>1. CASE calls'[c] = None  BY <3>1 DEF Follows
    <3>2. CASE calls'[c] # None /\ calls'[c] = calls[c] /\ calls[c].stage = "answered"
      BY <3>2 DEF Follows
    <3>3. CASE calls[c] # None /\ calls'[c] = [calls[c] EXCEPT !.stage = "answered", !.res = Refusal]
      <4>1. calls[c] \in Requests  BY <3>3 DEF BlueprintTypeOK
      <4> QED BY <3>3, <4>1 DEF Follows, Requests
    <3> QED BY <2>1, <3>1, <3>2, <3>3
  <2>4. (\A c \in Call : Follows(c)) /\ SameEpoch  BY <2>3 DEF SameEpoch
  <2> QED BY <1>1, <2>2, <2>4, FollowsKeeps
<1> QED BY <1>2, <1>3 DEF Environment

-----------------------------------------------------------------------------
(* The inductive invariant.                                                  *)

LEMMA BlueprintStarts ==
  ASSUME BlueprintInit
  PROVE  BlueprintIInv
<1> USE ConstantFacts
<1> DEFINE r == [NewJob(0, None) EXCEPT !.status = "succeeded"]
<1>1. /\ serviceEpoch = 1 /\ clock = 0 /\ plans = {} /\ issued = 0 /\ work = Idle
      /\ home = [rev |-> 0, runs |-> 0, llm |-> 0, enabled |-> TRUE, override |-> FALSE,
                 edits |-> 0]
      /\ spaces = [n \in Name |-> None] /\ calls = [c \in Call |-> None]
      /\ jobs \in {<<>>, <<r>>}
  BY DEF BlueprintInit, ServerInit
<1>2. /\ r \in ApplyJob /\ r.name = None /\ r.outcome = None /\ r.plan = 0 /\ r.status = "succeeded"
  BY DEF NewJob, ApplyJob, Finished
<1> HIDE DEF r
<1>3. jobs \in Seq(ApplyJob) /\ \A j \in DOMAIN jobs : jobs[j] = r
  <2>1. CASE jobs = <<>>  BY <2>1
  <2>2. CASE jobs = <<r>>  BY <1>2, <2>2
  <2> QED BY <1>1, <2>1, <2>2
<1>4. /\ ui.content \in Content /\ ui.name \in Name /\ ui.inspect = None /\ ui.preview = None
      /\ ui.applyJob = None /\ ui.previewStatus = "idle" /\ ui \in Session
  <2>1. PICK x \in Content, n \in Name, b \in {FALSE} :
          ui = [content |-> x, name |-> n, inspect |-> None, inspectStatus |-> "idle",
                preview |-> None, previewStatus |-> "idle", previewInvalid |-> b,
                applyStatus |-> "idle", applyPlan |-> None, applyJob |-> None, epoch |-> 1,
                edits |-> 0]
    BY ZenonT(90) DEF BlueprintInit
  <2>2. 0 \in 0..MaxEdit /\ b \in BOOLEAN  BY BlueprintEdits
  <2> QED BY <2>1, <2>2 DEF Session, Status
<1>5. BlueprintTypeOK
  <2>1. home \in [rev : Nat, runs : Nat, llm : Nat, enabled : BOOLEAN, override : BOOLEAN,
                  edits : 0..MaxHomeChange]
    BY <1>1
  <2>2. spaces \in [Name -> Held \cup {None}] /\ calls \in [Call -> Requests \cup {None}]
    BY <1>1
  <2> QED BY <1>1, <1>3, <1>4, <2>1, <2>2 DEF BlueprintTypeOK
<1>6. ConsumedOnce /\ PlansAreIssued /\ OutcomeIsHonest
  BY <1>1, <1>2, <1>3 DEF ConsumedOnce, PlansAreIssued, OutcomeIsHonest
<1>7. FormIsShown  BY <1>4 DEF FormIsShown
<1>8. JobsAreRecorded  BY <1>1, <1>2, <1>3 DEF JobsAreRecorded
<1>9. WorkIsTold  BY <1>1 DEF WorkIsTold, Idle
<1>10. CallsAreSound /\ AnswersAreNew /\ ShownIsKnown
  BY <1>1, <1>4 DEF CallsAreSound, AnswersAreNew, ShownIsKnown, Offers
<1> QED BY <1>5, <1>6, <1>7, <1>8, <1>9, <1>10 DEF BlueprintIInv, BlueprintInv

LEMMA BlueprintSteps ==
  ASSUME BlueprintIInv, [BlueprintNext]_blueprintVars
  PROVE  BlueprintIInv'
<1>1. BlueprintTypeOK /\ FormIsShown /\ PlansOK /\ WorkOK /\ RequestsOK
  BY DEF BlueprintIInv, BlueprintInv, PlansOK, WorkOK, RequestsOK
<1>2. SUFFICES BlueprintTypeOK' /\ FormIsShown' /\ PlansOK' /\ WorkOK' /\ RequestsOK'
  BY DEF BlueprintIInv, BlueprintInv, PlansOK, WorkOK, RequestsOK
<1>3. CASE Person
  <2>1. CASE ApplyClick
    <3>1. UNCHANGED <<serviceEpoch, home, spaces, plans, issued, jobs, work>>
      BY <1>1, <2>1, ClickFacts
    <3> QED BY <1>1, <2>1, <3>1, ClickKeeps, WorkKept, PlansKept DEF JobsKept
  <2>2. CASE ~ApplyClick
    <3>1. Keeps  BY <1>1, <1>3, <2>2, FormKeeps DEF Person
    <3> QED BY <1>1, <3>1, KeepsAll, WorkKept, PlansKept DEF Keeps, JobsKept
  <2> QED BY <2>1, <2>2
<1>4. CASE Arrive \/ Poll
  <2>1. CASE \E c \in Call : PreviewAnswer(c)
    <3> PICK c \in Call : PreviewAnswer(c)  BY <2>1
    <3>1. /\ BlueprintTypeOK' /\ FormIsShown' /\ RequestsOK'
          /\ UNCHANGED <<serviceEpoch, clock, home, spaces, plans, issued, jobs, work>>
      BY <1>1, ShowKeeps
    <3> QED BY <1>1, <3>1, WorkKept, PlansKept DEF JobsKept
  <2>2. CASE ~\E c \in Call : PreviewAnswer(c)
    <3>1. Keeps  BY <1>1, <1>4, <2>2, AnswersKeep DEF Arrive
    <3> QED BY <1>1, <3>1, KeepsAll, WorkKept, PlansKept DEF Keeps, JobsKept
  <2> QED BY <2>1, <2>2
<1>5. CASE ServerStep
  <2>1. UNCHANGED ui /\ FormIsShown'  BY <1>1, <1>5 DEF ServerStep, FormIsShown
  <2>2. CASE Serve
    BY <1>1, <2>1, <2>2, ServeTypes, ServeKeeps, ServeAnswers DEF RequestsOK
  <2>3. CASE Apply
    <3>1. BlueprintTypeOK' /\ WorkOK' /\ PlansOK' /\ Quiet
      BY <1>1, <2>1, <2>3, ApplyKeeps
    <3>2. Settled /\ SameEpoch  BY <3>1 DEF Quiet, Settled, SameEpoch
    <3>3. ShownStays  BY <2>1 DEF ShownStays, Submitted
    <3>4. \A c \in Call : Follows(c)
      <4>1. \A c \in Call : calls'[c] = calls[c]  BY <3>1 DEF Quiet
      <4> QED BY <4>1 DEF Follows
    <3> QED BY <1>1, <2>1, <3>1, <3>2, <3>3, <3>4, FollowsKeeps
  <2>4. CASE Environment
    BY <1>1, <2>1, <2>4, EnvironmentKeeps, EnvironmentAnswers
  <2> QED BY <1>5, <2>2, <2>3, <2>4 DEF ServerStep
<1>6. CASE UNCHANGED blueprintVars
  <2>1. UNCHANGED <<serviceEpoch, clock, home, spaces, plans, issued, calls, jobs, work, ui>>
    BY <1>6 DEF blueprintVars, serverVars
  <2>2. \A c \in Call : calls'[c] = calls[c]  BY <2>1
  <2>3. \A c \in Call : Follows(c)  BY <2>2 DEF Follows
  <2>4. BlueprintTypeOK' /\ FormIsShown' /\ ShownStays /\ Settled /\ SameEpoch
    BY <1>1, <2>1 DEF BlueprintTypeOK, FormIsShown, ShownStays, Submitted, Settled, SameEpoch
  <2> QED BY <1>1, <2>1, <2>3, <2>4, FollowsKeeps, WorkKept, PlansKept DEF JobsKept
<1> QED BY <1>3, <1>4, <1>5, <1>6 DEF BlueprintNext

\* In every reachable state of every instance the inductive invariant holds: an
\* application and what it has published go together, requests are of their kind,
\* and the plan of every answer is new.
THEOREM BlueprintInvariance == BlueprintSpec => []BlueprintIInv
<1>1. BlueprintInit => BlueprintIInv  BY BlueprintStarts
<1>2. BlueprintIInv /\ [BlueprintNext]_blueprintVars => BlueprintIInv'  BY BlueprintSteps
<1> QED BY <1>1, <1>2, PTL DEF BlueprintSpec

\* A staged plan is consumed by at most one job, for any number of previews,
\* submissions and restarts (consumePlan), and what the session calls ready is a
\* preview of the form as it is now (blueprint-session.ts 564-567, 612-630).
THEOREM BlueprintSafety == BlueprintSpec => []BlueprintInv
<1>1. BlueprintIInv => BlueprintInv  BY DEF BlueprintIInv
<1> QED BY <1>1, BlueprintInvariance, PTL

\* Whatever step of an application fails, and whenever the Supervisor dies, what the
\* job's record says of the space it created is what is in that space.
THEOREM RecordsAreHonest == BlueprintSpec => []OutcomeIsHonest
<1>1. BlueprintIInv => OutcomeIsHonest  BY DEF BlueprintIInv
<1> QED BY <1>1, BlueprintInvariance, PTL

LEMMA Creation ==
  ASSUME BlueprintIInv, [BlueprintNext]_blueprintVars, NEW n \in Name,
         spaces[n] = None, spaces'[n] # None
  PROVE  /\ work.plan.name = n /\ spaces'[n].content = work.plan.content
         /\ work.plan.obs.rev = work.rev /\ AsPreviewed(work.plan.obs)
         /\ ModelAvailable
<1>1. BlueprintTypeOK /\ WorkIsTold  BY DEF BlueprintIInv, BlueprintInv
<1>2. ~UNCHANGED spaces  OBVIOUS
<1>3. Apply
  <2>1. CASE Person
    BY <1>2, <2>1 DEF Person, SetContent, SetName, SetMode, Inspect, Preview, CancelStaged,
                      ApplyClick, Edit, Only
  <2>2. CASE Arrive \/ Poll
    BY <1>2, <2>2 DEF Arrive, Poll, InspectAnswer, PreviewAnswer, SubmitAnswer, Lose, Only
  <2>3. CASE Serve \/ Environment
    BY <1>2, <2>3 DEF Serve, Environment, PreviewArrives, Gate, Stage, SubmitArrives,
                      CancelQueued, OtherJob, ProcessChanges, EditPatch, Tick, RestartSupervisor
  <2> QED BY <1>2, <2>1, <2>2, <2>3 DEF BlueprintNext, ServerStep, blueprintVars, serverVars
<1>4. CASE CreateSpace
  <2>1. /\ work.pc = "create" /\ spaces' = [spaces EXCEPT ![Own] = Fresh(work.plan.content)]
    BY <1>2, <1>4 DEF CreateSpace, Become
  <2>2. n = Own /\ spaces'[n] = Fresh(work.plan.content)
    BY <2>1 DEF BlueprintTypeOK
  <2>3. /\ work.plan.obs.rev = work.rev /\ AsPreviewed(work.plan.obs)
        /\ ModelAvailable
    BY <1>1, <2>1 DEF WorkIsTold
  <2> QED BY <2>2, <2>3 DEF Own, Fresh
<1>5. CASE InstallPackage \/ WritePresets \/ BindPolicy \/ BindDefault \/ WriteProvenance
  <2>1. work.pc \in Writing /\ \E f : spaces' = [spaces EXCEPT ![Own] = f]
    BY <1>2, <1>5 DEF Writing, InstallPackage, WritePresets, BindPolicy, BindDefault,
                      WriteProvenance, Become
  <2>2. spaces[Own] # None  BY <1>1, <2>1 DEF WorkIsTold, Writing, Done, Own
  <2>3. n # Own  BY <2>2
  <2> QED BY <2>1, <2>3 DEF BlueprintTypeOK
<1>6. CASE (\E j \in DOMAIN jobs : BeginJob(j)) \/ Look \/ Observe \/ Check \/ Compose
  BY <1>2, <1>6 DEF BeginJob, Look, Observe, Check, Compose
<1> QED BY <1>3, <1>4, <1>5, <1>6 DEF Apply

\* However many awaits lie between the observation of a plan and its application,
\* and whatever other jobs ran meanwhile, a space is created under the revision the
\* job has observed, in the Home that was previewed but for its processes, and with
\* the model it binds (the context check of BeginJob, consumePlan).
THEOREM SpacesAreAsPreviewed == BlueprintSpec => CreatedAsPreviewed
<1>1. BlueprintIInv /\ [BlueprintNext]_blueprintVars =>
        [\A n \in Name : spaces[n] = None /\ spaces'[n] # None =>
           /\ work.plan.name = n /\ spaces'[n].content = work.plan.content
           /\ work.plan.obs.rev = work.rev /\ AsPreviewed(work.plan.obs)
           /\ ModelAvailable]_blueprintVars
  BY Creation
<1> QED BY <1>1, BlueprintInvariance, PTL DEF BlueprintSpec, CreatedAsPreviewed

LEMMA Submission ==
  ASSUME BlueprintIInv, [BlueprintNext]_blueprintVars, NEW c \in Call,
         calls[c] = None, calls'[c] # None, calls'[c].kind = "submit"
  PROVE  /\ \A j \in DOMAIN jobs : jobs[j].plan # calls'[c].plan
         /\ ui.previewStatus = "ready" =>
              \A p \in plans : p.id = calls'[c].plan =>
                /\ p.content = ui.content /\ p.name = ui.name
                /\ p.obs.epoch = calls'[c].obs.epoch
<1>1. BlueprintTypeOK /\ FormIsShown /\ RequestsOK /\ None \notin Shown /\ None \notin Nat
  BY BlueprintNone DEF BlueprintIInv, BlueprintInv, RequestsOK
<1>2. ~UNCHANGED calls /\ ~Follows(c)
  BY FollowsFacts
<1>3. ApplyClick
  <2>1. CASE Keeps  BY <1>2, <2>1 DEF Keeps
  <2>2. ASSUME NEW d \in Call, PreviewAnswer(d) PROVE FALSE
    <3>1. Free(d)  BY <2>2 DEF PreviewAnswer
    <3> QED BY <1>1, <1>2, <3>1, Freed
  <2>3. CASE Serve
    <3> PICK d \in Call : PreviewArrives(d) \/ Gate(d) \/ Stage(d) \/ SubmitArrives(d)
      BY <2>3 DEF Serve
    <3>1. calls[d] # None
      BY DEF PreviewArrives, Gate, Stage, SubmitArrives, At
    <3>2. \E f : calls' = [calls EXCEPT ![d] = f]
      <4>1. \A res : Answer(d, res) => \E f : calls' = [calls EXCEPT ![d] = f]
        BY DEF Answer
      <4> HIDE DEF Answer
      <4> QED BY <4>1 DEF PreviewArrives, Gate, Stage, SubmitArrives, NoPlan
    <3> QED BY <1>1, <3>1, <3>2 DEF BlueprintTypeOK
  <2>4. CASE Apply
    BY <1>2, <2>4 DEF Apply, BeginJob, Look, Observe, Check, CreateSpace, InstallPackage, Compose,
                      WritePresets, BindPolicy, BindDefault, WriteProvenance
  <2>5. CASE Environment
    <3>1. RestartSupervisor
      BY <1>2, <2>5 DEF Environment, CancelQueued, OtherJob, ProcessChanges, EditPatch, Tick
    <3> QED BY <3>1 DEF RestartSupervisor
  <2>6. Person /\ ~ApplyClick => Keeps
    BY <1>1, FormKeeps DEF Person
  <2>7. (Arrive /\ ~\E d \in Call : PreviewAnswer(d)) \/ Poll => Keeps
    BY <1>1, AnswersKeep DEF Arrive
  <2> QED BY <1>2, <2>1, <2>2, <2>3, <2>4, <2>5, <2>6, <2>7
          DEF BlueprintNext, ServerStep, blueprintVars, serverVars, Arrive
<1>4. /\ ui.preview \in Shown /\ ui.preview.plan \in 1..issued /\ ~Submitted(ui)
      /\ ~ui.previewInvalid
      /\ calls'[c].plan = ui.preview.plan /\ calls'[c].obs = ui.preview.obs
  BY <1>1, <1>2, <1>3, ClickFacts
<1>5. /\ WasSubmitted(ui.preview.plan) => Submitted(ui)
      /\ \A p \in plans : p.id = ui.preview.plan =>
           IsOf(p, ui.preview.content, ui.preview.name, ui.preview.obs)
  BY <1>1, <1>4 DEF RequestsOK, ShownIsKnown
<1>6. \A j \in DOMAIN jobs : jobs[j].plan # calls'[c].plan
  BY <1>4, <1>5 DEF WasSubmitted
<1>7. ui.previewStatus = "ready" => ui.preview.content = ui.content /\ ui.preview.name = ui.name
  BY <1>1, <1>4 DEF FormIsShown
<1> QED BY <1>4, <1>5, <1>6, <1>7 DEF IsOf

\* A click submits a plan no job was submitted for, and when a preview is ready, the
\* plan of the form that the person sees, for any order of answers, losses and polls
\* (canApply, begin).
THEOREM ShownIsSubmitted == BlueprintSpec => SubmitsWhatIsShown
<1>1. BlueprintIInv /\ [BlueprintNext]_blueprintVars =>
        [\A c \in Call : calls[c] = None /\ calls'[c] # None /\ calls'[c].kind = "submit" =>
           /\ \A j \in DOMAIN jobs : jobs[j].plan # calls'[c].plan
           /\ ui.previewStatus = "ready" =>
                \A p \in plans : p.id = calls'[c].plan =>
                  /\ p.content = ui.content /\ p.name = ui.name
                  /\ p.obs.epoch = calls'[c].obs.epoch]_blueprintVars
  BY Submission
<1> QED BY <1>1, BlueprintInvariance, PTL DEF BlueprintSpec, SubmitsWhatIsShown
=============================================================================
