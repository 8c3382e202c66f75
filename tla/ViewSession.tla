------------------------------ MODULE ViewSession ------------------------------
(***************************************************************************)
(* ViewSession (packages/plugin/src/workbench/view-session.ts) and the part *)
(* of WorkbenchController that drives it (store.ts): which space the page  *)
(* shows, which one the person asked for last, and the frames that load.   *)
(* The page polls the state of the Supervisor, asks it for views, and gets *)
(* messages of the frames; all three may be late.  The Supervisor starts   *)
(* and stops spaces, each time with a new generation, and is itself        *)
(* replaced by one with a new epoch.                                       *)
(* The page drops the answer of a poll that a later one has overtaken: only *)
(* the latest is kept here.  The origins, paths and channels of a view are   *)
(* checked against its frame's: a view is its epoch and generation.  The   *)
(* jobs that start a space run on the Supervisor, for this page and others.*)
(***************************************************************************)
EXTENDS Integers

CONSTANTS
  Space, NoSpace,
  MaxToken,   \* bound: selections
  MaxChange   \* bound: what happens to the Supervisor and its spaces

ASSUME SpaceAssumption == NoSpace \notin Space
ASSUME BoundAssumption == MaxToken \in Nat /\ MaxChange \in Nat

VARIABLES
  epoch, srv,   \* the Supervisor: serviceEpoch, space -> status and generation
  changes,      \* how often they have changed, for the bound
  seen,         \* the state the page applied last
  views,        \* the ViewSession
  asked,        \* view requests the Supervisor has not answered
  coming,       \* the state that answers the latest poll, until the page handles it
  replies,      \* views the Supervisor has sent and the page has not handled
  timer,        \* waitTimer
  restore,      \* restoreId: the selection an earlier page kept, until it is restored
  last          \* what was asked for last, by a click or a restoration (history)

page == <<seen, views, timer, restore, last>>
server == <<epoch, srv, changes>>
net == <<coming, asked, replies>>
vars == <<server, page, net>>

-----------------------------------------------------------------------------
(* The operations of ViewSession, on its fields. *)

NoView == [epoch |-> 0, gen |-> -1]
Frame(gen, token) == [status |-> "loading", gen |-> gen, view |-> NoView, selectToken |-> token]
NoFrame == [Frame(-1, 0) EXCEPT !.status = "none"]
Has(v, s) == v.frames[s].status # "none"

CommitHome(v) == [v EXCEPT !.selectToken = @ + 1, !.committed = NoSpace,
                           !.pending = NoSpace, !.visible = NoSpace, !.viewError = NoSpace]

\* A frame of the generation is used again, unless it failed.
RequestSpace(v, s, gen) ==
  LET stale == Has(v, s) /\ v.frames[s].gen # gen
      token == v.selectToken + 1
      usable == Has(v, s) /\ ~stale /\ v.frames[s].status # "failed"
  IN [v EXCEPT !.pending = s, !.selectToken = token, !.viewError = NoSpace,
               !.visible = IF stale /\ s \in {@, v.committed} THEN NoSpace ELSE @,
               !.frames[s] = IF usable THEN [@ EXCEPT !.selectToken = token]
                                       ELSE Frame(gen, token)]

\* (mutant) any frame that becomes ready is shown.
CommitPending_Any(v, s, token) ==
  IF v.frames[s].status = "ready"
  THEN [v EXCEPT !.committed = s, !.visible = s, !.pending = NoSpace, !.viewError = NoSpace]
  ELSE v
CommitPending(v, s, token) ==
  IF token = v.selectToken /\ v.pending = s /\ v.frames[s].status = "ready"
  THEN [v EXCEPT !.committed = s, !.visible = s, !.pending = NoSpace, !.viewError = NoSpace]
  ELSE v

\* (mutant) a failed switch takes the shown view away.
FailPending_Hides(v, s, token) ==
  IF token = v.selectToken
  THEN [v EXCEPT !.viewError = s, !.pending = NoSpace, !.visible = NoSpace]
  ELSE v
FailPending(v, s, token) ==
  IF token = v.selectToken /\ v.pending = s
  THEN [v EXCEPT !.viewError = s, !.pending = NoSpace]
  ELSE v

Fail(v, s, token) == FailPending([v EXCEPT !.frames[s].status = "failed"], s, token)

FailView(v, s, token) ==
  IF Has(v, s) /\ v.frames[s].selectToken = token THEN Fail(v, s, token) ELSE v

\* A view of another generation is unauthorized and fails the frame.
ApplyView(v, s, token, view) ==
  IF ~Has(v, s) \/ v.frames[s].selectToken # token \/ v.frames[s].status = "failed" THEN v
  ELSE IF view.gen # v.frames[s].gen THEN Fail(v, s, token)
  ELSE [v EXCEPT !.frames[s].view = view, !.frames[s].status = "pending"]

\* onAcceptedMessage; acceptViewMessage lets through what the frame's own
\* window says about the frame's own view.
Accept(v, s, says) ==
  LET token == v.frames[s].selectToken
      set(status) == [v EXCEPT !.frames[s].status = status]
  IN CASE says = "ready" ->
            IF v.frames[s].status = "failed" THEN v
            ELSE CommitPending([set("ready") EXCEPT
                   !.viewError = IF v.committed = s /\ @ = s THEN NoSpace ELSE @], s, token)
       [] says = "disconnected" ->
            LET u == FailPending(set("reconnecting"), s, token)
            IN IF u.committed = s THEN [u EXCEPT !.viewError = s] ELSE u
       [] says = "failed" -> Fail(v, s, token)

\* (mutant) a frame survives while its space is listed.
Survives_Listed(f, s, state) == state.srv[s].status # "gone"
\* syncServiceEpoch and syncGenerations: the frames that survive a state.
Survives(f, s, state) ==
  /\ f.view = NoView \/ f.view.epoch = state.epoch
  /\ state.srv[s].status # "gone" /\ state.srv[s].gen = f.gen

Sync(v, state) ==
  LET kept == {s \in Space : Has(v, s) /\ Survives(v.frames[s], s, state)}
  IN [v EXCEPT !.frames = [s \in Space |-> IF s \in kept THEN v.frames[s] ELSE NoFrame],
               !.visible = IF @ # NoSpace /\ Has(v, @) /\ @ \notin kept THEN NoSpace ELSE @]

-----------------------------------------------------------------------------
(* WorkbenchController. *)

NoTimer == [kind |-> "none", token |-> 0, space |-> NoSpace]
Wait(kind, token, s) == [kind |-> kind, token |-> token, space |-> s]

Request(s, token) == [space |-> s, token |-> token]
InFlight(r) == r \in asked \/ \E p \in replies : Request(p.space, p.token) = r

\* loadAuthorizedView of the frame of s, unless the request is under way.
Load(v, s) ==
  LET r == Request(s, v.frames[s].selectToken)
  IN IF InFlight(r) THEN UNCHANGED <<timer, asked>>
     ELSE /\ asked' = asked \cup {r}
          /\ timer' = IF r.token = v.selectToken THEN Wait("handshake", r.token, s) ELSE timer

\* beginSpace.  A space that is not running is started by a job.
BeginSpace(v, s, state) ==
  LET u == RequestSpace(v, s, state.srv[s].gen)
      token == u.selectToken
  IN CASE state.srv[s].status # "running" ->
            views' = u /\ timer' = Wait("start", token, s) /\ UNCHANGED asked
       [] state.srv[s].status = "running" /\ u.frames[s].status = "ready" ->
            views' = CommitPending(u, s, token) /\ UNCHANGED <<timer, asked>>
       [] OTHER ->
            /\ views' = u
            /\ IF u.frames[s].view = NoView
               THEN Load(u, s)
               ELSE timer' = Wait("handshake", token, s) /\ UNCHANGED asked

NoState == [epoch |-> 0]

\* The page has applied its first state; or, when it has a selection to restore,
\* it waits for that state, and what it has seen does not matter yet.
Init ==
  /\ epoch = 1 /\ changes = 0
  /\ srv \in [Space -> [status : {"stopped", "running"}, gen : {1}]]
  /\ seen = [epoch |-> epoch, srv |-> srv]
  /\ views = [frames |-> [s \in Space |-> NoFrame], committed |-> NoSpace, pending |-> NoSpace,
              visible |-> NoSpace, selectToken |-> 0, viewError |-> NoSpace]
  /\ coming = NoState /\ asked = {} /\ replies = {} /\ timer = NoTimer
  /\ restore \in Space \cup {NoSpace} /\ last = NoSpace

\* Each selection, and each time a pending one begins again, draws a token.
MaySelect == views.selectToken < MaxToken

\* Home can be chosen while the page waits for its first state.
SelectHome ==
  /\ MaySelect
  /\ views' = CommitHome(views) /\ timer' = NoTimer /\ last' = NoSpace
  /\ UNCHANGED <<server, net, seen, restore>>

\* selectSpace and selectRunningSpace, of a space the first state has listed;
\* nothing calls retryView.
SelectSpace(s) ==
  /\ MaySelect /\ restore = NoSpace /\ seen.srv[s].status # "gone"
  /\ BeginSpace(views, s, seen)
  /\ last' = s
  /\ UNCHANGED <<server, seen, coming, replies, restore>>

\* applyState: the frames are synchronized, a removed selection becomes home,
\* the selection of an earlier page begins if its space runs, then continuePending.
ContinuePending(v, state) ==
  LET s == v.pending
  IN CASE s = NoSpace -> views' = v /\ UNCHANGED <<timer, asked>>
       [] s # NoSpace /\ state.srv[s].status = "gone" ->
            views' = FailView(v, s, v.selectToken) /\ UNCHANGED <<timer, asked>>
       [] s # NoSpace /\ state.srv[s].status \in {"stopped", "starting"} ->
            views' = v /\ UNCHANGED <<timer, asked>>
       [] s # NoSpace /\ state.srv[s].status = "running" ->
            IF v.frames[s].gen # state.srv[s].gen
            THEN MaySelect /\ BeginSpace(v, s, state)
            ELSE /\ views' = v
                 /\ IF v.frames[s].status = "loading" THEN Load(v, s)
                                                       ELSE UNCHANGED <<timer, asked>>

Restores(state) == restore # NoSpace /\ state.srv[restore].status = "running"

ApplyState ==
  LET state == coming
      synced == Sync(views, state)
      removed == synced.committed # NoSpace /\ state.srv[synced.committed].status = "gone"
      v == IF removed THEN CommitHome(synced) ELSE synced
  IN /\ coming # NoState /\ coming' = NoState
     /\ removed => MaySelect
     /\ seen' = state /\ restore' = NoSpace
     /\ IF Restores(state)
        THEN /\ v.selectToken < MaxToken
             /\ BeginSpace(v, restore, state)   \* continuePending finds nothing to do
             /\ last' = restore
        ELSE ContinuePending(v, state) /\ UNCHANGED last
     /\ UNCHANGED <<server, replies>>

\* The answer of a view request, whatever its token is by now.
HandleView(p) ==
  /\ p \in replies /\ replies' = replies \ {p}
  /\ views' = ApplyView(views, p.space, p.token, p.view)
  /\ UNCHANGED <<server, seen, coming, asked, timer, restore, last>>

HandleError(r) ==
  /\ r \in asked /\ asked' = asked \ {r}
  /\ views' = FailView(views, r.space, r.token)
  /\ UNCHANGED <<server, seen, coming, replies, timer, restore, last>>

FrameSays(s, says) ==
  /\ Has(views, s) /\ views.frames[s].view # NoView
  /\ views' = Accept(views, s, says)
  /\ UNCHANGED <<server, net, seen, timer, restore, last>>

\* The timer of armWait fires.
TimedOut(v) ==
  /\ timer.token = v.selectToken /\ v.pending = timer.space
  /\ timer.kind = "handshake" => v.frames[timer.space].status # "ready"
  /\ timer.kind = "start" => seen.srv[timer.space].status # "running"

Timeout ==
  /\ timer # NoTimer /\ timer' = NoTimer
  /\ views' = IF TimedOut(views) THEN FailView(views, timer.space, timer.token) ELSE views
  /\ UNCHANGED <<server, net, seen, restore, last>>

-----------------------------------------------------------------------------
(* The Supervisor. *)

\* The Supervisor answers a poll.
AnswerPoll ==
  /\ coming' = [epoch |-> epoch, srv |-> srv]
  /\ UNCHANGED <<server, page, asked, replies>>

\* view() of a space that runs.
AnswerView(r) ==
  /\ r \in asked /\ asked' = asked \ {r}
  /\ srv[r.space].status = "running"
  /\ replies' = replies \cup {[space |-> r.space, token |-> r.token,
                               view |-> [epoch |-> epoch, gen |-> srv[r.space].gen]]}
  /\ UNCHANGED <<server, page, coming>>

Change == changes < MaxChange /\ changes' = changes + 1 /\ UNCHANGED <<page, net>>

\* startSpace and stopOwned draw a generation, a crash does not.
Becomes(s, from, status, more) ==
  /\ Change
  /\ srv[s].status \in from
  /\ srv' = [srv EXCEPT ![s] = [status |-> status, gen |-> @.gen + more]]
  /\ UNCHANGED epoch

SpaceChanges(s) ==
  \/ Becomes(s, {"stopped"}, "starting", 1)
  \/ Becomes(s, {"starting"}, "running", 0)
  \/ Becomes(s, {"starting", "running"}, "stopped", 0)
  \/ Becomes(s, {"running"}, "stopped", 1)
  \/ Becomes(s, {"stopped"}, "gone", 0)

\* A new Supervisor: generations begin again, and by the time the page hears of
\* it its spaces may run.
Restart ==
  /\ Change
  /\ epoch' = epoch + 1
  /\ \E up \in {{}, Space} :
       srv' = [s \in Space |-> CASE srv[s].status = "gone" -> srv[s]
                                 [] s \in up /\ srv[s].status # "gone" -> [status |-> "running", gen |-> 1]
                                 [] OTHER -> [status |-> "stopped", gen |-> 0]]

Next ==
  \/ SelectHome \/ ApplyState \/ AnswerPoll \/ Timeout \/ Restart
  \/ \E s \in Space :
       \/ SelectSpace(s)
       \/ \E says \in {"ready", "disconnected", "failed"} : FrameSays(s, says)
       \/ SpaceChanges(s)
  \/ \E p \in replies : HandleView(p)
  \/ \E r \in asked : AnswerView(r) \/ HandleError(r)

Spec == Init /\ [][Next]_vars

-----------------------------------------------------------------------------
(* Properties. *)

Statuses == {"none", "loading", "pending", "ready", "reconnecting", "failed"}

Token == 0..MaxToken
SpaceStatus == {"stopped", "starting", "running", "gone"}
State == [epoch : 1..MaxChange + 1, srv : [Space -> [status : SpaceStatus, gen : Nat]]]
View == [epoch : Nat, gen : Int]
FrameOf == [status : Statuses, gen : Int, view : View, selectToken : Token]
Views == [frames : [Space -> FrameOf], committed : Space \cup {NoSpace},
          pending : Space \cup {NoSpace}, visible : Space \cup {NoSpace},
          selectToken : Token, viewError : Space \cup {NoSpace}]
Timer == {NoTimer} \cup [kind : {"start", "handshake"}, token : Token, space : Space]

TypeOK ==
  /\ [epoch |-> epoch, srv |-> srv] \in State /\ changes \in 0..MaxChange
  /\ epoch <= changes + 1
  /\ seen \in State /\ coming \in State \cup {NoState}
  /\ views \in Views /\ timer \in Timer
  /\ asked \subseteq [space : Space, token : Token]
  /\ replies \subseteq [space : Space, token : Token, view : View]
  /\ restore \in Space \cup {NoSpace} /\ last \in Space \cup {NoSpace}

\* Whatever is late, what the page shows is the selected space, in a frame of
\* the generation the page knows, with the view of that generation
\* (view-session.ts 156-161, 280-303): never a frame of a process that has been
\* stopped since, as far as the page knows.
ShownIsCurrent ==
  /\ \A s \in Space : Has(views, s) => views.frames[s].gen = seen.srv[s].gen
  /\ \A s \in Space : views.frames[s].view # NoView => views.frames[s].view.gen = views.frames[s].gen
  /\ views.visible # NoSpace => views.visible = views.committed /\ Has(views, views.visible)
  /\ views.pending # NoSpace /\ Has(views, views.pending) =>
       views.frames[views.pending].selectToken = views.selectToken

\* A view request that hangs cannot keep the selection waiting: while its frame
\* has no view, a timer of this very selection is armed (store.ts 1340, 1368; the
\* test "polling does not duplicate a hanging view request or postpone its
\* timeout").
HangIsTimed ==
  views.pending # NoSpace /\ views.frames[views.pending].status = "loading"
    => timer.token = views.selectToken /\ timer.space = views.pending

\* The state invariant.
Inv == TypeOK /\ ShownIsCurrent /\ HangIsTimed

\* Tokens are drawn in order: nothing carries one that is not drawn yet.
TokensAreOld ==
  /\ timer.token <= views.selectToken
  /\ \A r \in asked : r.token <= views.selectToken
  /\ \A p \in replies : p.token <= views.selectToken

\* While the selection waits for its space to start, it has asked for no view,
\* and a frame it loads is not of a running space.
StartHasNoRequest ==
  timer.kind = "start" /\ timer.token = views.selectToken =>
    /\ ~InFlight(Request(timer.space, timer.token))
    /\ views.pending = timer.space /\ views.frames[timer.space].status = "loading"
         => seen.srv[timer.space].status # "running"

\* The pending selection is the one that was made last.
PendingIsLast == views.pending # NoSpace => views.pending = last

\* The inductive invariant.
IInv == Inv /\ TokensAreOld /\ StartHasNoRequest /\ PendingIsLast

\* The last click wins: whatever answers, messages and timers arrive, the
\* selection moves only to the space that was asked for last, or home when
\* the selected space is removed (view-session.ts 194-204, store.ts 1247-1251).
\* One thing but a click counts as asking: the restoration of the selection an
\* earlier page kept, by the first state, after a click on Home too (store.ts
\* 1295: selectHome does not clear restoreId).
LastClickWins ==
  [][views'.committed # views.committed =>
       \/ views'.committed = last'
       \/ views'.committed = NoSpace /\ seen'.srv[views.committed].status = "gone"]_vars

\* "A failed start keeps the previous view and marks this switch as failed"
\* (docs/workbench.md 20): a selection that ends without its space being shown
\* has the error, and the space shown before is still there, unless that one
\* itself is gone by the same state.
FailureKeepsView ==
  [][views.pending # NoSpace /\ views'.pending = NoSpace /\ views'.selectToken = views.selectToken
       => \/ views'.committed = views.pending /\ views'.visible = views.pending
          \/ /\ views'.viewError = views.pending /\ views'.committed = views.committed
             /\ views'.visible = views.visible \/ (seen' # seen /\ ~Has(views', views.visible))]_vars

===============================================================================
