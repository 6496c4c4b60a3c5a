------------------------- MODULE BasketReminderProofs -------------------------
(***************************************************************************)
(* Proofs about BasketReminder, for any users and requests, any number of  *)
(* attempts and any threshold of the circuit breaker.                      *)
(***************************************************************************)
EXTENDS BasketReminder, FiniteSetTheorems, TLAPS

\* A closed breaker has not counted up to its threshold.
Counted == breaker = "closed" => failures < Threshold

\* An update that has not posted has sent no attempt, one that waits has sent one.
NotTried ==
  \A u \in Update : /\ pc[u] \in {"start", "write", "post"} => tries[u] = 0
                    /\ pc[u] = "waiting" => tries[u] # 0

Types == TypeOK /\ Counted /\ NotTried

\* The three ways the breaker is used keep its type and its count.
LEMMA BreakerKept ==
  ASSUME Types, Admitted \/ CallSucceeds \/ CallFails \/ UNCHANGED <<breaker, failures>>
  PROVE  /\ breaker' \in {"closed", "open", "halfOpen"}
         /\ failures' \in 0 .. Threshold
         /\ Counted'
  BY ReminderAssumption DEF Types, TypeOK, Counted, Admitted, CallSucceeds, CallFails

\* What DeleteReminder leaves is well typed.
LEMMA DeleteReminderKept ==
  ASSUME Types, NEW x \in User, DeleteReminder(x)
  PROVE  /\ deletes' \subseteq [job: Job, try: 1 .. MaxAttempts]
         /\ lossy' \subseteq User
         /\ Admitted \/ UNCHANGED <<breaker, failures>>
  <1>1. cart[x] # NoCart /\ cart[x].job # NoJob => cart[x].job \in Job
    BY DEF Types, TypeOK, Cart
  <1>2. 1 \in 1 .. MaxAttempts
    BY ReminderAssumption
  <1> QED
    BY <1>1, <1>2 DEF DeleteReminder, Types, TypeOK

\* What SendAttempt leaves is well typed.
LEMMA SendAttemptKept ==
  ASSUME Types, NEW u \in Update, tries[u] < MaxAttempts, SendAttempt(u)
  PROVE  /\ tries' \in [Update -> 0 .. MaxAttempts]
         /\ job' \in [Job -> {"unsent", "delayed", "refused", "scheduled", "sent", "deleted"}]
  <1>1. tries[u] + 1 \in 0 .. MaxAttempts
    BY ReminderAssumption DEF Types, TypeOK
  <1> QED
    BY <1>1 DEF SendAttempt, Types, TypeOK

\* Every reachable state is well typed, and the breaker counts below its threshold.
LEMMA TypesHold == Spec => []Types
  <1>1. Init => Types
    <2> SUFFICES ASSUME Init PROVE Types
      OBVIOUS
    <2>1. Counted /\ NotTried
      BY ReminderAssumption DEF Init, Counted, NotTried, Request
    <2>2. failures \in 0 .. Threshold /\ breaker \in {"closed", "open", "halfOpen"}
      BY ReminderAssumption DEF Init
    <2>3. tries \in [Update -> 0 .. MaxAttempts]
      BY ReminderAssumption DEF Init
    <2>4. TypeOK
      BY <2>2, <2>3, Zenon DEF Init, TypeOK
    <2> QED
      BY <2>1, <2>4 DEF Types
  <1>2. Types /\ [Next]_vars => Types'
    <2> SUFFICES ASSUME Types, [Next]_vars PROVE Types'
      OBVIOUS
    <2> USE ReminderAssumption
    <2>1. ASSUME NEW u \in Update, StartUpdate(u) PROVE Types'
      <3>1. UserOf[u] \in User /\ u \in Request
        BY DEF Request
      <3>2. /\ deletes' \subseteq [job: Job, try: 1 .. MaxAttempts] /\ lossy' \subseteq User
            /\ Admitted \/ UNCHANGED <<breaker, failures>>
        BY <2>1, <3>1, DeleteReminderKept DEF StartUpdate
      <3>3. breaker' \in {"closed", "open", "halfOpen"} /\ failures' \in 0 .. Threshold /\ Counted'
        BY <3>2, BreakerKept
      <3> QED
        BY <2>1, <3>1, <3>2, <3>3 DEF StartUpdate, Start, Goto, Types, TypeOK, NotTried
    <2>2. ASSUME NEW u \in Update, WriteCart(u) PROVE Types'
      BY <2>2 DEF WriteCart, Goto, history, Types, TypeOK, Counted, NotTried, Cart, Request
    <2>3. ASSUME NEW u \in Update, Post(u) PROVE Types'
      <3>1. breaker' \in {"closed", "open", "halfOpen"} /\ failures' \in 0 .. Threshold /\ Counted'
        <4>1. CASE ScheduleUrlMapped
          BY <2>3, <4>1, BreakerKept DEF Post
        <4>2. CASE ~ScheduleUrlMapped
          BY <2>3, <4>2 DEF Post, Counted
        <4> QED
          BY <4>1, <4>2
      <3>2. tries[u] < MaxAttempts
        BY <2>3 DEF Post, Types, NotTried
      <3>3. /\ tries' \in [Update -> 0 .. MaxAttempts]
            /\ job' \in [Job -> {"unsent", "delayed", "refused", "scheduled", "sent", "deleted"}]
        BY <2>3, <3>2, SendAttemptKept DEF Post, Types, TypeOK
      <3>4. NotTried'
        <4>1. CASE ScheduleUrlMapped
          <5>1. tries' = [tries EXCEPT ![u] = @ + 1] /\ tries[u] \in Nat
                /\ pc' = [pc EXCEPT ![u] = "waiting"]
            BY <2>3, <4>1 DEF Post, SendAttempt, Goto, Types, TypeOK
          <5> QED
            BY <5>1 DEF Types, TypeOK, NotTried, Request
        <4>2. CASE ~ScheduleUrlMapped
          BY <2>3, <4>2 DEF Post, Goto, Types, TypeOK, NotTried, Request
        <4> QED
          BY <4>1, <4>2
      <3>5. pc' \in [Request -> {"start", "write", "post", "waiting", "writeBack",
                                "reread", "remove", "answered"}]
        BY <2>3 DEF Post, Goto, Types, TypeOK
      <3> QED
        BY <2>3, <3>1, <3>3, <3>4, <3>5 DEF Post, Types, TypeOK
    <2>4. ASSUME NEW u \in Update, PostRejected(u) PROVE Types'
      BY <2>4 DEF PostRejected, Goto, history, Types, TypeOK, Counted, NotTried, Request
    <2>5. ASSUME NEW u \in Update, Receive(u) PROVE Types'
      <3>1. breaker' \in {"closed", "open", "halfOpen"} /\ failures' \in 0 .. Threshold /\ Counted'
        BY <2>5, BreakerKept DEF Receive
      <3>2. <<u, tries[u]>> \in Job
        BY <2>5 DEF Receive, Types, TypeOK, NotTried, Job
      <3>3. jobId' \in [Update -> Job \cup {NoJob}]
        BY <2>5, <3>2 DEF Receive, Types, TypeOK
      <3> QED
        BY <2>5, <3>1, <3>3 DEF Receive, Goto, CallSucceeds, Types, TypeOK, NotTried, Request
    <2>6. ASSUME NEW u \in Update, AttemptFails(u) PROVE Types'
      <3>1. breaker' \in {"closed", "open", "halfOpen"} /\ failures' \in 0 .. Threshold /\ Counted'
        BY <2>6, BreakerKept DEF AttemptFails
      <3>2. MayRetry(tries[u]) => tries[u] < MaxAttempts
        BY DEF MayRetry
      <3>3. /\ tries' \in [Update -> 0 .. MaxAttempts]
            /\ job' \in [Job -> {"unsent", "delayed", "refused", "scheduled", "sent", "deleted"}]
        BY <2>6, <3>2, SendAttemptKept DEF AttemptFails, Types, TypeOK
      <3>4. NotTried'
        <4>1. CASE MayRetry(tries[u])
          <5>1. tries' = [tries EXCEPT ![u] = @ + 1] /\ tries[u] \in Nat /\ pc' = pc
            BY <2>6, <4>1 DEF AttemptFails, SendAttempt, Types, TypeOK
          <5> QED
            BY <2>6, <5>1 DEF AttemptFails, Types, TypeOK, NotTried
        <4>2. CASE ~MayRetry(tries[u])
          BY <2>6, <4>2 DEF AttemptFails, Goto, Types, TypeOK, NotTried, Request
        <4> QED
          BY <4>1, <4>2
      <3>5. pc' \in [Request -> {"start", "write", "post", "waiting", "writeBack",
                                "reread", "remove", "answered"}]
        BY <2>6 DEF AttemptFails, Goto, Types, TypeOK
      <3> QED
        BY <2>6, <3>1, <3>3, <3>4, <3>5 DEF AttemptFails, Types, TypeOK, Request
    <2>7. ASSUME NEW u \in Update, WriteBack(u) PROVE Types'
      BY <2>7 DEF WriteBack, Goto, history, Types, TypeOK, Counted, NotTried, Cart, Request
    <2>8. ASSUME NEW u \in Update, Reread(u) PROVE Types'
      BY <2>8 DEF Reread, Goto, history, Types, TypeOK, Counted, NotTried, Request
    <2>9. ASSUME NEW d \in Removal, StartRemoval(d) PROVE Types'
      <3>1. UserOf[d] \in User /\ d \in Request
        BY DEF Request
      <3>2. /\ deletes' \subseteq [job: Job, try: 1 .. MaxAttempts] /\ lossy' \subseteq User
            /\ Admitted \/ UNCHANGED <<breaker, failures>>
        BY <2>9, <3>1, DeleteReminderKept DEF StartRemoval
      <3>3. breaker' \in {"closed", "open", "halfOpen"} /\ failures' \in 0 .. Threshold /\ Counted'
        BY <3>2, BreakerKept
      <3>4. d \notin Update
        OBVIOUS
      <3> QED
        BY <2>9, <3>1, <3>2, <3>3, <3>4 DEF StartRemoval, Start, Goto, Types, TypeOK, NotTried
    <2>10. ASSUME NEW d \in Removal, Remove(d) PROVE Types'
      <3>1. d \notin Update
        OBVIOUS
      <3> QED
        BY <2>10, <3>1 DEF Remove, Goto, history, Types, TypeOK, Counted, NotTried, Request
    <2>11. ASSUME NEW d \in deletes, DeleteAnswered(d) PROVE Types'
      <3>1. breaker' \in {"closed", "open", "halfOpen"} /\ failures' \in 0 .. Threshold /\ Counted'
        BY <2>11, BreakerKept DEF DeleteAnswered
      <3>2. succeeded' \in BOOLEAN
        BY <2>11 DEF DeleteAnswered, CallSucceeds
      <3>3. deletes' \subseteq [job: Job, try: 1 .. MaxAttempts]
        BY <2>11 DEF DeleteAnswered, DeleteCall, Types, TypeOK
      <3>4. job' \in [Job -> {"unsent", "delayed", "refused", "scheduled", "sent", "deleted"}]
        BY <2>11 DEF DeleteAnswered, JobDeleted, Types, TypeOK
      <3> QED
        BY <2>11, <3>1, <3>2, <3>3, <3>4 DEF DeleteAnswered, Types, TypeOK, NotTried
    <2>12. ASSUME NEW d \in deletes, DeleteFails(d) PROVE Types'
      <3>1. breaker' \in {"closed", "open", "halfOpen"} /\ failures' \in 0 .. Threshold /\ Counted'
        BY <2>12, BreakerKept DEF DeleteFails
      <3>2. d \in [job: Job, try: 1 .. MaxAttempts]
        BY DEF Types, TypeOK
      <3>3. MayRetry(d.try) => [d EXCEPT !.try = @ + 1] \in [job: Job, try: 1 .. MaxAttempts]
        BY <3>2 DEF MayRetry
      <3>4. deletes' \subseteq [job: Job, try: 1 .. MaxAttempts]
        BY <2>12, <3>3 DEF DeleteFails, DeleteCall, Types, TypeOK
      <3>5. job' \in [Job -> {"unsent", "delayed", "refused", "scheduled", "sent", "deleted"}]
        BY <2>12 DEF DeleteFails, JobDeleted, Types, TypeOK
      <3>6. UserOf[d.job[1]] \in User
        BY <3>2 DEF Job, Request
      <3> QED
        BY <2>12, <3>1, <3>4, <3>5, <3>6 DEF DeleteFails, Types, TypeOK, NotTried
    <2>13. ASSUME NEW j \in Job, Schedules(j) \/ SendsMail(j) PROVE Types'
      BY <2>13 DEF Schedules, SendsMail, history, Types, TypeOK, Counted, NotTried
    <2>14. ASSUME NEW x \in User, Expire(x) PROVE Types'
      BY <2>14 DEF Expire, history, Types, TypeOK, Counted, NotTried
    <2>15. CASE UNCHANGED vars
      BY <2>15 DEF vars, history, Types, TypeOK, Counted, NotTried
    <2> QED
      BY <2>1, <2>2, <2>3, <2>4, <2>5, <2>6, <2>7, <2>8, <2>9, <2>10, <2>11, <2>12, <2>13,
         <2>14, <2>15 DEF Next, RunUpdate, RunDelete
  <1> QED
    BY <1>1, <1>2, PTL DEF Spec

\* Every reachable state of the basket repository and its reminders is well typed.
THEOREM TypeCorrect == Spec => []TypeOK
  <1>1. Types => TypeOK
    BY DEF Types
  <1> QED
    BY <1>1, TypesHold, PTL

-----------------------------------------------------------------------------
(* Jobs and the carts that name them.                                      *)

\* The local jobId of an update names a job of its own, and is set when written back.
JobsKnown ==
  \A u \in Update : /\ jobId[u] # NoJob => jobId[u][1] = u
                    /\ pc[u] = "writeBack" => jobId[u] # NoJob

\* The cart under a username was written by an update of that user.
CartsKnown == \A x \in User : cart[x] # NoCart => UserOf[cart[x].by] = x

Own == Types /\ JobsKnown /\ CartsKnown /\ JobIsOwn

\* JobIsOwn for every number of users and requests.
LEMMA OwnHolds == Spec => []Own
  <1>1. Init /\ Types => Own
    BY DEF Init, Own, JobsKnown, CartsKnown, JobIsOwn, Request
  <1>2. Own /\ Types' /\ [Next]_vars => Own'
    <2> SUFFICES ASSUME Own, Types', [Next]_vars PROVE Own'
      OBVIOUS
    <2> USE ReminderAssumption DEF Own
    <2>1. ASSUME NEW r \in Request, NEW p \in {"write", "remove"}, Start(r, p),
                 UNCHANGED <<cart, jobId>>
          PROVE  Own'
      BY <2>1 DEF Start, Goto, JobsKnown, CartsKnown, JobIsOwn, Types, TypeOK, Request
    <2>2. ASSUME NEW u \in Update, WriteCart(u) PROVE Own'
      BY <2>2, NoCartAssumption
         DEF WriteCart, Goto, history, JobsKnown, CartsKnown, JobIsOwn, Types, TypeOK, Request
    <2>3. ASSUME NEW u \in Update, NEW p \in {"waiting", "reread", "answered"}, Goto(u, p),
                 UNCHANGED <<cart, jobId>>
          PROVE  Own'
      BY <2>3 DEF Goto, JobsKnown, CartsKnown, JobIsOwn, Types, TypeOK, Request
    <2>4. ASSUME NEW u \in Update, Receive(u) PROVE Own'
      <3>1. <<u, tries[u]>> \in Job /\ <<u, tries[u]>>[1] = u
        BY <2>4 DEF Receive, Types, TypeOK, NotTried, Job
      <3>2. JobsKnown'
        BY <2>4, <3>1 DEF Receive, Goto, JobsKnown, Types, TypeOK, Request
      <3> QED
        BY <2>4, <3>2 DEF Receive, CartsKnown, JobIsOwn
    <2>5. ASSUME NEW u \in Update, WriteBack(u) PROVE Own'
      <3>1. jobId[u][1] = u
        BY <2>5 DEF WriteBack, JobsKnown
      <3> QED
        BY <2>5, <3>1
           DEF WriteBack, Goto, history, JobsKnown, CartsKnown, JobIsOwn, Types, TypeOK, Request
    <2>6. ASSUME NEW x \in User, cart' = [cart EXCEPT ![x] = NoCart], UNCHANGED jobId,
                 \A u \in Update : pc'[u] = pc[u]
          PROVE  Own'
      BY <2>6 DEF JobsKnown, CartsKnown, JobIsOwn, Types, TypeOK
    <2>7. ASSUME UNCHANGED <<cart, jobId, pc>> PROVE Own'
      BY <2>7 DEF JobsKnown, CartsKnown, JobIsOwn
    <2>8. ASSUME NEW u \in Update, StartUpdate(u) \/ RunUpdate(u) PROVE Own'
      <3>1. CASE AttemptFails(u)
        BY <3>1, <2>3, <2>7 DEF AttemptFails
      <3>2. CASE StartUpdate(u)
        BY <3>2, <2>1 DEF StartUpdate, Request
      <3>3. CASE Post(u) \/ PostRejected(u) \/ Reread(u)
        BY <3>3, <2>3 DEF Post, PostRejected, Reread
      <3> QED
        BY <2>8, <3>1, <3>2, <3>3, <2>2, <2>4, <2>5 DEF RunUpdate
    <2>9. ASSUME NEW d \in Removal, StartRemoval(d) \/ Remove(d) PROVE Own'
      <3>1. CASE StartRemoval(d)
        BY <3>1, <2>1 DEF StartRemoval, Request
      <3>2. CASE Remove(d)
        <4>1. \A u \in Update : pc'[u] = pc[u]
          BY <3>2 DEF Remove, Goto, Types, TypeOK, Request
        <4> QED
          BY <3>2, <4>1, <2>6 DEF Remove, Request
      <3> QED
        BY <2>9, <3>1, <3>2
    <2>10. ASSUME NEW d \in deletes, RunDelete(d) PROVE Own'
      BY <2>10, <2>7 DEF RunDelete, DeleteAnswered, DeleteFails
    <2>11. ASSUME NEW j \in Job, Schedules(j) \/ SendsMail(j) PROVE Own'
      BY <2>11, <2>7 DEF Schedules, SendsMail
    <2>12. ASSUME NEW x \in User, Expire(x) PROVE Own'
      BY <2>12, <2>6 DEF Expire
    <2>13. CASE UNCHANGED vars
      BY <2>13, <2>7 DEF vars
    <2> QED
      BY <2>8, <2>9, <2>10, <2>11, <2>12, <2>13 DEF Next
  <1> QED
    BY <1>1, <1>2, TypesHold, PTL DEF Spec

\* The id in a cart is that of a job of the update that wrote the cart: calling it off
\* never calls off the reminder of another cart.
THEOREM JobsAreOwn == Spec => []JobIsOwn
  <1>1. Own => JobIsOwn
    BY DEF Own
  <1> QED
    BY <1>1, OwnHolds, PTL

-----------------------------------------------------------------------------
(* The cart that stands.                                                   *)

\* As long as no two requests of a user overlapped, the request under way is the one
\* that started last; the cart is its own once it has written it, and that of the last
\* request when none is under way.
Alone ==
  \A x \in User \ overlapped :
    /\ \A r \in Underway(x) : latest[x] = r
    /\ cart[x] # NoCart =>
         /\ Underway(x) = {} => cart[x].by = latest[x]
         /\ \A u \in Underway(x) :
              pc[u] \in {"post", "waiting", "writeBack", "reread"} => cart[x].by = u

\* A request that starts overlaps or is the only one under way.
LEMMA StartKeepsAlone ==
  ASSUME Types, Alone, NEW r \in Request, NEW p \in {"write", "remove"}, Start(r, p),
         UNCHANGED cart
  PROVE  Alone'
  <1> SUFFICES ASSUME NEW x \in User, x \notin overlapped'
               PROVE  /\ \A s \in Underway(x)' : latest'[x] = s
                      /\ cart[x] # NoCart =>
                           /\ Underway(x)' = {} => cart[x].by = latest'[x]
                           /\ \A u \in Underway(x)' :
                                pc'[u] \in {"post", "waiting", "writeBack", "reread"} =>
                                  cart[x].by = u
    BY DEF Alone
  <1>1. x \notin overlapped /\ UserOf[r] \in User
    BY ReminderAssumption DEF Start
  <1>2. CASE UserOf[r] = x
    <2>1. Underway(x) = {}
      BY <1>2 DEF Start
    <2>2. Underway(x)' = {r}
      BY <1>2, <2>1 DEF Start, Goto, Underway, Types, TypeOK
    <2>3. latest'[x] = r /\ pc'[r] = p
      BY <1>1, <1>2 DEF Start, Goto, Types, TypeOK
    <2> QED
      BY <2>2, <2>3
  <1>3. CASE UserOf[r] # x
    <2>1. Underway(x)' = Underway(x) /\ latest'[x] = latest[x]
      BY <1>1, <1>3 DEF Start, Goto, Underway, Types, TypeOK
    <2>2. \A u \in Underway(x) : pc'[u] = pc[u]
      BY <1>3 DEF Start, Goto, Underway, Types, TypeOK
    <2> QED
      BY <1>1, <2>1, <2>2 DEF Alone
  <1> QED
    BY <1>2, <1>3

\* A request moves on, having written the cart of its user or written it before.
LEMMA MoveKeepsAlone ==
  ASSUME Types, Alone, NEW u \in Update, UNCHANGED <<latest, overlapped>>,
         NEW p \in {"post", "waiting", "writeBack", "reread", "answered"}, Goto(u, p),
         \/ /\ pc[u] \in {"post", "waiting", "writeBack", "reread"}
            /\ UNCHANGED cart
         \/ /\ pc[u] \in {"write", "writeBack"}
            /\ \A x \in User \ {UserOf[u]} : cart'[x] = cart[x]
            /\ cart'[UserOf[u]].by = u
  PROVE  Alone'
  <1> SUFFICES ASSUME NEW x \in User, x \notin overlapped
               PROVE  /\ \A s \in Underway(x)' : latest[x] = s
                      /\ cart'[x] # NoCart =>
                           /\ Underway(x)' = {} => cart'[x].by = latest[x]
                           /\ \A v \in Underway(x)' :
                                pc'[v] \in {"post", "waiting", "writeBack", "reread"} =>
                                  cart'[x].by = v
    BY DEF Alone
  <1>1. u \in Request /\ u \in Underway(UserOf[u])
    BY DEF Underway, Request
  <1>2. CASE UserOf[u] = x
    <2>1. latest[x] = u /\ \A v \in Underway(x) : v = u
      BY <1>1, <1>2 DEF Alone
    <2>2. Underway(x)' \subseteq {u}
      BY <1>1, <2>1 DEF Goto, Underway, Types, TypeOK
    <2>3. cart'[x] # NoCart => cart'[x].by = u
      BY <1>1, <1>2 DEF Alone
    <2> QED
      BY <2>1, <2>2, <2>3
  <1>3. CASE UserOf[u] # x
    <2>1. Underway(x)' = Underway(x) /\ cart'[x] = cart[x]
      BY <1>1, <1>3 DEF Goto, Underway, Types, TypeOK
    <2>2. \A v \in Underway(x) : pc'[v] = pc[v]
      BY <1>3 DEF Goto, Underway, Types, TypeOK
    <2> QED
      BY <2>1, <2>2 DEF Alone
  <1> QED
    BY <1>2, <1>3

\* A cart that goes, with or without its removal, leaves nothing that could be late.
LEMMA GoneKeepsAlone ==
  ASSUME Types, Alone, NEW x \in User, cart' = [cart EXCEPT ![x] = NoCart],
         UNCHANGED <<latest, overlapped>>,
         UNCHANGED pc \/ \E d \in Request : UserOf[d] = x /\ Goto(d, "answered")
  PROVE  Alone'
  <1>1. cart'[x] = NoCart /\ \A y \in User \ {x} : cart'[y] = cart[y]
    BY DEF Types, TypeOK
  <1>2. Underway(x)' \subseteq Underway(x)
    BY DEF Goto, Underway, Types, TypeOK
  <1>3. \A y \in User \ {x} : Underway(y)' = Underway(y)
    BY DEF Goto, Underway, Types, TypeOK
  <1>4. \A y \in User \ {x} : \A u \in Underway(y) : pc'[u] = pc[u]
    BY DEF Goto, Underway, Types, TypeOK
  <1> QED
    BY <1>1, <1>2, <1>3, <1>4 DEF Alone

\* A step that touches neither carts nor requests.
LEMMA QuietKeepsAlone ==
  ASSUME Alone, UNCHANGED <<cart, pc, latest, overlapped>>
  PROVE  Alone'
  BY DEF Alone, Underway

\* Every step keeps a request that is alone alone.
LEMMA AloneHolds == Spec => []Alone
  <1>1. Init => Alone
    BY DEF Init, Alone, Underway
  <1>2. Types /\ Alone /\ [Next]_vars => Alone'
    <2> SUFFICES ASSUME Types, Alone, [Next]_vars PROVE Alone'
      OBVIOUS
    <2> USE ReminderAssumption
    <2>1. ASSUME NEW u \in Update, StartUpdate(u) PROVE Alone'
      BY <2>1, StartKeepsAlone DEF StartUpdate, Request
    <2>2. ASSUME NEW u \in Update, WriteCart(u) PROVE Alone'
      <3>1. UserOf[u] \in User
        BY DEF Request
      <3> QED
        BY <2>2, <3>1, MoveKeepsAlone DEF WriteCart, history, Types, TypeOK
    <2>3. ASSUME NEW u \in Update, Post(u) \/ PostRejected(u) \/ Receive(u) \/ Reread(u)
          PROVE  Alone'
      BY <2>3, MoveKeepsAlone DEF Post, PostRejected, Receive, Reread, history
    <2>4. ASSUME NEW u \in Update, AttemptFails(u) PROVE Alone'
      BY <2>4, MoveKeepsAlone, QuietKeepsAlone DEF AttemptFails
    <2>5. ASSUME NEW u \in Update, WriteBack(u) PROVE Alone'
      <3>1. UserOf[u] \in User
        BY DEF Request
      <3> QED
        BY <2>5, <3>1, MoveKeepsAlone DEF WriteBack, history, Types, TypeOK
    <2>6. ASSUME NEW d \in Removal, StartRemoval(d) PROVE Alone'
      BY <2>6, StartKeepsAlone DEF StartRemoval, Request
    <2>7. ASSUME NEW d \in Removal, Remove(d) PROVE Alone'
      BY <2>7, GoneKeepsAlone DEF Remove, history, Request
    <2>8. ASSUME NEW x \in User, Expire(x) PROVE Alone'
      BY <2>8, GoneKeepsAlone DEF Expire, history
    <2>9. ASSUME NEW d \in deletes, RunDelete(d) PROVE Alone'
      BY <2>9, QuietKeepsAlone DEF RunDelete, DeleteAnswered, DeleteFails
    <2>10. ASSUME NEW j \in Job, Schedules(j) \/ SendsMail(j) PROVE Alone'
      BY <2>10, QuietKeepsAlone DEF Schedules, SendsMail, history
    <2>11. CASE UNCHANGED vars
      BY <2>11, QuietKeepsAlone DEF vars, history
    <2> QED
      BY <2>1, <2>2, <2>3, <2>4, <2>5, <2>6, <2>7, <2>8, <2>9, <2>10, <2>11 DEF Next, RunUpdate
  <1> QED
    BY <1>1, <1>2, TypesHold, PTL DEF Spec

\* The second write of a cart undoes nothing of a later request, whatever calls time
\* out, are retried or are rejected by the breaker in between.
THEOREM LatestStands == Spec => []LatestRequestStands
  <1>1. Alone => LatestRequestStands
    BY DEF Alone, LatestRequestStands
  <1> QED
    BY <1>1, AloneHolds, PTL

-----------------------------------------------------------------------------
(* What a step does to the attempts and their jobs.                        *)

\* Jobs only advance: a delayed request is scheduled or refused, a scheduled job is
\* sent or deleted.
JobsAdvance ==
  /\ tries' = tries
  /\ \A j \in Job :
       \/ job'[j] = job[j]
       \/ job[j] = "delayed" /\ job'[j] \in {"refused", "scheduled"}
       \/ job[j] = "scheduled" /\ job'[j] \in {"sent", "deleted"}

\* Update u sends its first attempt, admitted by the breaker, or one more after a
\* failure that left the circuit closed, which is a lost call of its user.
Sends(u) ==
  /\ SendAttempt(u)
  /\ tries[u] < MaxAttempts
  /\ \/ tries[u] = 0 /\ Admitted
     \/ tries[u] # 0 /\ CallFails /\ breaker' = "closed" /\ UserOf[u] \in lossy'

\* Every step lets the jobs advance, or sends one attempt.
LEMMA JobSteps ==
  ASSUME Types, [Next]_vars
  PROVE  /\ lossy \subseteq lossy' /\ (succeeded => succeeded')
         /\ \/ /\ JobsAdvance
               /\ \/ Admitted \/ CallFails \/ UNCHANGED <<breaker, failures>>
                  \/ succeeded'
            \/ \E u \in Update : Sends(u)
  <1> USE ReminderAssumption
  <1> DEFINE Claim ==
        /\ lossy \subseteq lossy' /\ (succeeded => succeeded')
        /\ \/ /\ JobsAdvance
              /\ \/ Admitted \/ CallFails \/ UNCHANGED <<breaker, failures>>
                 \/ succeeded'
           \/ \E u \in Update : Sends(u)
  <1>1. ASSUME NEW r \in Request, NEW p, Start(r, p), DeleteReminder(UserOf[r]),
               UNCHANGED <<tries, job>>
        PROVE  Claim
    <2>1. /\ lossy \subseteq lossy'
          /\ Admitted \/ UNCHANGED <<breaker, failures>>
      BY <1>1 DEF DeleteReminder
    <2> QED
      BY <1>1, <2>1 DEF Start, JobsAdvance
  <1>2. ASSUME UNCHANGED <<tries, job, breaker, failures, history>> PROVE Claim
    BY <1>2 DEF history, JobsAdvance
  <1>3. ASSUME NEW u \in Update, Post(u) PROVE Claim
    <2>1. CASE ScheduleUrlMapped
      <3>1. tries[u] = 0
        BY <1>3 DEF Post, Types, NotTried
      <3>2. Sends(u)
        BY <1>3, <2>1, <3>1 DEF Post, Sends
      <3> QED
        BY <1>3, <2>1, <3>2 DEF Post
    <2>2. CASE ~ScheduleUrlMapped
      BY <1>3, <2>2 DEF Post, JobsAdvance
    <2> QED
      BY <2>1, <2>2
  <1>4. ASSUME NEW u \in Update, AttemptFails(u) PROVE Claim
    <2>1. tries[u] # 0 /\ UserOf[u] \in lossy' /\ lossy \subseteq lossy'
          /\ succeeded' = succeeded /\ CallFails
      BY <1>4 DEF AttemptFails, Types, NotTried
    <2>2. CASE MayRetry(tries[u])
      <3>1. Sends(u)
        BY <1>4, <2>1, <2>2 DEF AttemptFails, MayRetry, Sends
      <3> QED
        BY <2>1, <3>1
    <2>3. CASE ~MayRetry(tries[u])
      <3>1. JobsAdvance
        BY <1>4, <2>3 DEF AttemptFails, JobsAdvance
      <3> QED
        BY <2>1, <3>1
    <2> QED
      BY <2>2, <2>3
  <1>5. ASSUME NEW d \in deletes, RunDelete(d) PROVE Claim
    <2>1. job' \in {job, JobDeleted(d.job)} /\ tries' = tries
      BY <1>5 DEF RunDelete, DeleteAnswered, DeleteFails
    <2>2. JobsAdvance
      BY <2>1 DEF JobDeleted, JobsAdvance, Types, TypeOK
    <2>3. lossy \subseteq lossy'
      BY <1>5 DEF RunDelete, DeleteAnswered, DeleteFails
    <2>4. succeeded' \/ (CallFails /\ succeeded' = succeeded)
      BY <1>5 DEF RunDelete, DeleteAnswered, DeleteFails, CallSucceeds
    <2> QED
      BY <2>2, <2>3, <2>4
  <1>6. ASSUME NEW j \in Job, Schedules(j) \/ SendsMail(j) PROVE Claim
    BY <1>6 DEF Schedules, SendsMail, history, JobsAdvance, Types, TypeOK
  <1>7. ASSUME NEW u \in Update, Receive(u) PROVE Claim
    BY <1>7 DEF Receive, CallSucceeds, JobsAdvance
  <1>8. ASSUME NEW u \in Update, StartUpdate(u) \/ RunUpdate(u) PROVE Claim
    <2>1. CASE StartUpdate(u)
      BY <1>1, <2>1 DEF StartUpdate, Request
    <2>2. CASE WriteCart(u) \/ PostRejected(u) \/ WriteBack(u) \/ Reread(u)
      BY <1>2, <2>2 DEF WriteCart, PostRejected, WriteBack, Reread
    <2> QED
      BY <1>3, <1>4, <1>7, <1>8, <2>1, <2>2 DEF RunUpdate
  <1>9. ASSUME NEW d \in Removal, StartRemoval(d) \/ Remove(d) PROVE Claim
    BY <1>1, <1>2, <1>9 DEF StartRemoval, Remove, Request
  <1>10. ASSUME NEW x \in User, Expire(x) PROVE Claim
    BY <1>2, <1>10 DEF Expire
  <1>11. CASE UNCHANGED vars
    BY <1>2, <1>11 DEF vars
  <1> QED
    BY <1>5, <1>6, <1>8, <1>9, <1>10, <1>11 DEF Next

\* An attempt is unsent as long as its number is above the count, and a user none of
\* whose calls was lost has retried none.
Sent ==
  \A u \in Update :
    /\ \A k \in 1 .. MaxAttempts : job[<<u, k>>] = "unsent" <=> k > tries[u]
    /\ UserOf[u] \notin lossy => tries[u] <= 1

\* What sending an attempt does, read pointwise.
LEMMA SendFacts ==
  ASSUME Types, NEW u \in Update, SendAttempt(u), tries[u] < MaxAttempts
  PROVE  /\ <<u, tries[u] + 1>> \in Job /\ tries[u] \in Nat
         /\ tries'[u] = tries[u] + 1
         /\ job'[<<u, tries[u] + 1>>] = "delayed"
         /\ \A v \in Update \ {u} : tries'[v] = tries[v]
         /\ \A j \in Job \ {<<u, tries[u] + 1>>} : job'[j] = job[j]
  <1>1. tries[u] \in Nat /\ tries[u] + 1 \in 1 .. MaxAttempts
    BY ReminderAssumption DEF Types, TypeOK
  <1>2. <<u, tries[u] + 1>> \in Job
    BY <1>1 DEF Job
  <1> QED
    BY <1>1, <1>2 DEF SendAttempt, Types, TypeOK

\* Attempts are sent in order, and only one of them unless a call was lost.
LEMMA SentHolds == Spec => []Sent
  <1>1. Init => Sent
    <2> SUFFICES ASSUME Init, NEW u \in Update
                 PROVE  /\ \A k \in 1 .. MaxAttempts : job[<<u, k>>] = "unsent" <=> k > tries[u]
                        /\ UserOf[u] \notin lossy => tries[u] <= 1
      BY DEF Sent
    <2>1. \A k \in 1 .. MaxAttempts : <<u, k>> \in Job
      BY DEF Job
    <2> QED
      BY <2>1 DEF Init
  <1>2. Types /\ Sent /\ [Next]_vars => Sent'
    <2> SUFFICES ASSUME Types, Sent, [Next]_vars, NEW v \in Update
                 PROVE  /\ \A k \in 1 .. MaxAttempts :
                             job'[<<v, k>>] = "unsent" <=> k > tries'[v]
                        /\ UserOf[v] \notin lossy' => tries'[v] <= 1
      BY DEF Sent
    <2>1. \A k \in 1 .. MaxAttempts : <<v, k>> \in Job
      BY DEF Job
    <2>2. lossy \subseteq lossy'
      BY JobSteps
    <2>3. tries[v] \in Nat
      BY ReminderAssumption DEF Types, TypeOK
    <2>4. CASE JobsAdvance
      BY <2>1, <2>2, <2>4 DEF JobsAdvance, Sent
    <2>5. ASSUME NEW u \in Update, Sends(u)
          PROVE  /\ \A k \in 1 .. MaxAttempts :
                      job'[<<v, k>>] = "unsent" <=> k > tries'[v]
                 /\ UserOf[v] \notin lossy' => tries'[v] <= 1
      <3>1. /\ tries[u] \in Nat /\ tries'[u] = tries[u] + 1
            /\ job'[<<u, tries[u] + 1>>] = "delayed"
            /\ \A w \in Update \ {u} : tries'[w] = tries[w]
            /\ \A j \in Job \ {<<u, tries[u] + 1>>} : job'[j] = job[j]
        BY <2>5, SendFacts DEF Sends
      <3>2. UserOf[u] \notin lossy' => tries[u] = 0
        BY <2>5 DEF Sends
      <3>3. \A k \in 1 .. MaxAttempts : job'[<<v, k>>] = "unsent" <=> k > tries'[v]
        <4> SUFFICES ASSUME NEW k \in 1 .. MaxAttempts
                     PROVE  job'[<<v, k>>] = "unsent" <=> k > tries'[v]
          OBVIOUS
        <4>1. CASE v = u /\ k = tries[u] + 1
          BY <3>1, <4>1
        <4>2. CASE ~(v = u /\ k = tries[u] + 1)
          <5>1. job'[<<v, k>>] = job[<<v, k>>]
            BY <2>1, <3>1, <4>2
          <5> QED
            BY <2>3, <3>1, <4>2, <5>1 DEF Sent
        <4> QED
          BY <4>1, <4>2
      <3>4. UserOf[v] \notin lossy' => tries'[v] <= 1
        BY <2>2, <3>1, <3>2 DEF Sent
      <3> QED
        BY <3>3, <3>4
    <2> QED
      BY <2>4, <2>5, JobSteps
  <1> QED
    BY <1>1, <1>2, TypesHold, PTL DEF Spec

\* One update has at most as many reminders scheduled as attempts sent, and at most
\* one unless a call of its user was lost, for any number of attempts.
THEOREM RemindersAreBounded == Spec => []RemindersBounded
  <1>1. Types /\ Sent => RemindersBounded
    <2> SUFFICES ASSUME Types, Sent, NEW u \in Update
                 PROVE  LET scheduled == {j \in Job : j[1] = u /\ job[j] \in {"scheduled", "sent", "deleted"}}
                        IN  /\ Cardinality(scheduled) <= tries[u]
                            /\ UserOf[u] \notin lossy => Cardinality(scheduled) <= 1
      BY DEF RemindersBounded
    <2> DEFINE scheduled == {j \in Job : j[1] = u /\ job[j] \in {"scheduled", "sent", "deleted"}}
               number == [j \in scheduled |-> j[2]]
    <2>1. tries[u] \in Nat
      BY ReminderAssumption DEF Types, TypeOK
    <2>2. \A j \in scheduled : j[2] \in 1 .. tries[u] /\ j = <<u, j[2]>>
      BY <2>1 DEF Job, Sent
    <2>3. number \in Injection(scheduled, 1 .. tries[u])
      BY <2>2 DEF Injection, IsInjective
    <2>4. IsFiniteSet(1 .. tries[u]) /\ Cardinality(1 .. tries[u]) = tries[u]
      BY <2>1, FS_Interval
    <2> HIDE DEF scheduled, number
    <2>5. IsFiniteSet(scheduled) /\ Cardinality(scheduled) <= tries[u]
      BY <2>3, <2>4, FS_Injection
    <2>6. Cardinality(scheduled) \in Nat
      BY <2>5, FS_CardinalityType
    <2> QED
      BY <2>1, <2>5, <2>6 DEF scheduled, Sent
  <1> QED
    BY <1>1, TypesHold, SentHolds, PTL

-----------------------------------------------------------------------------
(* The breaker's bound.                                                    *)

Posts == {j \in Job : job[j] # "unsent"}
Posted == {u \in Update : tries[u] # 0}

\* While no call succeeds every POST is the first of its update or is paid for by a
\* failure the breaker has counted: of these a broken circuit has seen all but one.
Charged ==
  ~succeeded =>
    Cardinality(Posts) <= Cardinality(Posted) +
                            (IF breaker = "closed" THEN failures ELSE Threshold - 1)

\* With finitely many updates what is counted is finite.
LEMMA PostsFinite ==
  ASSUME IsFiniteSet(Update)
  PROVE  /\ IsFiniteSet(Posts) /\ Cardinality(Posts) \in Nat
         /\ IsFiniteSet(Posted) /\ Cardinality(Posted) \in Nat
         /\ Cardinality(Posted) <= Cardinality(Update)
  <1>1. IsFiniteSet(1 .. MaxAttempts)
    BY ReminderAssumption, FS_Interval
  <1>2. IsFiniteSet(Job)
    BY <1>1, FS_Product DEF Job
  <1>3. IsFiniteSet(Posts)
    BY <1>2, FS_Subset DEF Posts
  <1>4. IsFiniteSet(Posted) /\ Cardinality(Posted) <= Cardinality(Update)
    BY FS_Subset DEF Posted
  <1> QED
    BY <1>3, <1>4, FS_CardinalityType

\* The charge holds throughout.
LEMMA ChargedHolds == ASSUME IsFiniteSet(Update) PROVE Spec => []Charged
  <1>1. Init => Charged
    <2> SUFFICES ASSUME Init PROVE Charged
      OBVIOUS
    <2>1. Posts = {} /\ Posted = {} /\ breaker = "closed" /\ failures = 0
      BY DEF Init, Posts, Posted
    <2> QED
      BY <2>1, FS_EmptySet DEF Charged
  <1>2. Types /\ Types' /\ Sent /\ Charged /\ [Next]_vars => Charged'
    <2> SUFFICES ASSUME Types, Types', Sent, Charged, [Next]_vars, ~succeeded'
                 PROVE  Cardinality(Posts)' <= Cardinality(Posted)' +
                          (IF breaker' = "closed" THEN failures' ELSE Threshold - 1)
      BY DEF Charged
    <2>1. ~succeeded
      BY JobSteps
    <2>2. /\ Cardinality(Posts) \in Nat /\ Cardinality(Posted) \in Nat
          /\ IsFiniteSet(Posts) /\ IsFiniteSet(Posted)
          /\ failures \in Nat /\ failures' \in Nat /\ Threshold \in Nat \ {0}
          /\ (breaker = "closed" => failures < Threshold)
          /\ (breaker' = "closed" => failures' < Threshold)
          /\ breaker \in {"closed", "open", "halfOpen"}
      BY PostsFinite, ReminderAssumption DEF Types, TypeOK, Counted
    <2>3. Cardinality(Posts) <= Cardinality(Posted) +
            (IF breaker = "closed" THEN failures ELSE Threshold - 1)
      BY <2>1 DEF Charged
    <2>4. CASE JobsAdvance /\ (Admitted \/ CallFails \/ UNCHANGED <<breaker, failures>>)
      <3>1. Posts' = Posts /\ Posted' = Posted
        BY <2>4 DEF JobsAdvance, Posts, Posted
      <3>2. (IF breaker = "closed" THEN failures ELSE Threshold - 1)
              <= (IF breaker' = "closed" THEN failures' ELSE Threshold - 1)
        BY <2>2, <2>4 DEF Admitted, CallFails
      <3> QED
        BY <2>2, <2>3, <3>1, <3>2
    <2>5. ASSUME NEW u \in Update, Sends(u)
          PROVE  Cardinality(Posts)' <= Cardinality(Posted)' +
                   (IF breaker' = "closed" THEN failures' ELSE Threshold - 1)
      <3>1. /\ <<u, tries[u] + 1>> \in Job /\ tries[u] \in Nat
            /\ tries'[u] = tries[u] + 1
            /\ job'[<<u, tries[u] + 1>>] = "delayed"
            /\ \A v \in Update \ {u} : tries'[v] = tries[v]
            /\ \A j \in Job \ {<<u, tries[u] + 1>>} : job'[j] = job[j]
        BY <2>5, SendFacts DEF Sends
      <3>2. Posts' = Posts \cup {<<u, tries[u] + 1>>}
        BY <3>1 DEF Posts
      <3>3. Cardinality(Posts)' \in {Cardinality(Posts), Cardinality(Posts) + 1}
        BY <2>2, <3>2, FS_AddElement
      <3>4. CASE tries[u] = 0 /\ Admitted
        <4>1. Posted' = Posted \cup {u} /\ u \notin Posted
          BY <3>1, <3>4 DEF Posted
        <4>2. Cardinality(Posted)' = Cardinality(Posted) + 1
          BY <2>2, <4>1, FS_AddElement
        <4>3. (IF breaker = "closed" THEN failures ELSE Threshold - 1)
                <= (IF breaker' = "closed" THEN failures' ELSE Threshold - 1)
          BY <2>2, <3>4 DEF Admitted
        <4> QED
          BY <2>2, <2>3, <3>3, <4>2, <4>3
      <3>5. CASE tries[u] # 0 /\ CallFails /\ breaker' = "closed"
        <4>1. Posted' = Posted
          BY <3>1, <3>5 DEF Posted
        <4>2. breaker = "closed" /\ failures' = failures + 1
          BY <3>5 DEF CallFails
        <4> QED
          BY <2>2, <2>3, <3>3, <3>5, <4>1, <4>2
      <3> QED
        BY <2>5, <3>4, <3>5 DEF Sends
    <2> QED
      BY <2>4, <2>5, JobSteps
  <1> QED
    BY <1>1, <1>2, TypesHold, SentHolds, PTL DEF Spec

\* While no call succeeds the breaker bounds the POSTs of all updates together, for
\* any finite number of them, any number of attempts and any threshold.
THEOREM BreakerBounds == ASSUME IsFiniteSet(Update) PROVE Spec => []BreakerBoundsPosts
  <1>1. Types /\ Charged => BreakerBoundsPosts
    <2> SUFFICES ASSUME Types, Charged, ~succeeded
                 PROVE  Cardinality(Posts) <= Cardinality(Update) + Threshold - 1
      BY DEF BreakerBoundsPosts, Posts
    <2>1. /\ Cardinality(Posts) \in Nat /\ Cardinality(Posted) \in Nat
          /\ Cardinality(Posted) <= Cardinality(Update)
          /\ Cardinality(Update) \in Nat
          /\ failures \in Nat /\ Threshold \in Nat \ {0}
          /\ breaker = "closed" => failures < Threshold
      BY PostsFinite, FS_CardinalityType, ReminderAssumption DEF Types, TypeOK, Counted
    <2> QED
      BY <2>1 DEF Charged
  <1> QED
    BY <1>1, TypesHold, ChargedHolds, PTL

-----------------------------------------------------------------------------
(* Reminders that can still be called off.                                 *)

\* A job id an update or a cart holds was answered: its job is past its delay.  A
\* cart that names a job does not expire.
Received ==
  /\ \A u \in Update : pc[u] = "writeBack" =>
       jobId[u] = <<u, tries[u]>> /\ job[jobId[u]] \notin {"unsent", "delayed"}
  /\ \A x \in User : cart[x] # NoCart /\ cart[x].job # NoJob =>
       job[cart[x].job] \notin {"unsent", "delayed"} /\ ~cart[x].expires

\* Unless a call was lost, an attempt in its delay is one its update waits for.
DelayedIsAwaited ==
  \A j \in Job : job[j] = "delayed" /\ UserOf[j[1]] \notin lossy => pc[j[1]] = "waiting"

\* A request that is about to replace or remove a cart has called off its reminder.
CalledOff ==
  \A r \in Request :
    LET x == UserOf[r]
    IN  /\ pc[r] \in {"write", "remove"} /\ x \notin overlapped \cup lossy
        /\ cart[x] # NoCart /\ cart[x].job # NoJob /\ job[cart[x].job] = "scheduled"
        => \E d \in deletes : d.job = cart[x].job

\* A reminder still to be mailed is within reach of its user's next request.
Tracked ==
  \A j \in Job : job[j] = "scheduled" /\ UserOf[j[1]] \notin overlapped \cup lossy =>
    \/ cart[UserOf[j[1]]] # NoCart /\ cart[UserOf[j[1]]].job = j
    \/ \E d \in deletes : d.job = j
    \/ pc[j[1]] \in {"waiting", "writeBack"}

\* No step takes a job back to where it was unsent or delayed; one that is scheduled
\* was scheduled before or delayed.
LEMMA JobForward ==
  ASSUME Types, Sent, [Next]_vars, NEW j \in Job
  PROVE  /\ job[j] \notin {"unsent", "delayed"} => job'[j] \notin {"unsent", "delayed"}
         /\ job'[j] = "scheduled" => job[j] \in {"scheduled", "delayed"}
         /\ lossy \subseteq lossy'
  <1>1. CASE JobsAdvance
    BY <1>1, JobSteps DEF JobsAdvance
  <1>2. ASSUME NEW u \in Update, Sends(u)
        PROVE  /\ job[j] \notin {"unsent", "delayed"} => job'[j] \notin {"unsent", "delayed"}
               /\ job'[j] = "scheduled" => job[j] \in {"scheduled", "delayed"}
    <2>1. /\ tries[u] \in Nat /\ tries[u] + 1 \in 1 .. MaxAttempts
          /\ job'[<<u, tries[u] + 1>>] = "delayed"
          /\ \A i \in Job \ {<<u, tries[u] + 1>>} : job'[i] = job[i]
      BY <1>2, SendFacts, ReminderAssumption DEF Sends, Job, Types, TypeOK
    <2>2. job[<<u, tries[u] + 1>>] = "unsent"
      BY <2>1 DEF Sent
    <2> QED
      BY <2>1, <2>2
  <1> QED
    BY <1>1, <1>2, JobSteps

\* A step keeps what is received if what it newly puts into a jobId or a cart is.
LEMMA ReceivedKept ==
  ASSUME Own, Sent, Received, [Next]_vars,
         \A u \in Update : pc'[u] = "writeBack" =>
           \/ pc[u] = "writeBack" /\ jobId'[u] = jobId[u] /\ tries'[u] = tries[u]
           \/ /\ jobId'[u] = <<u, tries'[u]>>
              /\ job'[jobId'[u]] \notin {"unsent", "delayed"},
         \A x \in User :
           \/ cart'[x] \in {cart[x], NoCart}
           \/ cart'[x].job = NoJob
           \/ \E u \in Update : /\ pc[u] = "writeBack" /\ cart'[x].job = jobId[u]
                                /\ ~cart'[x].expires
  PROVE  Received'
  <1>1. \A j \in Job :
          job[j] \notin {"unsent", "delayed"} => job'[j] \notin {"unsent", "delayed"}
    BY JobForward DEF Own
  <1>2. \A u \in Update : pc[u] = "writeBack" => jobId[u] \in Job
    BY DEF Own, JobsKnown, Types, TypeOK
  <1>3. \A x \in User : cart[x] # NoCart /\ cart[x].job # NoJob => cart[x].job \in Job
    BY DEF Own, Types, TypeOK, Cart
  <1>4. \A u \in Update : pc'[u] = "writeBack" =>
          jobId'[u] = <<u, tries'[u]>> /\ job'[jobId'[u]] \notin {"unsent", "delayed"}
    BY <1>1, <1>2 DEF Received
  <1>5. ASSUME NEW x \in User, cart'[x] # NoCart, cart'[x].job # NoJob
        PROVE  job'[cart'[x].job] \notin {"unsent", "delayed"} /\ ~cart'[x].expires
    <2>1. CASE cart'[x] = cart[x]
      BY <1>1, <1>3, <1>5, <2>1 DEF Received
    <2>2. ASSUME NEW u \in Update, pc[u] = "writeBack", cart'[x].job = jobId[u],
                 ~cart'[x].expires
          PROVE  job'[cart'[x].job] \notin {"unsent", "delayed"} /\ ~cart'[x].expires
      BY <1>1, <1>2, <2>2 DEF Received
    <2> QED
      BY <1>5, <2>1, <2>2
  <1> QED
    BY <1>4, <1>5 DEF Received

\* Every step keeps what is received.
LEMMA NextReceived ==
  ASSUME Own, Sent, Received, [Next]_vars
  PROVE  Received'
  <1> USE ReminderAssumption
  <1>1. Types
    BY DEF Own
  <1>2. ASSUME NEW r \in Request, NEW p, p # "writeBack", Goto(r, p),
               UNCHANGED <<cart, jobId>>, \A u \in Update \ {r} : tries'[u] = tries[u]
        PROVE  Received'
    <2>1. \A u \in Update : pc'[u] = "writeBack" => u # r /\ pc[u] = "writeBack"
      BY <1>1, <1>2 DEF Goto, Types, TypeOK, Request
    <2> QED
      BY <1>2, <2>1, ReceivedKept
  <1>3. ASSUME UNCHANGED <<cart, jobId, pc, tries>> PROVE Received'
    BY <1>3, ReceivedKept
  <1>4. ASSUME NEW u \in Update, WriteCart(u) PROVE Received'
    <2>1. \A x \in User : cart'[x] = cart[x] \/ cart'[x].job = NoJob
      BY <1>1, <1>4 DEF WriteCart, Types, TypeOK
    <2>2. \A v \in Update : pc'[v] = "writeBack" =>
            pc[v] = "writeBack" /\ jobId'[v] = jobId[v] /\ tries'[v] = tries[v]
      BY <1>1, <1>4 DEF WriteCart, Goto, Types, TypeOK, Request
    <2> QED
      BY <2>1, <2>2, ReceivedKept
  <1>5. ASSUME NEW u \in Update, Post(u) PROVE Received'
    <2>1. \A v \in Update \ {u} : tries'[v] = tries[v]
      BY <1>1, <1>5 DEF Post, SendAttempt, Types, TypeOK
    <2> QED
      BY <1>2, <1>5, <2>1 DEF Post, Request
  <1>6. ASSUME NEW u \in Update, Receive(u) PROVE Received'
    <2>1. job' = job /\ tries' = tries /\ cart' = cart
          /\ job[<<u, tries[u]>>] \in {"refused", "scheduled", "sent"}
      BY <1>6 DEF Receive
    <2>2. /\ pc'[u] = "writeBack" => jobId'[u] = <<u, tries[u]>>
          /\ \A v \in Update \ {u} : pc'[v] = pc[v] /\ jobId'[v] = jobId[v]
      BY <1>1, <1>6 DEF Receive, Goto, Types, TypeOK, Request
    <2> QED
      BY <2>1, <2>2, ReceivedKept
  <1>7. ASSUME NEW u \in Update, AttemptFails(u) PROVE Received'
    <2>1. /\ \A v \in Update \ {u} : tries'[v] = tries[v] /\ pc'[v] = pc[v]
          /\ pc[u] = "waiting" /\ pc'[u] \in {"waiting", "reread"}
          /\ UNCHANGED <<cart, jobId>>
      BY <1>1, <1>7 DEF AttemptFails, SendAttempt, Goto, Types, TypeOK, Request
    <2>2. \A v \in Update : pc'[v] = "writeBack" =>
            pc[v] = "writeBack" /\ jobId'[v] = jobId[v] /\ tries'[v] = tries[v]
      BY <2>1
    <2> QED
      BY <2>1, <2>2, ReceivedKept
  <1>8. ASSUME NEW u \in Update, WriteBack(u) PROVE Received'
    <2>1. /\ \A v \in Update : pc'[v] = "writeBack" => pc[v] = "writeBack"
          /\ jobId' = jobId /\ tries' = tries /\ pc[u] = "writeBack"
      BY <1>1, <1>8 DEF WriteBack, Goto, Types, TypeOK, Request
    <2>2. \A x \in User : \/ cart'[x] = cart[x]
                          \/ cart'[x].job = jobId[u] /\ ~cart'[x].expires
      BY <1>1, <1>8 DEF WriteBack, Types, TypeOK
    <2> QED
      BY <2>1, <2>2, ReceivedKept
  <1>9. ASSUME NEW x \in User, cart' = [cart EXCEPT ![x] = NoCart], UNCHANGED <<jobId, tries>>,
               \A u \in Update : pc'[u] = pc[u]
        PROVE  Received'
    <2>1. \A y \in User : cart'[y] \in {cart[y], NoCart}
      BY <1>1, <1>9 DEF Types, TypeOK
    <2> QED
      BY <1>9, <2>1, ReceivedKept
  <1>10. ASSUME NEW u \in Update, StartUpdate(u) \/ RunUpdate(u) PROVE Received'
    <2>1. CASE StartUpdate(u)
      BY <1>2, <2>1 DEF StartUpdate, Start, Request
    <2>2. CASE PostRejected(u) \/ Reread(u)
      BY <1>2, <2>2 DEF PostRejected, Reread, Request
    <2> QED
      BY <1>4, <1>5, <1>6, <1>7, <1>8, <1>10, <2>1, <2>2 DEF RunUpdate
  <1>11. ASSUME NEW d \in Removal, StartRemoval(d) \/ Remove(d) PROVE Received'
    <2>1. CASE StartRemoval(d)
      BY <1>2, <2>1 DEF StartRemoval, Start, Request
    <2>2. CASE Remove(d)
      <3>1. \A u \in Update : pc'[u] = pc[u]
        BY <1>1, <2>2 DEF Remove, Goto, Types, TypeOK, Request
      <3> QED
        BY <1>9, <2>2, <3>1 DEF Remove, Request
    <2> QED
      BY <1>11, <2>1, <2>2
  <1>12. ASSUME NEW d \in deletes, RunDelete(d) PROVE Received'
    BY <1>3, <1>12 DEF RunDelete, DeleteAnswered, DeleteFails
  <1>13. ASSUME NEW j \in Job, Schedules(j) \/ SendsMail(j) PROVE Received'
    BY <1>3, <1>13 DEF Schedules, SendsMail
  <1>14. ASSUME NEW x \in User, Expire(x) PROVE Received'
    BY <1>9, <1>14 DEF Expire
  <1>15. CASE UNCHANGED vars
    BY <1>3, <1>15 DEF vars
  <1> QED
    BY <1>10, <1>11, <1>12, <1>13, <1>14, <1>15 DEF Next

\* Every step keeps awaiting what is delayed.
LEMMA NextDelayed ==
  ASSUME Types, Sent, DelayedIsAwaited, [Next]_vars
  PROVE  DelayedIsAwaited'
  <1> USE ReminderAssumption
  <1> SUFFICES ASSUME NEW j \in Job, job'[j] = "delayed", UserOf[j[1]] \notin lossy'
               PROVE  pc'[j[1]] = "waiting"
    BY DEF DelayedIsAwaited
  <1>1. j[1] \in Update /\ j[1] \in Request /\ j[1] \notin Removal
    BY DEF Job, Request
  <1>2. lossy \subseteq lossy'
    BY JobSteps
  <1>3. job[j] = "delayed" => pc[j[1]] = "waiting"
    BY <1>2 DEF DelayedIsAwaited
  <1>4. ASSUME NEW r \in Request, NEW p, Goto(r, p), r # j[1] \/ pc[r] # "waiting", job' = job
        PROVE  pc'[j[1]] = "waiting"
    BY <1>1, <1>3, <1>4 DEF Goto, Types, TypeOK
  <1>5. ASSUME pc' = pc, job[j] = "delayed" PROVE pc'[j[1]] = "waiting"
    BY <1>3, <1>5
  <1>6. ASSUME NEW u \in Update, Post(u) PROVE pc'[j[1]] = "waiting"
    <2>1. pc[u] = "post" /\ u \in Request
      BY <1>6 DEF Post, Request
    <2>2. CASE ScheduleUrlMapped
      <3>1. /\ tries[u] = 0 /\ SendAttempt(u) /\ pc'[u] = "waiting"
            /\ \A v \in Request \ {u} : pc'[v] = pc[v]
        BY <1>6, <2>1, <2>2 DEF Post, Goto, Types, TypeOK, NotTried
      <3>4. tries[u] < MaxAttempts
        BY <3>1
      <3>2. \A i \in Job \ {<<u, tries[u] + 1>>} : job'[i] = job[i]
        BY <3>1, <3>4, SendFacts
      <3>3. <<u, tries[u] + 1>>[1] = u
        OBVIOUS
      <3> QED
        BY <1>1, <1>3, <3>1, <3>2, <3>3
    <2>3. CASE ~ScheduleUrlMapped
      BY <1>4, <1>6, <2>1, <2>3 DEF Post
    <2> QED
      BY <2>2, <2>3
  <1>7. ASSUME NEW u \in Update, Receive(u) PROVE pc'[j[1]] = "waiting"
    <2>1. /\ job' = job /\ job[<<u, tries[u]>>] # "delayed" /\ u \in Request
          /\ \A v \in Request \ {u} : pc'[v] = pc[v]
      BY <1>7 DEF Receive, Goto, Types, TypeOK, Request
    <2>2. j[1] # u
      <3> SUFFICES ASSUME j[1] = u PROVE FALSE
        OBVIOUS
      <3>1. PICK k \in 1 .. MaxAttempts : j = <<u, k>>
        BY DEF Job
      <3>2. tries[u] \in Nat /\ tries[u] <= 1 /\ k <= tries[u]
        BY <1>2, <2>1, <3>1 DEF Sent, Types, TypeOK
      <3>3. k = tries[u]
        BY <3>2
      <3> QED
        BY <2>1, <3>1, <3>3
    <2> QED
      BY <1>1, <1>3, <2>1, <2>2
  <1>8. ASSUME NEW u \in Update, AttemptFails(u) PROVE pc'[j[1]] = "waiting"
    <2>1. j[1] # u
      BY <1>8 DEF AttemptFails
    <2>2. \A v \in Request \ {u} : pc'[v] = pc[v]
      BY <1>8 DEF AttemptFails, Goto, Types, TypeOK
    <2>3. job'[j] = job[j]
      BY <1>8, <2>1 DEF AttemptFails, SendAttempt, Types, TypeOK
    <2> QED
      BY <1>1, <1>3, <2>1, <2>2, <2>3
  <1>9. ASSUME NEW u \in Update, StartUpdate(u) \/ RunUpdate(u) PROVE pc'[j[1]] = "waiting"
    <2>1. CASE StartUpdate(u)
      BY <1>4, <2>1 DEF StartUpdate, Start, Request
    <2>2. CASE WriteCart(u) \/ PostRejected(u) \/ WriteBack(u) \/ Reread(u)
      BY <1>4, <2>2 DEF WriteCart, PostRejected, WriteBack, Reread, Request
    <2> QED
      BY <1>6, <1>7, <1>8, <1>9, <2>1, <2>2 DEF RunUpdate
  <1>10. ASSUME NEW d \in Removal, StartRemoval(d) \/ Remove(d) PROVE pc'[j[1]] = "waiting"
    BY <1>1, <1>4, <1>10 DEF StartRemoval, Start, Remove, Request
  <1>11. ASSUME NEW d \in deletes, RunDelete(d) PROVE pc'[j[1]] = "waiting"
    <2>1. pc' = pc /\ job' \in {job, JobDeleted(d.job)}
      BY <1>11 DEF RunDelete, DeleteAnswered, DeleteFails
    <2>2. job[j] = "delayed"
      BY <2>1 DEF JobDeleted, Types, TypeOK
    <2> QED
      BY <1>5, <2>1, <2>2
  <1>12. ASSUME NEW i \in Job, Schedules(i) \/ SendsMail(i) PROVE pc'[j[1]] = "waiting"
    <2>1. pc' = pc /\ job[j] = "delayed"
      BY <1>12 DEF Schedules, SendsMail, Types, TypeOK
    <2> QED
      BY <1>5, <2>1
  <1>13. ASSUME NEW x \in User, Expire(x) PROVE pc'[j[1]] = "waiting"
    BY <1>5, <1>13 DEF Expire
  <1>14. CASE UNCHANGED vars
    BY <1>5, <1>14 DEF vars
  <1> QED
    BY <1>9, <1>10, <1>11, <1>12, <1>13, <1>14 DEF Next

\* What is known of every reachable state.
Known ==
  /\ Own /\ Alone /\ Sent
  /\ Received /\ DelayedIsAwaited /\ CalledOff /\ Tracked

\* A user without overlapping requests has at most one under way.
LEMMA OneUnderway ==
  ASSUME Alone, NEW r \in Request, NEW q \in Request, UserOf[r] = UserOf[q],
         UserOf[r] \notin overlapped,
         pc[r] \notin {"start", "answered"}, pc[q] \notin {"start", "answered"}
  PROVE  r = q
  <1>1. UserOf[r] \in User
    BY ReminderAssumption
  <1> QED
    BY <1>1 DEF Alone, Underway

\* What holds of a scheduled job before a step that leaves its user's calls whole.
LEMMA TrackedBefore ==
  ASSUME Known, [Next]_vars, overlapped \subseteq overlapped', NEW j \in Job,
         job'[j] = "scheduled", UserOf[j[1]] \notin overlapped' \cup lossy'
  PROVE  /\ j[1] \in Update /\ UserOf[j[1]] \in User
         /\ UserOf[j[1]] \notin overlapped \cup lossy
         /\ \/ /\ cart[UserOf[j[1]]] # NoCart /\ cart[UserOf[j[1]]].job = j
               /\ job[j] = "scheduled"
            \/ \E d \in deletes : d.job = j
            \/ pc[j[1]] \in {"waiting", "writeBack"}
  <1>1. j[1] \in Update /\ UserOf[j[1]] \in User
    BY ReminderAssumption DEF Job, Request
  <1>2. lossy \subseteq lossy' /\ job[j] \in {"scheduled", "delayed"}
    BY JobForward DEF Known, Own
  <1>3. job[j] = "delayed" => pc[j[1]] = "waiting"
    BY <1>2 DEF Known, DelayedIsAwaited
  <1> QED
    BY <1>1, <1>2, <1>3 DEF Known, Tracked

\* A job stays tracked if its cart stays or is called off, its DELETE stays, and its
\* update goes on waiting.
LEMMA TrackedKept ==
  ASSUME Known, [Next]_vars, overlapped \subseteq overlapped',
         \A j \in Job : job'[j] = "scheduled" /\ UserOf[j[1]] \notin overlapped' \cup lossy' =>
           /\ cart[UserOf[j[1]]] # NoCart /\ cart[UserOf[j[1]]].job = j
                /\ job[j] = "scheduled" =>
                \/ cart'[UserOf[j[1]]] = cart[UserOf[j[1]]]
                \/ \E d \in deletes' : d.job = j
           /\ \A d \in deletes : d.job = j => \E e \in deletes' : e.job = j
           /\ pc[j[1]] \in {"waiting", "writeBack"} =>
                \/ pc'[j[1]] \in {"waiting", "writeBack"}
                \/ cart'[UserOf[j[1]]] # NoCart /\ cart'[UserOf[j[1]]].job = j
  PROVE  Tracked'
  <1> SUFFICES ASSUME NEW j \in Job, job'[j] = "scheduled",
                      UserOf[j[1]] \notin overlapped' \cup lossy'
               PROVE  \/ cart'[UserOf[j[1]]] # NoCart /\ cart'[UserOf[j[1]]].job = j
                      \/ \E d \in deletes' : d.job = j
                      \/ pc'[j[1]] \in {"waiting", "writeBack"}
    BY DEF Tracked
  <1> QED
    BY TrackedBefore

\* What was called off stays so: the cart is the same, and its DELETE is under way
\* until the job is gone or a call of its user is lost.
LEMMA CalledOffKept ==
  ASSUME Known, [Next]_vars, overlapped \subseteq overlapped',
         NEW r \in Request, pc'[r] \in {"write", "remove"}, pc'[r] = pc[r],
         UserOf[r] \notin overlapped' \cup lossy',
         cart'[UserOf[r]] \in {cart[UserOf[r]], NoCart},
         cart'[UserOf[r]] # NoCart, cart'[UserOf[r]].job # NoJob,
         job'[cart'[UserOf[r]].job] = "scheduled",
         \A d \in deletes : \/ \E e \in deletes' : e.job = d.job
                            \/ job'[d.job] # "scheduled"
                            \/ UserOf[d.job[1]] \in lossy'
  PROVE  \E d \in deletes' : d.job = cart'[UserOf[r]].job
  <1> DEFINE x == UserOf[r]
  <1>1. x \in User /\ cart'[x] = cart[x]
    BY ReminderAssumption
  <1>2. cart[x].job \in Job
    BY <1>1 DEF Known, Own, Types, TypeOK, Cart
  <1>3. lossy \subseteq lossy' /\ job[cart[x].job] \in {"scheduled", "delayed"}
    BY <1>1, <1>2, JobForward DEF Known, Own
  <1>4. job[cart[x].job] = "scheduled"
    BY <1>1, <1>3 DEF Known, Received
  <1>5. PICK d \in deletes : d.job = cart[x].job
    BY <1>1, <1>3, <1>4 DEF Known, CalledOff
  <1>6. UserOf[d.job[1]] = x
    BY <1>1, <1>5 DEF Known, Own, JobIsOwn
  <1> QED
    BY <1>1, <1>5, <1>6

\* Starting a request calls off the reminder of the cart it will replace.
LEMMA StartTracks ==
  ASSUME Known, [Next]_vars, NEW r \in Request, NEW p \in {"write", "remove"}, Start(r, p),
         DeleteReminder(UserOf[r]), UNCHANGED <<cart, tries, jobId, job>>
  PROVE  CalledOff' /\ Tracked'
  <1>1. /\ pc[r] = "start" /\ overlapped \subseteq overlapped'
        /\ \A q \in Request \ {r} : pc'[q] = pc[q]
    BY DEF Start, Goto, Known, Own, Types, TypeOK
  <1>2. deletes \subseteq deletes'
    BY DEF DeleteReminder
  <1>3. ASSUME NEW q \in Request, pc'[q] \in {"write", "remove"},
               UserOf[q] \notin overlapped' \cup lossy', cart'[UserOf[q]] # NoCart,
               cart'[UserOf[q]].job # NoJob, job'[cart'[UserOf[q]].job] = "scheduled"
        PROVE  \E d \in deletes' : d.job = cart'[UserOf[q]].job
    <2>1. CASE q = r
      <3> DEFINE e == [job |-> cart[UserOf[r]].job, try |-> 1]
      <3>1. /\ cart' = cart /\ UserOf[r] \notin lossy'
            /\ ~(cart[UserOf[r]] = NoCart \/ cart[UserOf[r]].job = NoJob)
        BY <1>3, <2>1
      <3>2. \/ deletes' = deletes \cup {e}
            \/ lossy' = lossy \cup {UserOf[r]}
        BY <3>1 DEF DeleteReminder
      <3>3. e \in deletes'
        BY <3>1, <3>2
      <3>4. e.job = cart'[UserOf[q]].job
        BY <2>1, <3>1
      <3> QED
        BY <3>3, <3>4
    <2>2. CASE q # r
      BY <1>1, <1>2, <1>3, <2>2, CalledOffKept
    <2> QED
      BY <2>1, <2>2
  <1>4. Tracked'
    <2>1. \A j \in Job : j[1] \in Request
      BY DEF Job, Request
    <2> QED
      BY <1>1, <1>2, <2>1, TrackedKept
  <1> QED
    BY <1>3, <1>4 DEF CalledOff

\* A request that takes the cart of its user from the key has called it off before:
\* it is the only one under way.
LEMMA ReplaceTracks ==
  ASSUME Known, [Next]_vars, NEW r \in Request, pc[r] \in {"write", "remove"},
         NEW p \in {"post", "answered"}, Goto(r, p),
         \A x \in User \ {UserOf[r]} : cart'[x] = cart[x],
         UNCHANGED <<job, deletes, overlapped, lossy>>
  PROVE  CalledOff' /\ Tracked'
  <1>1. pc'[r] = p /\ \A q \in Request \ {r} : pc'[q] = pc[q]
    BY DEF Goto, Known, Own, Types, TypeOK
  <1>2. UserOf \in [Request -> User]
    BY ReminderAssumption
  <1>3. ASSUME NEW q \in Request, pc'[q] \in {"write", "remove"},
               UserOf[q] \notin overlapped' \cup lossy', cart'[UserOf[q]] # NoCart,
               cart'[UserOf[q]].job # NoJob, job'[cart'[UserOf[q]].job] = "scheduled"
        PROVE  \E d \in deletes' : d.job = cart'[UserOf[q]].job
    <2>1. q # r /\ pc'[q] = pc[q]
      BY <1>1, <1>3
    <2>2. UserOf[q] # UserOf[r]
      BY <1>3, <2>1, OneUnderway DEF Known
    <2>3. cart'[UserOf[q]] = cart[UserOf[q]]
      BY <1>2, <2>2
    <2> QED
      BY <1>3, <2>1, <2>3, CalledOffKept
  <1>4. ASSUME NEW j \in Job, job'[j] = "scheduled", UserOf[j[1]] \notin overlapped' \cup lossy'
        PROVE  /\ cart[UserOf[j[1]]] # NoCart /\ cart[UserOf[j[1]]].job = j
                    /\ job[j] = "scheduled" =>
                    \/ cart'[UserOf[j[1]]] = cart[UserOf[j[1]]]
                    \/ \E d \in deletes' : d.job = j
               /\ \A d \in deletes : d.job = j => \E e \in deletes' : e.job = j
               /\ pc[j[1]] \in {"waiting", "writeBack"} =>
                    \/ pc'[j[1]] \in {"waiting", "writeBack"}
                    \/ cart'[UserOf[j[1]]] # NoCart /\ cart'[UserOf[j[1]]].job = j
    <2>1. j[1] \in Request /\ UserOf[j[1]] \in User /\ j # NoJob
      BY ReminderAssumption DEF Job, Request
    <2>2. CASE UserOf[j[1]] = UserOf[r]
      <3>1. pc[j[1]] \notin {"waiting", "writeBack"}
        BY <1>4, <2>1, <2>2, OneUnderway DEF Known
      <3>2. cart[UserOf[r]] # NoCart /\ cart[UserOf[r]].job = j /\ job[j] = "scheduled" =>
              \E d \in deletes : d.job = j
        BY <1>4, <2>1, <2>2 DEF Known, CalledOff
      <3> QED
        BY <2>2, <3>1, <3>2
    <2>3. CASE UserOf[j[1]] # UserOf[r]
      BY <1>1, <2>1, <2>3
    <2> QED
      BY <2>2, <2>3
  <1>5. Tracked'
    BY <1>4, TrackedKept
  <1> QED
    BY <1>3, <1>5 DEF CalledOff

\* A step on a cart or a job that moves no request from or to its waiting.
LEMMA OtherTracks ==
  ASSUME Known, [Next]_vars, overlapped \subseteq overlapped',
         \A q \in Request : pc'[q] \in {"write", "remove"} => pc'[q] = pc[q],
         \A v \in Update : pc[v] \in {"waiting", "writeBack"} =>
           \/ pc'[v] \in {"waiting", "writeBack"}
           \/ UserOf[v] \in lossy',
         \A x \in User : \/ cart'[x] = cart[x]
                         \/ cart'[x] = NoCart /\ cart[x].job = NoJob,
         \A d \in deletes : \/ \E e \in deletes' : e.job = d.job
                            \/ job'[d.job] # "scheduled"
                            \/ UserOf[d.job[1]] \in lossy'
  PROVE  CalledOff' /\ Tracked'
  <1>1. UserOf \in [Request -> User] /\ NoJob \notin Job
    BY ReminderAssumption
  <1>2. ASSUME NEW q \in Request, pc'[q] \in {"write", "remove"},
               UserOf[q] \notin overlapped' \cup lossy', cart'[UserOf[q]] # NoCart,
               cart'[UserOf[q]].job # NoJob, job'[cart'[UserOf[q]].job] = "scheduled"
        PROVE  \E d \in deletes' : d.job = cart'[UserOf[q]].job
    <2>1. cart'[UserOf[q]] \in {cart[UserOf[q]], NoCart}
      BY <1>1
    <2>2. pc'[q] = pc[q]
      BY <1>2
    <2> QED
      BY <1>2, <2>1, <2>2, CalledOffKept
  <1>3. ASSUME NEW j \in Job, job'[j] = "scheduled", UserOf[j[1]] \notin overlapped' \cup lossy'
        PROVE  /\ cart[UserOf[j[1]]] # NoCart /\ cart[UserOf[j[1]]].job = j
                    /\ job[j] = "scheduled" =>
                    \/ cart'[UserOf[j[1]]] = cart[UserOf[j[1]]]
                    \/ \E d \in deletes' : d.job = j
               /\ \A d \in deletes : d.job = j => \E e \in deletes' : e.job = j
               /\ pc[j[1]] \in {"waiting", "writeBack"} =>
                    \/ pc'[j[1]] \in {"waiting", "writeBack"}
                    \/ cart'[UserOf[j[1]]] # NoCart /\ cart'[UserOf[j[1]]].job = j
    <2>1. j[1] \in Update /\ UserOf[j[1]] \in User /\ j # NoJob
      BY <1>1 DEF Job, Request
    <2> QED
      BY <1>3, <2>1
  <1>4. Tracked'
    BY <1>3, TrackedKept
  <1> QED
    BY <1>2, <1>4 DEF CalledOff

\* The reply to the only attempt of its user brings the id of its job, which is kept
\* when responses are forwarded.
LEMMA ReceiveTracks ==
  ASSUME ResponseForwarded, Known, [Next]_vars, NEW u \in Update, Receive(u)
  PROVE  CalledOff' /\ Tracked'
  <1> USE ReminderAssumption
  <1>1. /\ UNCHANGED <<cart, tries, job, deletes, overlapped, lossy>>
        /\ pc[u] = "waiting"
        /\ pc'[u] = IF job[<<u, tries[u]>>] # "refused" THEN "writeBack" ELSE "reread"
        /\ \A q \in Request \ {u} : pc'[q] = pc[q]
    BY DEF Receive, Goto, Known, Own, Types, TypeOK, Request
  <1>2. ASSUME NEW q \in Request, pc'[q] \in {"write", "remove"},
               UserOf[q] \notin overlapped' \cup lossy', cart'[UserOf[q]] # NoCart,
               cart'[UserOf[q]].job # NoJob, job'[cart'[UserOf[q]].job] = "scheduled"
        PROVE  \E d \in deletes' : d.job = cart'[UserOf[q]].job
    <2>1. pc'[q] = pc[q]
      BY <1>1, <1>2
    <2> QED
      BY <1>1, <1>2, <2>1, CalledOffKept
  <1>3. ASSUME NEW j \in Job, job'[j] = "scheduled", UserOf[j[1]] \notin overlapped' \cup lossy',
               pc[j[1]] \in {"waiting", "writeBack"}
        PROVE  pc'[j[1]] \in {"waiting", "writeBack"}
    <2>1. PICK v \in Update, k \in 1 .. MaxAttempts : j = <<v, k>>
      BY DEF Job
    <2>2. CASE v # u
      BY <1>1, <1>3, <2>1, <2>2 DEF Request
    <2>3. CASE v = u
      <3>1. tries[u] \in Nat /\ tries[u] <= 1 /\ k <= tries[u]
        BY <1>1, <1>3, <2>1, <2>3 DEF Known, Own, Types, TypeOK, Sent
      <3>2. k = tries[u]
        BY <3>1
      <3> QED
        BY <1>1, <1>3, <2>1, <2>3, <3>2
    <2> QED
      BY <2>2, <2>3
  <1>4. Tracked'
    BY <1>1, <1>3, TrackedKept
  <1> QED
    BY <1>2, <1>4 DEF CalledOff

\* Writing the cart back puts the id of the only reminder of its user into it.
LEMMA WriteBackTracks ==
  ASSUME Known, [Next]_vars, NEW u \in Update, WriteBack(u)
  PROVE  CalledOff' /\ Tracked'
  <1> USE ReminderAssumption
  <1>1. /\ UNCHANGED <<tries, job, deletes, overlapped, lossy>>
        /\ pc[u] = "writeBack" /\ pc'[u] = "reread" /\ u \in Request
        /\ \A q \in Request \ {u} : pc'[q] = pc[q]
        /\ cart'[UserOf[u]] = [by |-> u, job |-> jobId[u], expires |-> FALSE]
        /\ \A x \in User \ {UserOf[u]} : cart'[x] = cart[x]
    BY DEF WriteBack, Goto, history, Known, Own, Types, TypeOK, Request
  <1>2. jobId[u] = <<u, tries[u]>> /\ cart'[UserOf[u]] # NoCart
    <2>1. jobId[u] = <<u, tries[u]>>
      BY <1>1 DEF Known, Received
    <2>2. [by |-> u, job |-> jobId[u], expires |-> FALSE] \in Cart
      BY DEF Known, Own, Types, TypeOK, Cart
    <2> QED
      BY <1>1, <2>1, <2>2, NoCartAssumption
  <1>3. ASSUME NEW q \in Request, pc'[q] \in {"write", "remove"},
               UserOf[q] \notin overlapped' \cup lossy', cart'[UserOf[q]] # NoCart,
               cart'[UserOf[q]].job # NoJob, job'[cart'[UserOf[q]].job] = "scheduled"
        PROVE  \E d \in deletes' : d.job = cart'[UserOf[q]].job
    <2>1. q # u /\ pc'[q] = pc[q]
      BY <1>1, <1>3
    <2>2. UserOf[q] # UserOf[u]
      BY <1>1, <1>3, <2>1, OneUnderway DEF Known
    <2>3. cart'[UserOf[q]] = cart[UserOf[q]]
      BY <1>1, <2>2
    <2> QED
      BY <1>1, <1>3, <2>1, <2>3, CalledOffKept
  <1>4. ASSUME NEW j \in Job, job'[j] = "scheduled", UserOf[j[1]] \notin overlapped' \cup lossy'
        PROVE  \/ cart'[UserOf[j[1]]] # NoCart /\ cart'[UserOf[j[1]]].job = j
               \/ \E d \in deletes' : d.job = j
               \/ pc'[j[1]] \in {"waiting", "writeBack"}
    <2>1. PICK v \in Update, k \in 1 .. MaxAttempts : j = <<v, k>>
      BY DEF Job
    <2>2. v \in Request /\ j # NoJob /\ UserOf[v] \in User
      BY DEF Request
    <2>3. \/ cart[UserOf[v]] # NoCart /\ cart[UserOf[v]].job = j
          \/ \E d \in deletes : d.job = j
          \/ pc[v] \in {"waiting", "writeBack"}
      BY <1>1, <1>4, <2>1, TrackedBefore
    <2>4. CASE UserOf[v] # UserOf[u]
      BY <1>1, <2>1, <2>2, <2>3, <2>4
    <2>5. CASE UserOf[v] = UserOf[u] /\ v = u
      <3>1. tries[u] \in Nat /\ tries[u] <= 1 /\ k <= tries[u]
        BY <1>1, <1>4, <2>1, <2>5 DEF Known, Own, Types, TypeOK, Sent
      <3>2. k = tries[u]
        BY <3>1
      <3> QED
        BY <1>1, <1>2, <2>1, <2>5, <3>2
    <2>6. CASE UserOf[v] = UserOf[u] /\ v # u
      <3>1. pc[v] \notin {"waiting", "writeBack"}
        BY <1>1, <1>4, <2>1, <2>2, <2>6, OneUnderway DEF Known
      <3>2. u \in Underway(UserOf[u])
        BY <1>1 DEF Underway
      <3>3. cart[UserOf[u]] # NoCart => cart[UserOf[u]].by = u
        BY <1>1, <1>4, <2>1, <2>2, <2>6, <3>2 DEF Known, Alone
      <3>4. ~(cart[UserOf[v]] # NoCart /\ cart[UserOf[v]].job = j)
        BY <2>1, <2>2, <2>6, <3>3 DEF Known, Own, JobIsOwn
      <3> QED
        BY <1>1, <2>3, <3>1, <3>4
    <2> QED
      BY <2>4, <2>5, <2>6
  <1> QED
    BY <1>3, <1>4 DEF CalledOff, Tracked

\* Every step keeps reminders tracked.
LEMMA NextTracks ==
  ASSUME ResponseForwarded, Known, [Next]_vars
  PROVE  CalledOff' /\ Tracked'
  <1> USE ReminderAssumption
  <1>1. Types /\ UserOf \in [Request -> User]
    BY DEF Known, Own
  <1>2. ASSUME NEW u \in Update, StartUpdate(u) PROVE CalledOff' /\ Tracked'
    BY <1>2, StartTracks DEF StartUpdate, Request
  <1>3. ASSUME NEW u \in Update, WriteCart(u) PROVE CalledOff' /\ Tracked'
    <2>1. \A x \in User \ {UserOf[u]} : cart'[x] = cart[x]
      BY <1>1, <1>3 DEF WriteCart, Types, TypeOK
    <2> QED
      BY <1>3, <2>1, ReplaceTracks DEF WriteCart, history, Request
  <1>4. ASSUME NEW u \in Update, Post(u) \/ PostRejected(u) \/ Reread(u)
        PROVE  CalledOff' /\ Tracked'
    <2>1. /\ pc[u] \in {"post", "reread"} /\ pc'[u] \in {"waiting", "reread", "answered"}
          /\ u \in Request /\ \A q \in Request \ {u} : pc'[q] = pc[q]
          /\ UNCHANGED <<cart, deletes, overlapped>>
      BY <1>1, <1>4 DEF Post, PostRejected, Reread, Goto, history, Types, TypeOK, Request
    <2>2. \A q \in Request : pc'[q] \in {"write", "remove"} => pc'[q] = pc[q]
      BY <2>1
    <2>3. \A v \in Update : pc[v] \in {"waiting", "writeBack"} => pc'[v] \in {"waiting", "writeBack"}
      BY <2>1 DEF Request
    <2> QED
      BY <2>1, <2>2, <2>3, OtherTracks
  <1>5. ASSUME NEW u \in Update, AttemptFails(u) PROVE CalledOff' /\ Tracked'
    <2>1. /\ pc'[u] \in {"waiting", "reread"} /\ u \in Request
          /\ \A q \in Request \ {u} : pc'[q] = pc[q]
          /\ UserOf[u] \in lossy' /\ UNCHANGED <<cart, deletes, overlapped>>
      BY <1>1, <1>5 DEF AttemptFails, Goto, Types, TypeOK, Request
    <2>2. \A q \in Request : pc'[q] \in {"write", "remove"} => pc'[q] = pc[q]
      BY <2>1
    <2>3. \A v \in Update : pc[v] \in {"waiting", "writeBack"} =>
            pc'[v] \in {"waiting", "writeBack"} \/ UserOf[v] \in lossy'
      BY <2>1 DEF Request
    <2> QED
      BY <2>1, <2>2, <2>3, OtherTracks
  <1>6. ASSUME NEW u \in Update, StartUpdate(u) \/ RunUpdate(u)
        PROVE  CalledOff' /\ Tracked'
    BY <1>2, <1>3, <1>4, <1>5, <1>6, ReceiveTracks, WriteBackTracks DEF RunUpdate
  <1>7. ASSUME NEW d \in Removal, StartRemoval(d) PROVE CalledOff' /\ Tracked'
    BY <1>7, StartTracks DEF StartRemoval, Request
  <1>8. ASSUME NEW d \in Removal, Remove(d) PROVE CalledOff' /\ Tracked'
    <2>1. \A x \in User \ {UserOf[d]} : cart'[x] = cart[x]
      BY <1>1, <1>8 DEF Remove, Types, TypeOK
    <2> QED
      BY <1>8, <2>1, ReplaceTracks DEF Remove, history, Request
  <1>9. ASSUME NEW x \in User, Expire(x) PROVE CalledOff' /\ Tracked'
    <2>1. /\ \A y \in User : cart'[y] = cart[y] \/ (cart'[y] = NoCart /\ cart[y].job = NoJob)
          /\ UNCHANGED <<pc, deletes, overlapped>>
      BY <1>1, <1>9 DEF Expire, history, Types, TypeOK, Known, Received
    <2> QED
      BY <2>1, OtherTracks
  <1>10. ASSUME NEW d \in deletes, RunDelete(d) PROVE CalledOff' /\ Tracked'
    <2>1. UNCHANGED <<cart, pc, overlapped>> /\ d.job \in Job
      BY <1>1, <1>10 DEF RunDelete, DeleteAnswered, DeleteFails, Types, TypeOK
    <2>2. \A e \in deletes \ {d} : e \in deletes'
      BY <1>10 DEF RunDelete, DeleteAnswered, DeleteFails, DeleteCall
    <2>3. job'[d.job] # "scheduled" \/ UserOf[d.job[1]] \in lossy'
      BY <1>1, <1>10, <2>1
         DEF RunDelete, DeleteAnswered, DeleteFails, JobDeleted, Types, TypeOK
    <2>4. \A e \in deletes : \/ \E f \in deletes' : f.job = e.job
                             \/ job'[e.job] # "scheduled"
                             \/ UserOf[e.job[1]] \in lossy'
      BY <2>2, <2>3
    <2> QED
      BY <2>1, <2>4, OtherTracks
  <1>11. ASSUME UNCHANGED <<cart, pc, deletes, overlapped>>
         PROVE  CalledOff' /\ Tracked'
    BY <1>11, OtherTracks
  <1>12. ASSUME NEW j \in Job, Schedules(j) \/ SendsMail(j)
         PROVE  CalledOff' /\ Tracked'
    BY <1>11, <1>12 DEF Schedules, SendsMail, history
  <1>13. CASE UNCHANGED vars
    BY <1>11, <1>13 DEF vars, history
  <1> QED
    BY <1>6, <1>7, <1>8, <1>9, <1>10, <1>12, <1>13 DEF Next

\* Tracked is an invariant where responses are forwarded.
LEMMA TrackedHolds == ASSUME ResponseForwarded PROVE Spec => []Tracked
  <1> DEFINE Tracking == Received /\ DelayedIsAwaited /\ CalledOff /\ Tracked
  <1>1. Init /\ Types => Tracking
    <2> SUFFICES ASSUME Init, Types PROVE Tracking
      OBVIOUS
    <2>1. /\ \A u \in Update : pc[u] = "start"
          /\ \A r \in Request : pc[r] = "start"
          /\ \A x \in User : cart[x] = NoCart
          /\ \A j \in Job : job[j] = "unsent"
      BY DEF Init, Request
    <2> QED
      BY <2>1 DEF Received, DelayedIsAwaited, CalledOff, Tracked
  <1>2. Own /\ Alone /\ Sent /\ Tracking /\ [Next]_vars => Tracking'
    <2> SUFFICES ASSUME Own, Alone, Sent, Tracking, [Next]_vars PROVE Tracking'
      OBVIOUS
    <2>1. Received' /\ DelayedIsAwaited'
      BY NextReceived, NextDelayed DEF Own
    <2>2. CalledOff' /\ Tracked'
      BY NextTracks DEF Known
    <2> QED
      BY <2>1, <2>2
  <1>3. Tracking => Tracked
    OBVIOUS
  <1> QED
    BY <1>1, <1>2, <1>3, TypesHold, OwnHolds, AloneHolds, SentHolds, PTL DEF Spec

-----------------------------------------------------------------------------
(* Reminders nobody can call off: the replies are dropped.                 *)

\* No cart names a job, no DELETE is sent, no job is deleted.
NothingCalledOff ==
  /\ \A x \in User : cart[x] # NoCart => cart[x].job = NoJob
  /\ deletes = {}
  /\ \A j \in Job : job[j] # "deleted"

\* An update whose attempts were sent waits for a reply or has gone on without one.
SentIsDropped ==
  /\ \A u \in Update : pc[u] # "writeBack"
  /\ \A j \in Job : job[j] # "unsent" => pc[j[1]] \in {"waiting", "reread", "answered"}

\* A step of an update that drops the replies: it writes no id, and its attempts are sent
\* while it waits.
LEMMA UpdateDrops ==
  ASSUME ~ResponseForwarded, Types, NothingCalledOff, SentIsDropped, NEW u \in Update,
         StartUpdate(u) \/ RunUpdate(u)
  PROVE  NothingCalledOff' /\ SentIsDropped'
  <1> USE ReminderAssumption
  <1>0. u \in Request /\ UserOf[u] \in User /\ \A j \in Job : j[1] \in Update
    BY DEF Request, Job
  <1>1. ASSUME UNCHANGED <<cart, deletes, job>>, NEW p, Goto(u, p), p # "writeBack",
               pc[u] \in {"waiting", "reread"} => p \in {"waiting", "reread", "answered"},
               pc[u] \in {"start", "write", "post", "waiting", "reread"}
        PROVE  NothingCalledOff' /\ SentIsDropped'
    <2>1. \A v \in Update : pc'[v] = IF v = u THEN p ELSE pc[v]
      BY <1>1 DEF Goto, Types, TypeOK, Request
    <2> QED
      BY <1>0, <1>1, <2>1 DEF NothingCalledOff, SentIsDropped
  <1>2. CASE StartUpdate(u)
    <2>1. deletes' = deletes
      BY <1>0, <1>2 DEF StartUpdate, DeleteReminder, NothingCalledOff
    <2> QED
      BY <1>1, <1>2, <2>1 DEF StartUpdate, Start
  <1>3. CASE WriteCart(u)
    <2>1. /\ UNCHANGED <<deletes, job>> /\ pc[u] = "write"
          /\ \A v \in Update : pc'[v] = IF v = u THEN "post" ELSE pc[v]
          /\ \A x \in User : \/ cart'[x] = cart[x]
                             \/ cart'[x] = [by |-> u, job |-> NoJob, expires |-> TRUE]
      BY <1>0, <1>3 DEF WriteCart, Goto, Types, TypeOK, Request
    <2> QED
      BY <1>0, <2>1 DEF NothingCalledOff, SentIsDropped
  <1>4. ASSUME SendAttempt(u), UNCHANGED <<cart, deletes>>, pc'[u] = "waiting",
               \A v \in Update \ {u} : pc'[v] = pc[v]
        PROVE  NothingCalledOff' /\ SentIsDropped'
    <2>1. \A j \in Job : \/ job'[j] = job[j]
                         \/ j = <<u, tries[u] + 1>> /\ job'[j] = "delayed"
      BY <1>4 DEF SendAttempt, Types, TypeOK
    <2> QED
      BY <1>0, <1>4, <2>1 DEF NothingCalledOff, SentIsDropped
  <1>5. CASE Post(u)
    <2>1. CASE ScheduleUrlMapped
      <3>1. pc'[u] = "waiting" /\ \A v \in Update \ {u} : pc'[v] = pc[v]
        BY <1>0, <1>5, <2>1 DEF Post, Goto, Types, TypeOK, Request
      <3> QED
        BY <1>4, <1>5, <2>1, <3>1 DEF Post
    <2>2. CASE ~ScheduleUrlMapped
      BY <1>1, <1>5, <2>2 DEF Post
    <2> QED
      BY <2>1, <2>2
  <1>6. CASE AttemptFails(u)
    <2>1. CASE MayRetry(tries[u])
      BY <1>4, <1>6, <2>1 DEF AttemptFails
    <2>2. CASE ~MayRetry(tries[u])
      BY <1>1, <1>6, <2>2 DEF AttemptFails
    <2> QED
      BY <2>1, <2>2
  <1>7. CASE Receive(u) \/ PostRejected(u) \/ Reread(u)
    BY <1>1, <1>7 DEF Receive, PostRejected, Reread
  <1>8. ~WriteBack(u)
    BY DEF WriteBack, SentIsDropped
  <1> QED
    BY <1>2, <1>3, <1>5, <1>6, <1>7, <1>8 DEF RunUpdate

\* Both are invariants where replies are dropped.
LEMMA DroppedHolds ==
  ASSUME ~ResponseForwarded PROVE Spec => [](NothingCalledOff /\ SentIsDropped)
  <1>1. Init => NothingCalledOff /\ SentIsDropped
    BY DEF Init, NothingCalledOff, SentIsDropped, Request
  <1>2. Types /\ NothingCalledOff /\ SentIsDropped /\ [Next]_vars
          => NothingCalledOff' /\ SentIsDropped'
    <2> SUFFICES ASSUME Types, NothingCalledOff, SentIsDropped, [Next]_vars
                 PROVE  NothingCalledOff' /\ SentIsDropped'
      OBVIOUS
    <2> USE ReminderAssumption
    <2>0. \A j \in Job : j[1] \in Update
      BY DEF Job
    <2>1. ASSUME NEW u \in Update, StartUpdate(u) \/ RunUpdate(u)
          PROVE  NothingCalledOff' /\ SentIsDropped'
      BY <2>1, UpdateDrops
    <2>2. ASSUME NEW d \in Removal, StartRemoval(d) \/ Remove(d)
          PROVE  NothingCalledOff' /\ SentIsDropped'
      <3>1. UserOf[d] \in User /\ \A v \in Update : pc'[v] = pc[v]
        BY <2>2 DEF StartRemoval, Start, Remove, Goto, Types, TypeOK, Request
      <3>2. deletes' = deletes /\ job' = job
        BY <2>2, <3>1 DEF StartRemoval, Remove, DeleteReminder, NothingCalledOff
      <3>3. \A x \in User : cart'[x] \in {cart[x], NoCart}
        BY <2>2 DEF StartRemoval, Remove, Types, TypeOK
      <3> QED
        BY <2>0, <3>1, <3>2, <3>3 DEF NothingCalledOff, SentIsDropped
    <2>3. ~ \E d \in deletes : RunDelete(d)
      BY DEF NothingCalledOff
    <2>4. ASSUME NEW j \in Job, Schedules(j) \/ SendsMail(j)
          PROVE  NothingCalledOff' /\ SentIsDropped'
      <3>1. /\ UNCHANGED <<cart, deletes, pc>>
            /\ \A i \in Job : \/ job'[i] = job[i]
                              \/ job[i] # "unsent" /\ job'[i] # "deleted"
        BY <2>4 DEF Schedules, SendsMail, Types, TypeOK
      <3> QED
        BY <3>1 DEF NothingCalledOff, SentIsDropped
    <2>5. ASSUME NEW x \in User, Expire(x) PROVE NothingCalledOff' /\ SentIsDropped'
      <3>1. \A y \in User : cart'[y] \in {cart[y], NoCart}
        BY <2>5 DEF Expire, Types, TypeOK
      <3> QED
        BY <2>5, <3>1 DEF Expire, NothingCalledOff, SentIsDropped
    <2>6. CASE UNCHANGED vars
      BY <2>6 DEF vars, NothingCalledOff, SentIsDropped
    <2> QED
      BY <2>1, <2>2, <2>3, <2>4, <2>5, <2>6 DEF Next
  <1> QED
    BY <1>1, <1>2, TypesHold, PTL DEF Spec

\* As LoggingDelegatingHandler is in this commit, no reminder is ever called off: no cart
\* names one, no update and no removal sends a DELETE, and every job scheduled stays.
THEOREM RemindersStay ==
  ASSUME ~ResponseForwarded PROVE Spec => []NothingCalledOff
  <1>1. Spec => [](NothingCalledOff /\ SentIsDropped)
    BY DroppedHolds
  <1> QED
    BY <1>1, PTL

\* A reminder still to be mailed can be called off, for any users, requests, attempts and
\* threshold, unless two requests of its user overlapped, one of its calls was lost, or
\* the reply that named it was dropped.
THEOREM LiveJobsAreTracked == Spec => []LiveJobIsTracked
  <1>1. CASE ResponseForwarded
    <2>1. Tracked => LiveJobIsTracked
      BY DEF Tracked, LiveJobIsTracked
    <2>2. Spec => []Tracked
      BY <1>1, TrackedHolds
    <2> QED
      BY <2>1, <2>2, PTL
  <1>2. CASE ~ResponseForwarded
    <2>1. SentIsDropped => LiveJobIsTracked
      BY <1>2 DEF SentIsDropped, LiveJobIsTracked
    <2>2. Spec => [](NothingCalledOff /\ SentIsDropped)
      BY <1>2, DroppedHolds
    <2> QED
      BY <2>1, <2>2, PTL
  <1> QED
    BY <1>1, <1>2

=============================================================================
