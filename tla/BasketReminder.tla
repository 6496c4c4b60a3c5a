---------------------------- MODULE BasketReminder ----------------------------
(***************************************************************************)
(* BasketRepository of Basket.API and the reminder mails it has scheduled  *)
(* in Hangfire.API: UpdateBasket deletes the job of the cart it replaces,  *)
(* writes the cart, schedules a new job over HTTP and writes the cart once *)
(* more with the job's id; DeleteBasketFromUsername deletes job and cart.  *)
(*                                                                         *)
(* Requests interleave at every await.  All calls to Hangfire.API share    *)
(* one client: a retry policy around a circuit breaker around a timeout    *)
(* of 5 seconds, while the endpoint waits 10 seconds, uncancelled, before  *)
(* it schedules the job.                                                   *)
(***************************************************************************)
EXTENDS Naturals, FiniteSets

CONSTANTS
  User,
  Update,             \* POSTs of a basket
  Removal,            \* DELETEs of a basket, or the end of a checkout
  UserOf,             \* the username of each request
  NoCart, NoJob,
  MaxAttempts,        \* retryCount + 1 of UseImmediateHttpRetryPolicy
  Threshold,          \* handledEventsAllowedBeforeBreaking
  ScheduleUrlMapped,  \* FALSE: this commit, whose URL starts with the HttpClient's
                      \* type name instead of ScheduledJobUrl
  ReplyInTime,        \* FALSE: this commit, 10 s of delay against 5 s of timeout
  ResponseForwarded   \* FALSE: this commit, LoggingDelegatingHandler returns a 502

Request == Update \cup Removal

\* An attempt of an update's POST, and the job it has scheduled: at most one.
Job == Update \X (1 .. MaxAttempts)

ASSUME ReminderAssumption ==
  /\ Update \cap Removal = {}
  /\ UserOf \in [Request -> User]
  /\ MaxAttempts \in Nat \ {0} /\ Threshold \in Nat \ {0}
  /\ ScheduleUrlMapped \in BOOLEAN
  /\ ReplyInTime \in BOOLEAN
  /\ ResponseForwarded \in BOOLEAN
  /\ NoJob \notin Job

Cart == [by: Update, job: Job \cup {NoJob}, expires: BOOLEAN]

ASSUME NoCartAssumption == NoCart \notin Cart

VARIABLES
  cart,      \* Redis: the cart under each username
  pc,        \* where each request is
  tries,     \* attempts each update has sent
  jobId,     \* the local jobId of TriggerSendEmailReminderCheckout
  job,       \* Hangfire.API: what became of each attempt
  deletes,   \* DELETE calls nobody awaits: the job and the attempts sent
  breaker, failures,  \* the circuit breaker all calls share
  succeeded, \* history: the breaker has seen a success
  overlapped, lossy,  \* history: users with two requests at once; with a lost call
  latest     \* history: the request of each user that started last

history == <<succeeded, overlapped, lossy, latest>>
vars == <<cart, pc, tries, jobId, job, deletes, breaker, failures, history>>

TypeOK ==
  /\ cart \in [User -> Cart \cup {NoCart}]
  /\ pc \in [Request -> {"start", "write", "post", "waiting", "writeBack",
                         "reread", "remove", "answered"}]
  /\ tries \in [Update -> 0 .. MaxAttempts]
  /\ jobId \in [Update -> Job \cup {NoJob}]
  /\ job \in [Job -> {"unsent", "delayed", "refused", "scheduled",
                      "sent", "deleted"}]
  /\ deletes \subseteq [job: Job, try: 1 .. MaxAttempts]
  /\ breaker \in {"closed", "open", "halfOpen"}
  /\ failures \in 0 .. Threshold
  /\ succeeded \in BOOLEAN
  /\ overlapped \subseteq User /\ lossy \subseteq User
  /\ latest \in [User -> Request \cup {NoJob}]

Init ==
  /\ cart = [x \in User |-> NoCart]
  /\ pc = [r \in Request |-> "start"]
  /\ tries = [u \in Update |-> 0]
  /\ jobId = [u \in Update |-> NoJob]
  /\ job = [j \in Job |-> "unsent"]
  /\ deletes = {}
  /\ breaker = "closed" /\ failures = 0
  /\ succeeded = FALSE /\ overlapped = {} /\ lossy = {}
  /\ latest = [x \in User |-> NoJob]

Goto(r, p) == pc' = [pc EXCEPT ![r] = p]

Underway(x) == {r \in Request : UserOf[r] = x /\ pc[r] \notin {"start", "answered"}}

-----------------------------------------------------------------------------
(* The circuit breaker (Polly), as the calls of this client meet it.       *)

\* A call is admitted while the circuit is closed, or as the one trial after the
\* break.  How long the break has lasted is left open: the trial may come or not.
Admitted ==
  /\ breaker \in {"closed", "open"}
  /\ breaker' = IF breaker = "open" THEN "halfOpen" ELSE "closed"
  /\ UNCHANGED failures

CallSucceeds ==
  /\ breaker' = IF breaker = "halfOpen" THEN "closed" ELSE breaker
  /\ failures' = IF breaker = "open" THEN failures ELSE 0
  /\ succeeded' = TRUE

\* Mutant: a timeout is not one of the failures the breaker handles.
CallFailsUncounted == UNCHANGED <<breaker, failures>>

CallFails ==
  /\ breaker' = IF breaker = "closed" /\ failures + 1 < Threshold THEN "closed" ELSE "open"
  /\ failures' = IF breaker = "closed" THEN failures + 1 ELSE failures

\* A retry is immediate, so it meets the circuit as the failure left it.
MayRetry(n) == n < MaxAttempts /\ breaker' = "closed"

-----------------------------------------------------------------------------
(* DeleteReminderCheckoutOrder: read the cart, send a DELETE, do not wait. *)

DeleteReminder(x) ==
  IF cart[x] = NoCart \/ cart[x].job = NoJob
  THEN UNCHANGED <<deletes, breaker, failures, lossy>>
  ELSE \/ /\ Admitted
          /\ deletes' = deletes \cup {[job |-> cart[x].job, try |-> 1]}
          /\ UNCHANGED lossy
       \/ /\ breaker # "closed"
          /\ lossy' = lossy \cup {x}
          /\ UNCHANGED <<deletes, breaker, failures>>

Start(r, p) ==
  /\ pc[r] = "start"
  /\ Goto(r, p)
  /\ latest' = [latest EXCEPT ![UserOf[r]] = r]
  /\ overlapped' = IF Underway(UserOf[r]) = {}
                   THEN overlapped ELSE overlapped \cup {UserOf[r]}
  /\ UNCHANGED succeeded

-----------------------------------------------------------------------------
(* UpdateBasket                                                            *)

\* Mutant: the old cart is not looked at.
StartUpdateKeepsJob(u) ==
  /\ Start(u, "write")
  /\ UNCHANGED <<cart, tries, jobId, job, deletes, breaker, failures, lossy>>

StartUpdate(u) ==
  /\ Start(u, "write")
  /\ DeleteReminder(UserOf[u])
  /\ UNCHANGED <<cart, tries, jobId, job>>

\* The posted cart has no job id; the controller's options make it expire.
WriteCart(u) ==
  /\ pc[u] = "write"
  /\ cart' = [cart EXCEPT ![UserOf[u]] = [by |-> u, job |-> NoJob, expires |-> TRUE]]
  /\ Goto(u, "post")
  /\ UNCHANGED <<tries, jobId, job, deletes, breaker, failures, history>>

\* The next attempt leaves.  One that never reaches Hangfire.API stays delayed.
SendAttempt(u) ==
  /\ tries' = [tries EXCEPT ![u] = @ + 1]
  /\ job' = [job EXCEPT ![<<u, tries[u] + 1>>] = "delayed"]

\* With the URL of this commit the first attempt is answered 404, which no policy
\* handles: for the breaker it is a success.  EnsureSuccessStatusCode throws, and the
\* exception is logged.
Post(u) ==
  /\ pc[u] = "post"
  /\ IF ScheduleUrlMapped
     THEN Admitted /\ SendAttempt(u) /\ Goto(u, "waiting") /\ UNCHANGED succeeded
     ELSE /\ breaker \in {"closed", "open"} /\ breaker' = "closed"
          /\ failures' = 0 /\ succeeded' = TRUE
          /\ Goto(u, "reread") /\ UNCHANGED <<tries, job>>
  /\ UNCHANGED <<cart, jobId, deletes, overlapped, lossy, latest>>

\* Mutant: a broken circuit is waited for.
PostRejectedWaits(u) ==
  /\ pc[u] = "post"
  /\ breaker # "closed"
  /\ UNCHANGED vars

\* BrokenCircuitException: not retried, logged.
PostRejected(u) ==
  /\ pc[u] = "post"
  /\ breaker # "closed"
  /\ Goto(u, "reread")
  /\ UNCHANGED <<cart, tries, jobId, job, deletes, breaker, failures, history>>

\* Mutant: the reply of an attempt given up earlier is taken as well.
ReceiveLate(u) ==
  /\ pc[u] \in {"waiting", "answered"}
  /\ \E k \in 1 .. tries[u] :
       /\ job[<<u, k>>] \in {"scheduled", "sent"}
       /\ jobId' = [jobId EXCEPT ![u] = <<u, k>>]
  /\ CallSucceeds
  /\ Goto(u, "writeBack")
  /\ UNCHANGED <<cart, tries, job, deletes, overlapped, lossy, latest>>

\* The reply to the attempt under way: a job id, or null when scheduling failed.
Receive(u) ==
  /\ pc[u] = "waiting"
  /\ ReplyInTime
  /\ job[<<u, tries[u]>>] \in {"refused", "scheduled", "sent"}
  /\ CallSucceeds
  /\ IF ResponseForwarded /\ job[<<u, tries[u]>>] # "refused"
     THEN Goto(u, "writeBack") /\ jobId' = [jobId EXCEPT ![u] = <<u, tries[u]>>]
     ELSE Goto(u, "reread") /\ UNCHANGED jobId
  /\ UNCHANGED <<cart, tries, job, deletes, overlapped, lossy, latest>>

\* Mutant: one retry too many.
AttemptFailsOnceMore(u) ==
  /\ pc[u] = "waiting"
  /\ CallFails
  /\ IF tries[u] <= MaxAttempts /\ breaker' = "closed"
     THEN SendAttempt(u) /\ UNCHANGED pc
     ELSE Goto(u, "reread") /\ UNCHANGED <<tries, job>>
  /\ lossy' = lossy \cup {UserOf[u]}
  /\ UNCHANGED <<cart, jobId, deletes, succeeded, overlapped, latest>>

\* Timeout, 5xx or no connection: sent again at once, or logged and given up.
AttemptFails(u) ==
  /\ pc[u] = "waiting"
  /\ CallFails
  /\ IF MayRetry(tries[u])
     THEN SendAttempt(u) /\ UNCHANGED pc
     ELSE Goto(u, "reread") /\ UNCHANGED <<tries, job>>
  /\ lossy' = lossy \cup {UserOf[u]}
  /\ UNCHANGED <<cart, jobId, deletes, succeeded, overlapped, latest>>

\* Mutant: the job id is put into the cart Redis holds by now.
WriteBackIntoCurrent(u) ==
  /\ pc[u] = "writeBack"
  /\ cart' = [cart EXCEPT ![UserOf[u]] = IF @ = NoCart THEN @ ELSE [@ EXCEPT !.job = jobId[u]]]
  /\ Goto(u, "reread")
  /\ UNCHANGED <<tries, jobId, job, deletes, breaker, failures, history>>

\* The cart of the request, with its job id and without the options: whatever the
\* key holds by now is overwritten, and the key no longer expires.
WriteBack(u) ==
  /\ pc[u] = "writeBack"
  /\ cart' = [cart EXCEPT ![UserOf[u]] = [by |-> u, job |-> jobId[u], expires |-> FALSE]]
  /\ Goto(u, "reread")
  /\ UNCHANGED <<tries, jobId, job, deletes, breaker, failures, history>>

\* The cart is read again and answered, whatever it is by now.
Reread(u) ==
  /\ pc[u] = "reread"
  /\ Goto(u, "answered")
  /\ UNCHANGED <<cart, tries, jobId, job, deletes, breaker, failures, history>>

-----------------------------------------------------------------------------
(* DeleteBasketFromUsername                                                *)

StartRemoval(d) ==
  /\ Start(d, "remove")
  /\ DeleteReminder(UserOf[d])
  /\ UNCHANGED <<cart, tries, jobId, job>>

Remove(d) ==
  /\ pc[d] = "remove"
  /\ cart' = [cart EXCEPT ![UserOf[d]] = NoCart]
  /\ Goto(d, "answered")
  /\ UNCHANGED <<tries, jobId, job, deletes, breaker, failures, history>>

\* Redis drops a cart whose options made it expire.
Expire(x) ==
  /\ cart[x] # NoCart
  /\ cart[x].expires
  /\ cart' = [cart EXCEPT ![x] = NoCart]
  /\ UNCHANGED <<pc, tries, jobId, job, deletes, breaker, failures, history>>

-----------------------------------------------------------------------------
(* The DELETE calls nobody awaits.                                         *)

DeleteCall(d, rest) == deletes' = (deletes \ {d}) \cup rest

\* Hangfire deletes a job that has not run.
JobDeleted(j) == [job EXCEPT ![j] = IF @ = "scheduled" THEN "deleted" ELSE @]

DeleteAnswered(d) ==
  /\ job' = JobDeleted(d.job)
  /\ CallSucceeds
  /\ DeleteCall(d, {})
  /\ UNCHANGED <<cart, pc, tries, jobId, overlapped, lossy, latest>>

\* The attempt breaks before or after the job was deleted.
DeleteFails(d) ==
  /\ job' \in {job, JobDeleted(d.job)}
  /\ CallFails
  /\ DeleteCall(d, IF MayRetry(d.try) THEN {[d EXCEPT !.try = @ + 1]} ELSE {})
  /\ lossy' = lossy \cup {UserOf[d.job[1]]}
  /\ UNCHANGED <<cart, pc, tries, jobId, succeeded, overlapped, latest>>

-----------------------------------------------------------------------------
(* Hangfire.API                                                            *)

\* Mutant: a delayed request is run a second time.
SchedulesTwice(j) ==
  /\ job[j] = "delayed"
  /\ \E k \in 1 .. MaxAttempts :
       job' = [job EXCEPT ![j] = "scheduled",
                          ![<<j[1], k>>] = IF @ = "unsent" THEN "scheduled" ELSE @]
  /\ UNCHANGED <<cart, pc, tries, jobId, deletes, breaker, failures, history>>

\* The delay is over: the job is scheduled, whether or not anybody still waits, or
\* the storage refuses it and null is answered.
Schedules(j) ==
  /\ job[j] = "delayed"
  /\ \E s \in {"scheduled", "refused"} : job' = [job EXCEPT ![j] = s]
  /\ UNCHANGED <<cart, pc, tries, jobId, deletes, breaker, failures, history>>

\* The time of the job has come: the mail is sent.
SendsMail(j) ==
  /\ job[j] = "scheduled"
  /\ job' = [job EXCEPT ![j] = "sent"]
  /\ UNCHANGED <<cart, pc, tries, jobId, deletes, breaker, failures, history>>

-----------------------------------------------------------------------------
RunUpdate(u) ==
  \/ WriteCart(u)
  \/ Post(u)
  \/ PostRejected(u)
  \/ Receive(u)
  \/ AttemptFails(u)
  \/ WriteBack(u)
  \/ Reread(u)

RunDelete(d) ==
  \/ DeleteAnswered(d)
  \/ DeleteFails(d)

Next ==
  \/ \E u \in Update : StartUpdate(u) \/ RunUpdate(u)
  \/ \E d \in Removal : StartRemoval(d) \/ Remove(d)
  \/ \E d \in deletes : RunDelete(d)
  \/ \E j \in Job : Schedules(j) \/ SendsMail(j)
  \/ \E x \in User : Expire(x)

\* A request that has started runs on: Redis answers, and an attempt is answered
\* or ends with the timeout.
Fairness ==
  /\ \A u \in Update : WF_vars(RunUpdate(u))
  /\ \A d \in Removal : WF_vars(Remove(d))

Spec == Init /\ [][Next]_vars /\ Fairness

-----------------------------------------------------------------------------
(* Properties.                                                             *)

\* The job id in a cart is the id of a job scheduled for the very update that
\* wrote the cart, whatever requests overlapped: deleting it never deletes the
\* reminder of another cart.
JobIsOwn ==
  \A x \in User : cart[x] # NoCart /\ cart[x].job # NoJob =>
    cart[x].job[1] = cart[x].by /\ UserOf[cart[x].by] = x

\* A reminder that is still to be mailed can be called off: as long as no two
\* requests of its user overlapped and no call broke, its id is in the cart, or
\* in a DELETE under way, or about to be written by its update.  One other thing
\* takes a reminder out of reach, that LoggingDelegatingHandler drops the reply to an
\* update and the id with it.
LiveJobIsTracked ==
  \A j \in Job : job[j] = "scheduled" /\ UserOf[j[1]] \notin overlapped \cup lossy =>
    \/ cart[UserOf[j[1]]] # NoCart /\ cart[UserOf[j[1]]].job = j
    \/ \E d \in deletes : d.job = j
    \/ pc[j[1]] \in {"waiting", "writeBack"}
    \/ ~ResponseForwarded /\ pc[j[1]] \in {"reread", "answered"}

\* The second write of a cart undoes nothing of a later request: unless two
\* requests of a user overlapped, the key holds, once they are answered, the cart
\* of the request that started last, or nothing, and nothing after a removal.
LatestRequestStands ==
  \A x \in User :
    x \notin overlapped /\ Underway(x) = {} /\ cart[x] # NoCart =>
      cart[x].by = latest[x]

\* One update has no more reminders scheduled than attempts sent, and no more than
\* one unless one of its user's calls broke; none is scheduled for an attempt
\* that was not sent.
RemindersBounded ==
  \A u \in Update :
    LET scheduled == {j \in Job : j[1] = u /\ job[j] \in {"scheduled", "sent", "deleted"}}
    IN  /\ Cardinality(scheduled) <= tries[u]
        /\ UserOf[u] \notin lossy => Cardinality(scheduled) <= 1

\* While no call succeeds, as with a delay longer than the timeout, the breaker
\* bounds the POSTs, each of which leaves a job nobody knows: one for each update
\* and Threshold - 1 retries for all of them, however they interleave.
BreakerBoundsPosts ==
  ~succeeded => Cardinality({j \in Job : job[j] # "unsent"}) <=
                  Cardinality(Update) + Threshold - 1

\* A basket that was posted or removed is answered, whatever Hangfire.API and the
\* breaker do: the reminder never keeps a shopper waiting for ever.
EveryRequestAnswered ==
  <>[](\A r \in Request : pc[r] \in {"start", "answered"})

=============================================================================
