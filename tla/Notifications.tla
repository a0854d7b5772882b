----------------------------- MODULE Notifications -----------------------------
(***************************************************************************)
(* One recipient's notifications of one event, a row per channel: the       *)
(* orchestrator that inserts and publishes them (process and                *)
(* processSyncRunFailed, which differ in their payload and in having one    *)
(* mandatory rule), the dispatcher that sends the external ones from a      *)
(* BullMQ queue, and what the recipient does to the rows.                   *)
(*                                                                         *)
(* The job of a row has the row's id: Redis ignores an add while it knows   *)
(* the job, ended or not.  Each flow is in a process of its own, so that    *)
(* they die one at a time.  Rows that are deleted (clearAll and retention)  *)
(* are left out.                                                           *)
(***************************************************************************)
EXTENDS Integers, FiniteSets

CONSTANTS
    InApp,        \* channels published in real time
    External,     \* channels with a queue
    RuleSets,     \* what the event's enabled rules that reach the recipient can be:
                  \* [channels, mandatory] each
    Calls,        \* calls of process with the event: the first, and replays
    Senders,      \* jobs the dispatcher's workers can have in hand at once
    MaxPublishes, \* REALTIME_RETRY_POLICY.maxAttempts
    MaxAttempts,  \* EXTERNAL_CHANNEL_RETRY_POLICY.maxRetries + 1
    MaxTears      \* bound: flows that die or stall and database calls that fail

VARIABLES
    rules,     \* those rules
    status,    \* of each row, "NONE" before it is there
    call,      \* where each call of process is
    todo,      \* the candidates it has left
    hand,      \* the row it has in hand
    tries,     \* publications it has tried for it
    job,       \* the job of each external row
    attempts,  \* its attemptsMade
    stalled,   \* has it stalled once?
    sender,    \* where each job in hand is
    task,      \* its row
    holds,     \* does it still hold the job's lock?
    marks,     \* rows the failed handler is about to mark FAILED
    accepted,  \* history: messages of a row the provider took, up to 2
    torn,      \* history: rows whose outcome was lost on the way
    byUser,    \* history: rows the recipient has read or hidden
    tears

calls == <<rules, call, todo, hand, tries>>
jobs == <<job, attempts, stalled>>
senders == <<sender, task, holds>>
seen == <<accepted, torn, byUser>>
vars == <<status, calls, jobs, senders, marks, seen, tears>>

Rows == InApp \union External
NoRow == "no row"

\* A channel is of one kind; a publication and a job are tried at least once.
NotificationsAssumption ==
    /\ InApp \intersect External = {} /\ NoRow \notin Rows
    /\ \A some \in RuleSets : \A rule \in some : rule.channels \subseteq Rows
    /\ MaxPublishes \in Nat \ {0} /\ MaxAttempts \in Nat \ {0}
    /\ MaxTears \in Nat

TypeOK ==
    /\ rules \in RuleSets
    /\ status \in [Rows -> {"NONE", "PENDING_IN_APP", "PENDING", "SENT", "FAILED",
                            "READ", "HIDDEN"}]
    /\ call \in [Calls -> {"new", "next", "publish", "sent", "failed", "enqueue",
                           "done"}]
    /\ todo \in [Calls -> SUBSET Rows]
    /\ hand \in [Calls -> Rows \union {NoRow}]
    /\ tries \in [Calls -> 0..MaxPublishes]
    /\ job \in [External -> {"none", "waiting", "active", "completed", "failed"}]
    /\ attempts \in [External -> 0..MaxAttempts]
    /\ stalled \in [External -> BOOLEAN]
    /\ sender \in [Senders -> {"idle", "load", "send", "sent", "rejected"}]
    /\ task \in [Senders -> External \union {NoRow}]
    /\ holds \in [Senders -> BOOLEAN]
    /\ marks \subseteq External
    /\ accepted \in [External -> 0..2]
    /\ torn \subseteq Rows /\ byUser \subseteq Rows
    /\ tears \in 0..MaxTears

Init ==
    /\ rules \in RuleSets
    /\ status = [r \in Rows |-> "NONE"]
    /\ call = [c \in Calls |-> "new"]
    /\ todo = [c \in Calls |-> {}]
    /\ hand = [c \in Calls |-> NoRow]
    /\ tries = [c \in Calls |-> 0]
    /\ job = [r \in External |-> "none"]
    /\ attempts = [r \in External |-> 0]
    /\ stalled = [r \in External |-> FALSE]
    /\ sender = [w \in Senders |-> "idle"]
    /\ task = [w \in Senders |-> NoRow]
    /\ holds = [w \in Senders |-> FALSE]
    /\ marks = {}
    /\ accepted = [r \in External |-> 0]
    /\ torn = {} /\ byUser = {}
    /\ tears = 0

-----------------------------------------------------------------------------
(***************************************************************************)
(* The orchestrator.                                                       *)
(***************************************************************************)

\* Something goes wrong while row r has an outcome that is not written yet.
Tear(r) ==
    /\ tears < MaxTears /\ tears' = tears + 1
    /\ torn' = torn \union ({r} \intersect Rows)
    /\ UNCHANGED <<accepted, byUser>>

Channels(some) == UNION {rule.channels : rule \in some}

\* Steps 3 to 6 of process, with the preferences of the time: a channel the
\* recipient has opted out of is left out, unless one of its rules is mandatory.
allowedCandidates(optedOut) ==
    LET mandatory == Channels({rule \in rules : rule.mandatory})
    IN  mandatory \union (Channels(rules) \ optedOut)

process(c) ==
    /\ call[c] = "new"
    /\ \E optedOut \in SUBSET Rows :
          todo' = [todo EXCEPT ![c] = allowedCandidates(optedOut)]
    /\ call' = [call EXCEPT ![c] = "next"]
    /\ UNCHANGED <<rules, status, hand, tries, jobs, senders, marks, seen, tears>>

\* The call turns to row r, or is through with it.
Turns(c, place, r) ==
    /\ call' = [call EXCEPT ![c] = place]
    /\ hand' = [hand EXCEPT ![c] = r]
    /\ tries' = [tries EXCEPT ![c] = 0]

\* insertNotificationRow without contact data (the row is for the record only),
\* or refused by the index on event, recipient and channel.
Skip(c, r) ==
    /\ call[c] = "next" /\ r \in todo[c]
    /\ \/ status[r] # "NONE" /\ UNCHANGED status
       \/ /\ status[r] = "NONE" /\ r \in External
          /\ status' = [status EXCEPT ![r] = "FAILED"]
    /\ todo' = [todo EXCEPT ![c] = @ \ {r}]
    /\ UNCHANGED <<rules, call, hand, tries, jobs, senders, marks, seen, tears>>

\* dispatchOne inserts the row.
dispatchOne(c, r) ==
    /\ call[c] = "next" /\ r \in todo[c] /\ status[r] = "NONE"
    /\ status' = [status EXCEPT ![r] = IF r \in InApp THEN "PENDING_IN_APP"
                                                      ELSE "PENDING"]
    /\ todo' = [todo EXCEPT ![c] = @ \ {r}]
    /\ Turns(c, IF r \in InApp THEN "publish" ELSE "enqueue", r)
    /\ UNCHANGED <<rules, jobs, senders, marks, seen, tears>>

\* Mutant: transient failures give up without an outcome.
PublishGivesUp(c) ==
    /\ call[c] = "publish"
    /\ \E outcome \in {"sent", "failed", "next"} :
          IF outcome = "next" THEN Turns(c, "next", NoRow)
            ELSE call' = [call EXCEPT ![c] = outcome] /\ UNCHANGED <<hand, tries>>
    /\ UNCHANGED <<rules, status, todo, jobs, senders, marks, seen, tears>>

\* publishWithRetry: sent, refused for good, or once more.
publishWithRetry(c) ==
    /\ call[c] = "publish"
    /\ \/ \E outcome \in {"sent", "failed"} : call' = [call EXCEPT ![c] = outcome]
       \/ tries[c] + 1 < MaxPublishes /\ UNCHANGED call
    /\ tries' = [tries EXCEPT ![c] = @ + 1]
    /\ UNCHANGED <<rules, status, todo, hand, jobs, senders, marks, seen, tears>>

\* The outcome is written by id, whatever has become of the row.
RecordPublication(c) ==
    /\ call[c] \in {"sent", "failed"}
    /\ status' = [status EXCEPT ![hand[c]] = IF call[c] = "sent" THEN "SENT"
                                                                ELSE "FAILED"]
    /\ Turns(c, "next", NoRow)
    /\ UNCHANGED <<rules, todo, jobs, senders, marks, seen, tears>>

\* queue.add.
Add(r) ==
    IF job[r] = "none"
      THEN /\ job' = [job EXCEPT ![r] = "waiting"]
           /\ attempts' = [attempts EXCEPT ![r] = 0]
           /\ stalled' = [stalled EXCEPT ![r] = FALSE]
      ELSE UNCHANGED jobs

enqueue(c) ==
    /\ call[c] = "enqueue"
    /\ Add(hand[c])
    /\ Turns(c, "next", NoRow)
    /\ UNCHANGED <<rules, status, todo, senders, marks, seen, tears>>

\* The update or queue.add throws: the call goes on with the next candidate.
\* The dispatcher is not wired without REDIS_URL, which looks the same.
DispatchFails(c) ==
    /\ call[c] \in {"sent", "failed", "enqueue"}
    /\ Tear(hand[c])
    /\ Turns(c, "next", NoRow)
    /\ UNCHANGED <<rules, status, todo, jobs, senders, marks>>

\* The candidates are through, or the process dies.
ProcessEnds(c) ==
    /\ call[c] = "next" /\ todo[c] = {}
    /\ Turns(c, "done", NoRow)
    /\ UNCHANGED <<rules, status, todo, jobs, senders, marks, seen, tears>>

CallDies(c) ==
    /\ call[c] \notin {"new", "done"}
    /\ Tear(hand[c])
    /\ Turns(c, "done", NoRow)
    /\ todo' = [todo EXCEPT ![c] = {}]
    /\ UNCHANGED <<rules, status, jobs, senders, marks>>

-----------------------------------------------------------------------------
(***************************************************************************)
(* The dispatcher.                                                         *)
(***************************************************************************)

\* recoverPendingRows of a process that starts.
recoverPendingRows(r) ==
    /\ status[r] = "PENDING" /\ job[r] = "none"
    /\ Add(r)
    /\ UNCHANGED <<status, calls, senders, marks, seen, tears>>

\* removeOnComplete and removeOnFail: 1000 jobs have ended since.
Forget(r) ==
    /\ job[r] \in {"completed", "failed"}
    /\ job' = [job EXCEPT ![r] = "none"]
    /\ UNCHANGED <<status, calls, attempts, stalled, senders, marks, seen,
                   tears>>

Take(w, r) ==
    /\ sender[w] = "idle" /\ job[r] = "waiting"
    /\ job' = [job EXCEPT ![r] = "active"]
    /\ sender' = [sender EXCEPT ![w] = "load"]
    /\ task' = [task EXCEPT ![w] = r]
    /\ holds' = [holds EXCEPT ![w] = TRUE]
    /\ UNCHANGED <<status, calls, attempts, stalled, marks, seen, tears>>

Rests(w) ==
    /\ sender' = [sender EXCEPT ![w] = "idle"]
    /\ task' = [task EXCEPT ![w] = NoRow]
    /\ holds' = [holds EXCEPT ![w] = FALSE]

\* BullMQ settles the job for the worker that holds its lock.
JobEnds(w, end) ==
    /\ job' = IF holds[w] THEN [job EXCEPT ![task[w]] = end] ELSE job
    /\ UNCHANGED <<attempts, stalled>>
    /\ Rests(w)

\* Mutant: one attempt too many.
JobThrowsOffByOne(w) ==
    LET r == task[w]
        over == attempts[r] + 1 > MaxAttempts
    IN  /\ IF holds[w]
             THEN /\ attempts' = [attempts EXCEPT ![r] = @ + 1]
                  /\ job' = [job EXCEPT ![r] = IF over THEN "failed" ELSE "waiting"]
                  /\ marks' = IF over THEN marks \union {r} ELSE marks
             ELSE UNCHANGED <<attempts, job, marks>>
        /\ UNCHANGED stalled
        /\ Rests(w)

\* processJob threw: the job waits for its next attempt, or fails and the failed
\* handler marks the row.
JobThrows(w) ==
    LET r == task[w]
        over == attempts[r] + 1 >= MaxAttempts
    IN  /\ IF holds[w]
             THEN /\ attempts' = [attempts EXCEPT ![r] = @ + 1]
                  /\ job' = [job EXCEPT ![r] = IF over THEN "failed" ELSE "waiting"]
                  /\ marks' = IF over THEN marks \union {r} ELSE marks
             ELSE UNCHANGED <<attempts, job, marks>>
        /\ UNCHANGED stalled
        /\ Rests(w)

\* Mutant: processJob does not look at the row's status.
LoadAnyway(w) ==
    /\ sender[w] = "load"
    /\ sender' = [sender EXCEPT ![w] = "send"]
    /\ UNCHANGED <<status, calls, jobs, task, holds, marks, seen, tears>>

\* processJob loads the row: one that is not PENDING is left alone.
Load(w) ==
    /\ sender[w] = "load"
    /\ IF status[task[w]] # "PENDING"
         THEN JobEnds(w, "completed")
         ELSE sender' = [sender EXCEPT ![w] = "send"] /\ UNCHANGED <<jobs, task, holds>>
    /\ UNCHANGED <<status, calls, marks, seen, tears>>

\* It finds no contact or adapter any more: FAILED, and the job is complete.
Unreachable(w) ==
    /\ sender[w] = "send"
    /\ status' = [status EXCEPT ![task[w]] = "FAILED"]
    /\ JobEnds(w, "completed")
    /\ UNCHANGED <<calls, marks, seen, tears>>

\* adapter.send: taken, refused for good ...
Send(w) ==
    /\ sender[w] = "send"
    /\ \/ /\ sender' = [sender EXCEPT ![w] = "sent"]
          /\ accepted' = [accepted EXCEPT ![task[w]] = IF @ < 2 THEN @ + 1 ELSE 2]
       \/ sender' = [sender EXCEPT ![w] = "rejected"] /\ UNCHANGED accepted
    /\ UNCHANGED <<status, calls, jobs, task, holds, marks, torn, byUser,
                   tears>>

\* ... or not this time.
SendFails(w) ==
    /\ sender[w] = "send"
    /\ JobThrows(w)
    /\ UNCHANGED <<status, calls, seen, tears>>

\* Mutant: the job of a message that was refused for good ends without a mark.
RecordSentOnly(w) ==
    /\ sender[w] \in {"sent", "rejected"}
    /\ status' = IF sender[w] = "sent" THEN [status EXCEPT ![task[w]] = "SENT"]
                                       ELSE status
    /\ JobEnds(w, IF sender[w] = "sent" THEN "completed" ELSE "failed")
    /\ UNCHANGED <<calls, marks, seen, tears>>

\* The outcome is written by id; a refusal fails the job (UnrecoverableError).
Record(w) ==
    /\ sender[w] \in {"sent", "rejected"}
    /\ status' = [status EXCEPT ![task[w]] = IF sender[w] = "sent" THEN "SENT"
                                                                  ELSE "FAILED"]
    /\ JobEnds(w, IF sender[w] = "sent" THEN "completed" ELSE "failed")
    /\ UNCHANGED <<calls, marks, seen, tears>>

\* The update throws.  markFailed swallows that, the update to SENT does not.
RecordFails(w) ==
    /\ sender[w] \in {"sent", "rejected"}
    /\ Tear(task[w])
    /\ IF sender[w] = "sent" THEN JobThrows(w)
                             ELSE JobEnds(w, "failed") /\ UNCHANGED marks
    /\ UNCHANGED <<status, calls>>

\* The failed handler's markFailed, not awaited and blind to the row's status.
MarkFailed(r) ==
    /\ r \in marks
    /\ marks' = marks \ {r}
    /\ status' = [status EXCEPT ![r] = "FAILED"]
    /\ UNCHANGED <<calls, jobs, senders, seen, tears>>

MarkIsLost(r) ==
    /\ r \in marks
    /\ marks' = marks \ {r}
    /\ Tear(r)
    /\ UNCHANGED <<status, calls, jobs, senders>>

\* A worker dies, or its lock is not renewed in time while it goes on: the job
\* is given out again, the second time it fails without a mark.
Stalls(w) ==
    /\ sender[w] # "idle" /\ holds[w]
    /\ Tear(task[w])
    /\ LET r == task[w] IN
          /\ job' = [job EXCEPT ![r] = IF stalled[r] THEN "failed" ELSE "waiting"]
          /\ stalled' = [stalled EXCEPT ![r] = TRUE]
    /\ \/ Rests(w)
       \/ holds' = [holds EXCEPT ![w] = FALSE] /\ UNCHANGED <<sender, task>>
    /\ UNCHANGED <<status, calls, attempts, marks>>

-----------------------------------------------------------------------------
(***************************************************************************)
(* The recipient.                                                          *)
(***************************************************************************)

\* Bound: the recipient acts once.
Sets(rows, s) ==
    /\ byUser = {}
    /\ status' = [r \in Rows |-> IF r \in rows THEN s ELSE status[r]]
    /\ byUser' = byUser \union rows
    /\ UNCHANGED <<calls, jobs, senders, marks, accepted, torn, tears>>

\* markRead and hide, of a row in whatever status.
markRead(r) == status[r] \notin {"NONE", "READ"} /\ Sets({r}, "READ")

hide(r) == status[r] \notin {"NONE", "HIDDEN"} /\ Sets({r}, "HIDDEN")

\* markAllRead, of all channels: also of messages that wait to be sent.
markAllRead ==
    LET unread == {r \in Rows : status[r] \notin {"NONE", "READ"}}
    IN  unread # {} /\ Sets(unread, "READ")

-----------------------------------------------------------------------------

CallStep(c) ==
    \/ process(c) \/ publishWithRetry(c) \/ RecordPublication(c) \/ enqueue(c)
    \/ ProcessEnds(c)
    \/ \E r \in Rows : Skip(c, r) \/ dispatchOne(c, r)

SenderStep(w) ==
    Load(w) \/ Unreachable(w) \/ Send(w) \/ SendFails(w) \/ Record(w)

Next ==
    \/ \E c \in Calls : CallStep(c) \/ DispatchFails(c) \/ CallDies(c)
    \/ \E w \in Senders :
          \/ SenderStep(w) \/ RecordFails(w) \/ Stalls(w)
          \/ \E r \in External : Take(w, r)
    \/ \E r \in External :
          recoverPendingRows(r) \/ Forget(r) \/ MarkFailed(r) \/ MarkIsLost(r)
    \/ \E r \in Rows : markRead(r) \/ hide(r)
    \/ markAllRead

\* Workers take jobs and go on with them, and the failed handler is done in the
\* end.  Calls of process, users and starting processes may stay away.
Fairness ==
    /\ \A w \in Senders : WF_vars(SenderStep(w))
    /\ \A r \in External :
          WF_vars(MarkFailed(r)) /\ WF_vars(\E w \in Senders : Take(w, r))

Spec == Init /\ [][Next]_vars /\ Fairness

-----------------------------------------------------------------------------
(***************************************************************************)
(* Properties                                                              *)
(***************************************************************************)

\* A provider takes a message twice only if the first outcome was lost: the
\* update failed, or the worker died or lost its job's lock on the way.
SentTwiceOnlyIfTorn == \A r \in External : accepted[r] > 1 => r \in torn

\* A job that has ended leaves a row that says what came of it, unless the
\* recipient has read or hidden it, the mark is still on its way or was lost.
EndedJobIsAccountedFor ==
    \A r \in External :
        job[r] \in {"completed", "failed"} =>
            \/ status[r] = "FAILED" \/ (status[r] = "SENT" /\ accepted[r] > 0)
            \/ r \in byUser \union marks \union torn

\* A row stays PENDING_IN_APP only while its publisher is at work or if it has
\* died or could not write the outcome: nothing takes such a row up again.
InAppIsSettled ==
    \A r \in InApp :
        status[r] = "PENDING_IN_APP" =>
            r \in torn \/ \E c \in Calls : hand[c] = r /\ call[c] # "next"

\* A message in the queue is sent, given up or read, whatever the provider
\* answers, unless its outcome is lost.
QueuedIsSettled ==
    \A r \in External :
        (status[r] = "PENDING" /\ job[r] = "waiting") ~>
            (status[r] # "PENDING" \/ r \in torn)
=============================================================================
