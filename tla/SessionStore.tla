---------------------------- MODULE SessionStore ----------------------------
(***************************************************************************)
(* Conversation sessions: SessionManager of app/services/session.py with   *)
(* its hot copy in Redis and its cold rows in PostgreSQL, and the requests *)
(* that use it: the query stream of app/api/v1/endpoints/query.py and the  *)
(* creation and closing of sessions in app/api/v1/endpoints/sessions.py.   *)
(*                                                                         *)
(* Every await on Redis or PostgreSQL is a step of its own.  A request     *)
(* keeps the SessionState it loaded in memory and writes it back whole.    *)
(* A message is only its role and the query it belongs to; its size is that *)
(* of a question, or of an answer of its outcome.  All sessions belong to  *)
(* one tenant.                                                             *)
(***************************************************************************)
EXTENDS Integers, SequencesExt

CONSTANTS
    Sessions,     \* session ids
    Queries,      \* POST /v1/query requests (one query id each)
    Closers,      \* DELETE /v1/sessions/:id requests
    Users,        \* users of the tenant, and NoUser if it has API keys
    NoUser,       \* the user_id of a request, or of its session, by an API key
    Owner,        \* [Sessions -> Users]: who created the session
    Caller,       \* [Queries \cup Closers -> Users]: who sends the request
    NoSession,    \* no session chosen yet
    NotCached,    \* value of a Redis key that does not exist
    Window,       \* MAX_HISTORY_MESSAGES (20 in the code)
    Tokens,       \* [{"question"} \cup AllOutcomes -> Nat]: estimated sizes
    MaxTokens,    \* MAX_HISTORY_TOKENS (2000 in the code)
    Outcomes,     \* how generation may end, a subset of AllOutcomes
    Concurrency,  \* bound on the requests at work on one session at a time
    MaxAborts,    \* bound on the requests that die half-way
    MaxExpiries   \* bound on the Redis keys that expire or are evicted

(* "text" is a whole answer, "partial" and "empty" are what is left when   *)
(* the LLM fails after some, or before any, of its output.                 *)
AllOutcomes == {"text", "partial", "empty"}

Requests == Queries \cup Closers

ASSUME SessionsAssumption == NoSession \notin Sessions
ASSUME RequestsAssumption == Queries \cap Closers = {}
ASSUME UsersAssumption    == Owner \in [Sessions -> Users] /\ Caller \in [Requests -> Users]
ASSUME WindowAssumption   == Window \in Nat \ {0}
ASSUME TokensAssumption   == /\ Tokens \in [{"question"} \cup AllOutcomes -> Nat]
                             /\ MaxTokens \in Nat
ASSUME OutcomesAssumption == Outcomes \subseteq AllOutcomes
ASSUME LimitsAssumption   == Concurrency \in Nat /\ MaxAborts \in Nat /\ MaxExpiries \in Nat

VARIABLES
    sess,      \* the sessions row: "absent", "active" or "closed" (is_active)
    hot,       \* the session's message list in Redis, or NotCached
    rows,      \* queries whose row is committed
    began,     \* queries in the order their transaction began (created_at)
    answer,    \* per query: how its generation ended
    pc,        \* per request: its next step
    target,    \* per request: its session
    mem,       \* per request: the messages of the SessionState it holds
    aborts,    \* requests that died so far
    expiries   \* keys that expired so far

vars == <<sess, hot, rows, began, answer, pc, target, mem, aborts, expiries>>
dbVars  == <<sess, rows, began>>
limits  == <<aborts, expiries>>

Roles    == {"user", "assistant"}
Messages == Roles \X Queries
Resting == {"new", "done", "error", "aborted"}

Init ==
    /\ sess = [s \in Sessions |-> "absent"]
    /\ hot = [s \in Sessions |-> NotCached]
    /\ rows = {}
    /\ began = <<>>
    /\ answer = [q \in Queries |-> "none"]
    /\ pc = [r \in Requests |-> "new"]
    /\ target = [r \in Requests |-> NoSession]
    /\ mem = [r \in Requests |-> <<>>]
    /\ aborts = 0
    /\ expiries = 0

(* SessionState.add_message: append, then keep the last Window messages.   *)
Push(msgs, m) ==
    LET all == Append(msgs, m)
    IN  SubSeq(all, IF Len(all) > Window THEN Len(all) - Window + 1 ELSE 1, Len(all))

(* Estimated tokens of a message, and of the messages from the i-th on.    *)
Size(m) == Tokens[IF m[1] = "user" THEN "question" ELSE answer[m[2]]]
SizeFrom(msgs, i) ==
    LET sum[n \in 0..Len(msgs)] == IF n < i THEN 0 ELSE sum[n - 1] + Size(msgs[n])
    IN  sum[Len(msgs)]

(* Mutant: the message that is over the budget is still included.          *)
PromptOneMore(msgs) ==
    LET earlier == Front(msgs)
        over    == {i \in 1..Len(earlier) : SizeFrom(earlier, i + 1) > MaxTokens}
    IN  SubSeq(earlier, IF over = {} THEN 1 ELSE Max(over) + 1, Len(earlier))

(* get_history_for_prompt: backwards from before the latest message, the   *)
(* question itself, until a message does not fit the budget.               *)
Prompt(msgs) ==
    LET earlier == Front(msgs)
        over    == {i \in 1..Len(earlier) : SizeFrom(earlier, i) > MaxTokens}
    IN  SubSeq(earlier, IF over = {} THEN 1 ELSE Max(over) + 1, Len(earlier))

(* Mutant: only the question of a row is rebuilt.                          *)
QuestionOnly(q) == << <<"user", q>> >>

(* The messages one row stands for; an empty answer is skipped.            *)
Exchange(q) ==
    IF answer[q] = "empty" THEN << <<"user", q>> >>
                           ELSE << <<"user", q>>, <<"assistant", q>> >>

(* The messages of several rows.                                           *)
Transcript(queries) == FlattenSeq([i \in 1..Len(queries) |-> Exchange(queries[i])])

(* The elements of a sequence that are in S, in their order.               *)
Among(seq, S) ==
    LET among[n \in 0..Len(seq)] ==
            IF n = 0 THEN <<>>
            ELSE IF seq[n] \in S THEN Append(among[n - 1], seq[n]) ELSE among[n - 1]
    IN  among[Len(seq)]

(* The session's committed rows in the order of created_at.                *)
RowsOf(s) == Among(began, {q \in rows : target[q] = s})

(* _load_from_db: the first Window rows by created_at, as messages.        *)
ColdHistory(s) ==
    LET loaded == SubSeq(RowsOf(s), 1, IF Len(RowsOf(s)) > Window THEN Window
                                                                  ELSE Len(RowsOf(s)))
    IN  Transcript(loaded)

Active(s) == {r \in Requests : target[r] = s /\ pc[r] \notin Resting}

Goto(r, step) == pc' = [pc EXCEPT ![r] = step]

------------------------------------------------------------------------------
(* Sessions.                                                               *)

(* create_session commits the row, then fills Redis, unless it dies        *)
(* in between.                                                             *)
CreateSession(s) ==
    /\ sess[s] = "absent"
    /\ sess' = [sess EXCEPT ![s] = "active"]
    /\ hot' \in {hot, [hot EXCEPT ![s] = <<>>]}
    /\ UNCHANGED <<rows, began, answer, pc, target, mem, limits>>

(* The TTL ends, or Redis (allkeys-lru, not persistent) drops the key.     *)
Expire(s) ==
    /\ hot[s] # NotCached
    /\ expiries < MaxExpiries
    /\ hot' = [hot EXCEPT ![s] = NotCached]
    /\ expiries' = expiries + 1
    /\ UNCHANGED <<dbVars, answer, pc, target, mem, aborts>>

(* Mutant: a missing key is not noticed.                                   *)
GetHotUnchecked(r, s) ==
    /\ pc[r] = "new"
    /\ Cardinality(Active(s)) < Concurrency
    /\ target' = [target EXCEPT ![r] = s]
    /\ Goto(r, "check")
    /\ mem' = [mem EXCEPT ![r] = hot[s]]
    /\ UNCHANGED <<dbVars, hot, answer, limits>>

(* get_session, fast path: a request reads the message list from Redis.    *)
GetHot(r, s) ==
    /\ pc[r] = "new"
    /\ Cardinality(Active(s)) < Concurrency
    /\ target' = [target EXCEPT ![r] = s]
    /\ IF hot[s] = NotCached
       THEN Goto(r, "cold") /\ UNCHANGED mem
       ELSE Goto(r, "check") /\ mem' = [mem EXCEPT ![r] = hot[s]]
    /\ UNCHANGED <<dbVars, hot, answer, limits>>

(* get_session, cold path: rebuild the list from the committed rows.  A    *)
(* query's transaction begins here.                                        *)
LoadFromDb(r) ==
    /\ pc[r] = "cold"
    /\ IF sess[target[r]] = "absent"
       THEN Goto(r, "error") /\ UNCHANGED <<mem, began>>
       ELSE /\ Goto(r, "warm")
            /\ mem' = [mem EXCEPT ![r] = ColdHistory(target[r])]
            /\ began' = IF r \in Queries THEN Append(began, r) ELSE began
    /\ UNCHANGED <<sess, hot, rows, answer, target, limits>>

WarmCache(r) ==
    /\ pc[r] = "warm"
    /\ hot' = [hot EXCEPT ![target[r]] = mem[r]]
    /\ Goto(r, "check")
    /\ UNCHANGED <<dbVars, answer, target, mem, limits>>

------------------------------------------------------------------------------
(* The query stream.                                                       *)

(* Mutant: any user of the tenant may query the session.                   *)
CheckQueryAnyUser(q) ==
    /\ pc[q] = "check"
    /\ Goto(q, IF sess[target[q]] # "absent" THEN "saveUser" ELSE "error")
    /\ began' = IF Contains(began, q) THEN began ELSE Append(began, q)
    /\ UNCHANGED <<sess, rows, hot, answer, target, mem, limits>>

(* The row must exist and belong to the caller, or to some API key if the  *)
(* caller is one (is_active is not asked).  On the fast path the           *)
(* transaction begins here.                                                *)
CheckQuery(q) ==
    /\ pc[q] = "check"
    /\ IF sess[target[q]] # "absent" /\ Owner[target[q]] = Caller[q]
       THEN Goto(q, "saveUser")
       ELSE Goto(q, "error")
    /\ began' = IF Contains(began, q) THEN began ELSE Append(began, q)
    /\ UNCHANGED <<sess, rows, hot, answer, target, mem, limits>>

(* Mutant: the new message alone replaces the list.                        *)
SaveAlone(q, m) ==
    /\ mem' = [mem EXCEPT ![q] = Push(mem[q], m)]
    /\ hot' = [hot EXCEPT ![target[q]] = <<m>>]

(* The state with the new message replaces whatever Redis holds.           *)
Save(q, m) ==
    /\ mem' = [mem EXCEPT ![q] = Push(mem[q], m)]
    /\ hot' = [hot EXCEPT ![target[q]] = Push(mem[q], m)]

SaveUserMessage(q) ==
    /\ pc[q] = "saveUser"
    /\ Save(q, <<"user", q>>)
    /\ Goto(q, "generate")
    /\ UNCHANGED <<dbVars, answer, target, limits>>

(* Flush the query row (not committed), retrieve, and stream the answer.   *)
(* A failure of the LLM only ends the stream of deltas.                    *)
Generate(q) ==
    /\ pc[q] = "generate"
    /\ \E o \in Outcomes : answer' = [answer EXCEPT ![q] = o]
    /\ Goto(q, "saveAnswer")
    /\ UNCHANGED <<dbVars, hot, target, mem, limits>>

(* Mutant: the answer is appended to the list Redis holds by now.          *)
SaveAnswerMerged(q) ==
    LET s   == target[q]
        now == Push(IF hot[s] = NotCached THEN mem[q] ELSE hot[s], <<"assistant", q>>)
    IN  /\ pc[q] = "saveAnswer"
        /\ mem' = [mem EXCEPT ![q] = now]
        /\ hot' = [hot EXCEPT ![s] = now]
        /\ Goto(q, "commit")
        /\ UNCHANGED <<dbVars, answer, target, limits>>

(* Mutant: done is reported before the answer is stored.                   *)
SaveAnswerDone(q) ==
    /\ pc[q] = "saveAnswer"
    /\ Save(q, <<"assistant", q>>)
    /\ Goto(q, "done")
    /\ UNCHANGED <<dbVars, answer, target, limits>>

SaveAnswer(q) ==
    /\ pc[q] = "saveAnswer"
    /\ Save(q, <<"assistant", q>>)
    /\ Goto(q, "commit")
    /\ UNCHANGED <<dbVars, answer, target, limits>>

(* _persist_message commits the transaction: the row appears, answered.    *)
CommitRow(q) ==
    /\ pc[q] = "commit"
    /\ rows' = rows \cup {q}
    /\ Goto(q, "metrics")
    /\ UNCHANGED <<sess, began, hot, answer, target, mem, limits>>

(* Mutant: the metrics update adds the message once more.                  *)
FinishQueryAgain(q) ==
    /\ pc[q] = "metrics"
    /\ Save(q, <<"assistant", q>>)
    /\ Goto(q, "done")
    /\ UNCHANGED <<dbVars, answer, target, limits>>

(* The metrics are committed separately, then the done event is sent.      *)
FinishQuery(q) ==
    /\ pc[q] = "metrics"
    /\ Goto(q, "done")
    /\ UNCHANGED <<dbVars, hot, answer, target, mem, limits>>

------------------------------------------------------------------------------
(* Closing a session.                                                      *)

(* Only two different users are told apart: an API key closes any session, *)
(* and anybody one that an API key created.                                *)
CheckClose(c) ==
    /\ pc[c] = "check"
    /\ IF NoUser \in {Owner[target[c]], Caller[c]} \/ Owner[target[c]] = Caller[c]
       THEN Goto(c, "delete")
       ELSE Goto(c, "error")
    /\ UNCHANGED <<dbVars, hot, answer, target, mem, limits>>

DeleteHot(c) ==
    /\ pc[c] = "delete"
    /\ hot' = [hot EXCEPT ![target[c]] = NotCached]
    /\ Goto(c, "update")
    /\ UNCHANGED <<dbVars, answer, target, mem, limits>>

MarkClosed(c) ==
    /\ pc[c] = "update"
    /\ sess' = [sess EXCEPT ![target[c]] = "closed"]
    /\ Goto(c, "done")
    /\ UNCHANGED <<rows, began, hot, answer, target, mem, limits>>

(* A call raises, the client disconnects or the server process dies: an    *)
(* uncommitted row is rolled back, what is in Redis stays.                 *)
Abort(r) ==
    /\ pc[r] \notin Resting
    /\ aborts < MaxAborts
    /\ aborts' = aborts + 1
    /\ Goto(r, "aborted")
    /\ UNCHANGED <<dbVars, hot, answer, target, mem, expiries>>

------------------------------------------------------------------------------
QueryStep(q) ==
    \/ LoadFromDb(q) \/ WarmCache(q) \/ CheckQuery(q) \/ SaveUserMessage(q)
    \/ Generate(q) \/ SaveAnswer(q) \/ CommitRow(q) \/ FinishQuery(q)

CloseStep(c) ==
    \/ LoadFromDb(c) \/ WarmCache(c) \/ CheckClose(c) \/ DeleteHot(c) \/ MarkClosed(c)

Next ==
    \/ \E s \in Sessions : CreateSession(s) \/ Expire(s)
    \/ \E r \in Requests, s \in Sessions : GetHot(r, s)
    \/ \E q \in Queries : QueryStep(q)
    \/ \E c \in Closers : CloseStep(c)
    \/ \E r \in Requests : Abort(r)

Spec == Init /\ [][Next]_vars

------------------------------------------------------------------------------
(* Properties.                                                             *)

Steps == Resting \cup {"cold", "warm", "check", "saveUser", "generate", "saveAnswer",
                        "commit", "metrics", "delete", "update"}

(* The variables keep their types; lists hold messages, and a request at   *)
(* work has a session.                                                     *)
TypeOK ==
    /\ sess \in [Sessions -> {"absent", "active", "closed"}]
    /\ hot \in [Sessions -> {NotCached} \cup Seq(Messages)]
    /\ rows \subseteq Queries
    /\ began \in Seq(Queries)
    /\ answer \in [Queries -> AllOutcomes \cup {"none"}]
    /\ pc \in [Requests -> Steps]
    /\ target \in [Requests -> Sessions \cup {NoSession}]
    /\ \A r \in Requests : pc[r] \notin Resting => target[r] \in Sessions
    /\ mem \in [Requests -> Seq(Messages)]
    /\ aborts \in Nat /\ expiries \in Nat

(* The message lists that exist: in Redis, and in the memory of requests.  *)
Lists == {hot[s] : s \in {t \in Sessions : hot[t] # NotCached}} \cup {mem[r] : r \in Requests}

(* However streams of one session overlap, an answer directly follows its  *)
(* own question, except where the window cut the question off.             *)
AnswersFollowQuestions ==
    \A l \in Lists : \A i \in 2..Len(l) :
        l[i][1] = "assistant" => l[i - 1] = <<"user", l[i][2]>>

(* No list holds a message twice: neither a reload nor a lost update makes *)
(* the prompt repeat a turn.                                               *)
NoRepeatedMessage == \A l \in Lists : IsInjective(l)

(* A session's messages and rows come from its owner's queries to that     *)
(* session only: the histories of two sessions or users never mix.         *)
HistoriesIsolated ==
    /\ \A s \in Sessions : hot[s] # NotCached =>
          \A i \in 1..Len(hot[s]) :
              target[hot[s][i][2]] = s /\ Caller[hot[s][i][2]] = Owner[s]
    /\ \A q \in rows : Caller[q] = Owner[target[q]]

(* "The query endpoint maintains conversation history across multiple      *)
(* turns in the same session (rolling 20-message window ...)": an answer   *)
(* is generated from the last Window messages of its session, the question *)
(* included, wherever the list came from.                                  *)
ContextIsRollingWindow ==
    \A q \in Queries : pc[q] = "generate" =>
        LET said == Append(Transcript(RowsOf(target[q])), <<"user", q>>)
        IN  mem[q] = SubSeq(said, IF Len(said) > Window THEN Len(said) - Window + 1 ELSE 1,
                            Len(said))

(* A session whose stored turns are all that was said in it: no stream     *)
(* died between its question and its row, every answer has text, and the   *)
(* window has room for another turn.                                       *)
Unbroken(s) ==
    /\ \A q \in Queries :
          target[q] = s /\ pc[q] = "aborted" /\ Contains(mem[q], <<"user", q>>) => q \in rows
    /\ \A q \in rows : target[q] = s => answer[q] # "empty"
    /\ 2 * (Len(RowsOf(s)) + 1) <= Window

(* Where requests take turns, an answer of an unbroken session is          *)
(* generated from the question and the answer of every earlier turn and    *)
(* its own question, whether the list came from Redis or from rows.        *)
ContextIsHistory ==
    \A q \in Queries : pc[q] = "generate" /\ Unbroken(target[q]) =>
        LET earlier == RowsOf(target[q])
            context == mem[q]
        IN  /\ Len(context) = 2 * Len(earlier) + 1
            /\ Last(context) = <<"user", q>>
            /\ \A i \in 1..Len(earlier) : /\ context[2 * i - 1] = <<"user", earlier[i]>>
                                          /\ context[2 * i] = <<"assistant", earlier[i]>>

(* The prompt of an unbroken session is what was said last in it: it ends  *)
(* with the turn before the question, wherever the list came from, holds   *)
(* no more than the budget, and leaves out nothing that the budget allows. *)
PromptIsRecentHistory ==
    \A q \in Queries : pc[q] = "generate" /\ Unbroken(target[q]) =>
        LET history == Transcript(RowsOf(target[q]))
            first   == Len(history) - Len(Prompt(mem[q])) + 1
        IN  /\ IsSuffix(Prompt(mem[q]), history)
            /\ SizeFrom(history, first) <= MaxTokens
            /\ first > 1 => SizeFrom(history, first - 1) > MaxTokens

(* A query that reported done is stored with its answer, and Redis never   *)
(* shows an answer whose stream neither stored it nor is about to.         *)
AnswersReachStore ==
    /\ \A q \in Queries : pc[q] \in {"metrics", "done"} => q \in rows
    /\ \A q \in Queries, l \in Lists : Contains(l, <<"assistant", q>>) =>
           q \in rows \/ pc[q] \in {"commit", "aborted"}

(* Where requests take turns, every stored turn of a cached session is in  *)
(* its hot list, unless that is full: no save removed another's messages.  *)
NoLostTurn ==
    \A s \in Sessions : hot[s] # NotCached /\ Len(hot[s]) < Window =>
        \A q \in rows : target[q] = s => Contains(hot[s], <<"user", q>>)
==============================================================================
