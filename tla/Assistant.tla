----------------------------- MODULE Assistant ------------------------------
(***************************************************************************)
(* Questions to the assistant (AssistantService), answered at once or as a *)
(* stream, the daily cap and the record of paid calls (AiUsageService),    *)
(* and the chain of chat providers with its cooldowns (FallbackChatModel). *)
(* Questions are split at their awaits and answered side by side, while    *)
(* conversations are deleted by hand and by the retention job.             *)
(*                                                                         *)
(* One user, whose cap it is.  Texts, citations, the history that is sent  *)
(* along, token counts and prices are left out.                            *)
(***************************************************************************)
EXTENDS Integers, Sequences, FiniteSets, FiniteSetsExt, Sums

CONSTANTS
    Questions,      \* questions that may be in flight together
    Conversations,
    Chain,          \* the providers in configured order
    Cooldown,       \* for how long a provider that failed is skipped
    DailyLimit, RoleLimits,   \* the default cap, and caps of roles; 0 is unlimited
    TicksPerDay,
    Setups,         \* which providers have credentials, which roles the user has
    LastTick, MaxQuestions, MaxMishaps   \* bounds

VARIABLES
    configured,     \* providers with credentials
    roles,          \* the roles of the user that have a cap of their own
    now,
    conversations,  \* rows of ai_conversations: "none" yet, "recent", "old" or "gone"
    cooldownUntil,
    usage,          \* rows of ai_usage, per day
    questions,      \* questions being answered
    asked,          \* questions so far
    mishaps,        \* failures of providers, of writes and of servers so far
    paid,           \* history: calls that produced output
    failedAt,       \* history: when a provider failed last
    lost            \* history: why a paid call went unrecorded

assistant == <<configured, roles, now, conversations, cooldownUntil, usage, questions, asked,
               mishaps, paid, failedAt, lost>>

Providers == {Chain[i] : i \in DOMAIN Chain}
UsageDays == 0..(LastTick \div TicksPerDay)
Day(t) == t \div TicksPerDay
Never == -Cooldown

ASSUME AssistantAssumption ==
    /\ {Cooldown, TicksPerDay} \subseteq Nat \ {0}
    /\ {DailyLimit, LastTick, MaxQuestions, MaxMishaps} \subseteq Nat
    /\ IsFiniteSet(Questions)
    /\ Chain \in Seq(Providers)
    /\ IsFiniteSet(DOMAIN RoleLimits) /\ \A r \in DOMAIN RoleLimits : RoleLimits[r] \in Nat
    /\ Setups \subseteq [configured : SUBSET Providers, roles : SUBSET DOMAIN RoleLimits]

-----------------------------------------------------------------------------
(* The daily cap: the most generous override of the user's roles.          *)
LimitFor ==
    LET overrides == {RoleLimits[r] : r \in roles}
    IN  IF overrides = {} THEN DailyLimit
        ELSE IF 0 \in overrides THEN 0 ELSE Max(overrides)
Used == usage[Day(now)]

(* Mutant: the cap itself may be used up once more.                        *)
WithinDailyLimitLoose == LimitFor = 0 \/ Used <= LimitFor
WithinDailyLimit == LimitFor = 0 \/ Used < LimitFor

-----------------------------------------------------------------------------
(* The chain: who is still to be tried, and whose turn it is among them.   *)
OnCooldown(p) == cooldownUntil[p] > now
Healthy == {p \in configured : ~OnCooldown(p)}
First(ps) ==
    Chain[CHOOSE i \in DOMAIN Chain : Chain[i] \in ps /\ \A j \in 1..(i - 1) : Chain[j] \notin ps]

(* Mutant: who is cooling down is skipped even when everyone is.           *)
OrderHealthy == Healthy
Order == IF Healthy # {} THEN Healthy ELSE configured

-----------------------------------------------------------------------------
(* Questions in flight.                                                    *)
NoQuestion == [step |-> "none", conv |-> "none", stream |-> FALSE, order |-> {}, tried |-> {}, since |-> 0]
Kept(c) == conversations[c] \in {"recent", "old"}
InFlight == {q \in Questions : questions[q] # NoQuestion}
At(q, step) == questions[q].step = step
Goto(q, step) == questions' = [questions EXCEPT ![q].step = step]
End(q) == questions' = [questions EXCEPT ![q] = NoQuestion]
Mishap == mishaps < MaxMishaps /\ mishaps' = mishaps + 1

(* ask and askStream: what can be refused is, before anything is stored.   *)
Ask(q) ==
    /\ questions[q] = NoQuestion
    /\ asked < MaxQuestions /\ asked' = asked + 1
    /\ WithinDailyLimit
    /\ \E c \in {x \in Conversations : Kept(x)} \cup {"none"}, stream \in BOOLEAN :
        questions' = [questions EXCEPT ![q] = [NoQuestion EXCEPT
            !.step = IF c = "none" THEN "conversation" ELSE "question", !.conv = c, !.stream = stream]]
    /\ UNCHANGED <<configured, roles, now, conversations, cooldownUntil, usage, mishaps, paid, failedAt, lost>>

SaveConversation(q) ==
    /\ At(q, "conversation")
    /\ \E c \in Conversations : conversations[c] = "none"
    /\ LET c == CHOOSE x \in Conversations : conversations[x] = "none"
       IN  /\ conversations' = [conversations EXCEPT ![c] = "recent"]
           /\ questions' = [questions EXCEPT ![q].step = "question", ![q].conv = c]
    /\ UNCHANGED <<configured, roles, now, cooldownUntil, usage, asked, mishaps, paid, failedAt, lost>>

(* The question is stored unless its conversation is gone; the search      *)
(* finds excerpts or nothing, and then no model is called.                 *)
SaveQuestion(q) ==
    /\ At(q, "question")
    /\ IF ~Kept(questions[q].conv) THEN End(q)
       ELSE Goto(q, "order") \/ Goto(q, "notFound")
    /\ UNCHANGED <<configured, roles, now, conversations, cooldownUntil, usage, asked, mishaps, paid, failedAt, lost>>

StartOrder(q) ==
    /\ At(q, "order")
    /\ questions' = [questions EXCEPT ![q].step = IF Order = {} THEN "refused" ELSE "call",
                                      ![q].order = Order, ![q].since = now]
    /\ UNCHANGED <<configured, roles, now, conversations, cooldownUntil, usage, asked, mishaps, paid, failedAt, lost>>

(* complete, or the first chunk of a stream, which is then committed to.   *)
Answers(q) ==
    /\ At(q, "call")
    /\ cooldownUntil' = [cooldownUntil EXCEPT ![First(questions[q].order)] = Never]
    /\ paid' = paid + 1
    /\ questions' = [questions EXCEPT ![q] = [NoQuestion EXCEPT
            !.step = IF questions[q].stream THEN "streaming" ELSE "answer",
            !.conv = questions[q].conv, !.stream = questions[q].stream]]
    /\ UNCHANGED <<configured, roles, now, conversations, usage, asked, mishaps, failedAt, lost>>

(* fail: the provider cools down and the next one is tried.                *)
Fails(q) ==
    /\ At(q, "call") /\ Mishap
    /\ LET p == First(questions[q].order)
           rest == questions[q].order \ {p}
       IN  /\ cooldownUntil' = [cooldownUntil EXCEPT ![p] = now + Cooldown]
           /\ failedAt' = [failedAt EXCEPT ![p] = now]
           /\ questions' = [questions EXCEPT ![q].step = IF rest = {} THEN "refused" ELSE "call",
                                             ![q].order = rest, ![q].tried = @ \cup {p}]
    /\ UNCHANGED <<configured, roles, now, conversations, usage, asked, paid, lost>>

Refuse(q) ==
    /\ At(q, "refused")
    /\ End(q)
    /\ UNCHANGED <<configured, roles, now, conversations, cooldownUntil, usage, asked, mishaps, paid, failedAt, lost>>

(* The rest of the stream arrives, or it breaks and the error is passed on.*)
StreamEnds(q) ==
    /\ At(q, "streaming")
    /\ questions' = [questions EXCEPT ![q].step = "answer", ![q].stream = FALSE]
    /\ UNCHANGED <<configured, roles, now, conversations, cooldownUntil, usage, asked, mishaps, paid, failedAt, lost>>

StreamBreaks(q) ==
    /\ At(q, "streaming") /\ Mishap
    /\ lost' = lost \cup {"broken"}
    /\ End(q)
    /\ UNCHANGED <<configured, roles, now, conversations, cooldownUntil, usage, asked, paid, failedAt>>

(* The client is gone, which is noticed at the next event: before the call *)
(* nothing was paid for; afterwards what was streamed is recorded.         *)
(* Mutant: a stream that is cancelled is not recorded.                     *)
AbandonFree(q) ==
    /\ questions[q].stream /\ \E s \in {"order", "notFound", "streaming"} : At(q, s)
    /\ End(q)
    /\ UNCHANGED <<configured, roles, now, conversations, cooldownUntil, usage, asked, mishaps, paid, failedAt, lost>>

Abandon(q) ==
    /\ questions[q].stream
    /\ \/ At(q, "order") /\ End(q)
       \/ At(q, "notFound") /\ End(q)
       \/ At(q, "streaming") /\ Goto(q, "record")
    /\ UNCHANGED <<configured, roles, now, conversations, cooldownUntil, usage, asked, mishaps, paid, failedAt, lost>>

(* saveAnswer: a conversation that was deleted meanwhile cannot take it.   *)
SaveAnswer(q) ==
    /\ At(q, "answer") \/ At(q, "notFound")
    /\ LET c == questions[q].conv
           grounded == At(q, "answer")
       IN  IF ~Kept(c)
           THEN /\ End(q)
                /\ lost' = IF grounded THEN lost \cup {"unsaved"} ELSE lost
                /\ UNCHANGED conversations
           ELSE /\ conversations' = [conversations EXCEPT ![c] = "recent"]
                /\ IF grounded THEN Goto(q, "record") ELSE End(q)
                /\ UNCHANGED lost
    /\ UNCHANGED <<configured, roles, now, cooldownUntil, usage, asked, mishaps, paid, failedAt>>

(* record never fails the answer: a row that cannot be written is logged.  *)
Record(q) ==
    /\ At(q, "record")
    /\ \/ usage' = [usage EXCEPT ![Day(now)] = @ + 1] /\ UNCHANGED <<mishaps, lost>>
       \/ Mishap /\ lost' = lost \cup {"unwritten"} /\ UNCHANGED usage
    /\ End(q)
    /\ UNCHANGED <<configured, roles, now, conversations, cooldownUntil, asked, paid, failedAt>>

(* A server stops: its questions are gone.                                 *)
ServerStops(q) ==
    /\ q \in InFlight /\ Mishap
    /\ lost' = lost \cup {"stopped"}
    /\ End(q)
    /\ UNCHANGED <<configured, roles, now, conversations, cooldownUntil, usage, asked, paid, failedAt>>

-----------------------------------------------------------------------------
DeleteConversation(c) ==
    /\ Kept(c)
    /\ conversations' = [conversations EXCEPT ![c] = "gone"]
    /\ UNCHANGED <<configured, roles, now, cooldownUntil, usage, questions, asked, mishaps, paid, failedAt, lost>>

(* The retention job deletes what nobody has used for long, by updated_at. *)
ConversationAges(c) ==
    /\ conversations[c] = "recent"
    /\ conversations' = [conversations EXCEPT ![c] = "old"]
    /\ UNCHANGED <<configured, roles, now, cooldownUntil, usage, questions, asked, mishaps, paid, failedAt, lost>>

PurgeConversations ==
    /\ \E c \in Conversations : conversations[c] = "old"
    /\ conversations' = [c \in Conversations |-> IF conversations[c] = "old" THEN "gone" ELSE conversations[c]]
    /\ UNCHANGED <<configured, roles, now, cooldownUntil, usage, questions, asked, mishaps, paid, failedAt, lost>>

TimePasses ==
    /\ now < LastTick /\ now' = now + 1
    /\ UNCHANGED <<configured, roles, conversations, cooldownUntil, usage, questions, asked, mishaps, paid, failedAt, lost>>

-----------------------------------------------------------------------------
AssistantInit ==
    /\ \E s \in Setups : configured = s.configured /\ roles = s.roles
    /\ now = 0
    /\ conversations = [c \in Conversations |-> "none"]
    /\ cooldownUntil = [p \in Providers |-> Never]
    /\ usage = [d \in UsageDays |-> 0]
    /\ questions = [q \in Questions |-> NoQuestion]
    /\ asked = 0 /\ mishaps = 0 /\ paid = 0 /\ lost = {}
    /\ failedAt = [p \in Providers |-> Never]

Answering(q) ==
    \/ Ask(q) \/ SaveConversation(q) \/ SaveQuestion(q) \/ StartOrder(q) \/ Answers(q) \/ Fails(q) \/ Refuse(q)
    \/ StreamEnds(q) \/ StreamBreaks(q) \/ Abandon(q) \/ SaveAnswer(q) \/ Record(q) \/ ServerStops(q)

AssistantNext ==
    \/ \E q \in Questions : Answering(q)
    \/ \E c \in Conversations : DeleteConversation(c) \/ ConversationAges(c)
    \/ PurgeConversations \/ TimePasses

AssistantSpec == AssistantInit /\ [][AssistantNext]_assistant

-----------------------------------------------------------------------------
(* The cap of a day is exceeded by no more than the questions that were in *)
(* flight beside the last one: the check reads what was recorded so far,   *)
(* also over midnight, when streams are cancelled or records fail.         *)
CapWithinFlight ==
    LimitFor = 0 \/ \A d \in UsageDays : usage[d] <= LimitFor + Cardinality(Questions) - 1

(* When nothing is in flight every call that produced output is recorded,  *)
(* and nothing else is, also those whose reader went away, unless a stream *)
(* broke, its conversation was deleted, the row could not be written or    *)
(* the server stopped.                                                     *)
PaidIsCounted ==
    LET recorded == SumOver(usage, UsageDays)
    IN  /\ recorded <= paid
        /\ InFlight = {} /\ lost = {} => recorded = paid

(* A question is refused only after a provider was tried for it, and every *)
(* other one had failed, for any question, within the cooldown: a provider *)
(* that may have recovered is never passed over.                           *)
RefusalMeansAllDown ==
    \A q \in Questions :
        At(q, "refused") /\ configured # {} =>
            /\ questions[q].tried # {}
            /\ \A p \in configured : failedAt[p] + Cooldown > questions[q].since

(* A provider on cooldown is "retried after the cooldown or when           *)
(* everything else is down too": no question is refused before every       *)
(* provider was tried for it.                                              *)
RefusalTriesAll == \A q \in Questions : At(q, "refused") => questions[q].tried = configured
=============================================================================
