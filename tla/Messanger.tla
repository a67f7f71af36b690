------------------------------ MODULE Messanger ------------------------------
(* modules::Messanger: sessions of the module register services by name, and *)
(* requests of other sessions are routed to them. A message is buffered when *)
(* it is received and handled later, in the stage in which the messanger     *)
(* handles its messages; one that has a timestamp in the future stays        *)
(* buffered for many cycles. A session may be closed while its messages wait.*)
(* Time is counted in cycles of the conveyor: a transaction keeps how many   *)
(* are left until its deadline.                                              *)
EXTENDS Integers, Sequences, SequencesExt, Functions, FiniteSets

CONSTANTS
    Sessions,       \* sessions with the messanger that clients open
    Names,          \* names of services
    Requests,       \* requests; the client's seq of a request is the request itself
    Timeouts,       \* timeouts that clients ask for, in cycles
    MaxTimeout,     \* nMaxRequestTimeoutMs
    ServicesLimit,  \* nServicesLimit
    SessionsLimit,  \* nSessionsLimit, of transactions
    PendingBound    \* model bound: messages that wait to be handled

ASSUME MessangerAssumption ==
    /\ Timeouts \subseteq Nat /\ MaxTimeout \in Nat
    /\ ServicesLimit \in Nat /\ SessionsLimit \in Nat /\ IsFiniteSet(Requests)

VARIABLES
    mphase,         \* stage of the cycle: "receive", "handle" or "proceed"
    session,        \* session[s]: "open" or "closed"
    pending,        \* messages received and not handled yet
    m_services,     \* IndexedVector of [nSessionId, sName]
    m_transactions, \* IndexedVector of transactions, by nServiceSeq
    m_nNextSeq,
    reports,        \* reports[r]: statuses and responses sent for request r
    orphans         \* history: names that were registered on a closed session

messangerVars == <<mphase, session, pending, m_services, m_transactions,
                   m_nNextSeq, reports, orphans>>

Seqs == 1..Cardinality(Requests)
Message ==
    [type : {"open_service"}, from : Sessions, name : Names, force : BOOLEAN]
      \cup [type : {"request"}, from : Sessions, name : Names, seq : Requests, timeout : Timeouts]
      \cup [type : {"response"}, from : Sessions, seq : Seqs]

-----------------------------------------------------------------------------
(* utils::IndexedVector: a vector of items with unique keys and a map from  *)
(* keys to positions. Removing an item moves the last one to its place.     *)
(* A vector is a record of the items, the map and the field of an item that *)
(* is its key; positions start with 1. A predicate is the set of the items  *)
(* that satisfy it.                                                         *)
Empty(key) == [items |-> <<>>, index |-> <<>>, key |-> key]

HasKey(v, k) == k \in DOMAIN v.index
HasItem(v, wanted) == \E i \in DOMAIN v.items : v.items[i] \in wanted
Get(v, k) == v.items[v.index[k]]
KeyOf(v, item) == item[v.key]

Push(v, item) ==
    [v EXCEPT !.items = Append(@, item),
              !.index = [k \in DOMAIN @ \cup {KeyOf(v, item)} |->
                            IF k = KeyOf(v, item) THEN Len(v.items) + 1 ELSE @[k]]]

EraseKey(v, k) == [v EXCEPT !.index = Restrict(@, DOMAIN @ \ {k})]

RemoveItem(v, id) ==
    IF id < Len(v.items)
    THEN [v EXCEPT !.items = Front([v.items EXCEPT ![id] = Last(v.items)]),
                   !.index[KeyOf(v, Last(v.items))] = id]
    ELSE [v EXCEPT !.items = Front(@)]

\* pop() and remove() of one key: pop() erases the key before it moves the
\* last item, remove() after; with unique keys the result is the same.
RemoveKey(v, k) == RemoveItem(EraseKey(v, k), v.index[k])

\* remove() by a predicate: the loop goes from the last item to the first.
WithoutUnwanted(v, id, unwanted) ==
    IF v.items[id] \in unwanted THEN RemoveItem(EraseKey(v, KeyOf(v, v.items[id])), id) ELSE v

RemoveIf(v, unwanted) ==
    LET n == Len(v.items)
        after[k \in 0..n] ==
            IF k = 0 THEN v ELSE WithoutUnwanted(after[k - 1], n - k + 1, unwanted)
    IN after[n]

\* The index names the position of every item, and nothing else.
IndexAgrees(v) ==
    /\ DOMAIN v.index = {KeyOf(v, v.items[i]) : i \in DOMAIN v.items}
    /\ \A i \in DOMAIN v.items : v.index[KeyOf(v, v.items[i])] = i
-----------------------------------------------------------------------------
MessangerInit ==
    /\ mphase = "receive"
    /\ session = [s \in Sessions |-> "open"]
    /\ pending = {}
    /\ m_services = Empty("sName") /\ m_transactions = Empty("nServiceSeq")
    /\ m_nNextSeq = 1
    /\ reports = [r \in Requests |-> <<>>]
    /\ orphans = {}
-----------------------------------------------------------------------------
(* What clients do while messages are received.                             *)

\* A request is sent once, so that its reports can be told from those of another.
OnMessageReceived(m) ==
    /\ mphase = "receive" /\ session[m.from] = "open"
    /\ m \notin pending /\ Cardinality(pending) < PendingBound
    /\ m.type = "request" =>
          reports[m.seq] = <<>> /\ \A p \in pending : p.type = "request" => p.seq # m.seq
    /\ pending' = pending \cup {m}
    /\ UNCHANGED <<mphase, session, m_services, m_transactions, m_nNextSeq, reports, orphans>>

ServicesOf(s) == [nSessionId : {s}, sName : Names]
WithoutServicesOf(s) == RemoveIf(m_services, ServicesOf(s))

OnSessionClosed(s) ==
    /\ mphase = "receive" /\ session[s] = "open"
    /\ session' = [session EXCEPT ![s] = "closed"]
    /\ m_services' = WithoutServicesOf(s)
    /\ UNCHANGED <<mphase, pending, m_transactions, m_nNextSeq, reports, orphans>>

StartHandling ==
    /\ mphase = "receive" /\ mphase' = "handle"
    /\ UNCHANGED <<session, pending, m_services, m_transactions, m_nNextSeq, reports, orphans>>
-----------------------------------------------------------------------------
(* Handlers. sendToClient() fails if the session is closed.                 *)

CanSend(s) == session[s] = "open"

Busy(services, s) == HasItem(services, ServicesOf(s))

\* The session to register the service on may be closed already: the request
\* waited too long, or the service that it replaces was its own.
OpenService(m) ==
    LET replaced == HasKey(m_services, m.name)
        old      == Get(m_services, m.name).nSessionId
        services == IF replaced THEN RemoveKey(m_services, m.name) ELSE m_services
        closed   == IF replaced THEN {old} ELSE {}
    IN /\ m.type = "open_service"
       /\ IF replaced /\ ~m.force THEN UNCHANGED <<session, m_services, orphans>>
          ELSE /\ session' = [s \in Sessions |-> IF s \in closed THEN "closed" ELSE session[s]]
               /\ IF Busy(services, m.from) \/ Len(services.items) >= ServicesLimit
                  THEN m_services' = services /\ orphans' = orphans \ {m.name}
                  ELSE /\ m_services' = Push(services,
                                             [nSessionId |-> m.from, sName |-> m.name])
                       /\ orphans' = IF session'[m.from] = "open"
                                     THEN orphans \ {m.name} ELSE orphans \cup {m.name}
       /\ UNCHANGED <<m_transactions, m_nNextSeq, reports>>

Report(r, status) == reports' = [reports EXCEPT ![r] = Append(@, status)]

Refusal(m) ==
    IF ~HasKey(m_services, m.name) THEN "NO_SUCH_SERVICE"
    ELSE IF m.timeout > MaxTimeout THEN "REQUEST_TIMEOUT_TOO_LONG"
    ELSE IF Len(m_transactions.items) >= SessionsLimit THEN "SESSIONS_LIMIT_REACHED"
    ELSE "NONE"

Transaction(m) ==
    [nServiceSessionId |-> Get(m_services, m.name).nSessionId, nServiceSeq |-> m_nNextSeq,
     nClientSessionId |-> m.from, nClientSeq |-> m.seq, left |-> m.timeout]

\* The transaction is stored even if the request could not be forwarded.
\* (mutant: OnRequest)
OnRequestAlwaysStored(m) ==
    /\ m.type = "request" /\ UNCHANGED <<session, m_services, orphans>>
    /\ \/ Refusal(m) # "NONE" /\ Report(m.seq, Refusal(m)) /\ UNCHANGED <<m_transactions, m_nNextSeq>>
       \/ /\ Refusal(m) = "NONE" /\ m_nNextSeq' = m_nNextSeq + 1
          /\ m_transactions' = Push(m_transactions, Transaction(m))
          /\ Report(m.seq, IF CanSend(Transaction(m).nServiceSessionId)
                           THEN "ROUTED" ELSE "UNKNOWN_ERROR")
OnRequest(m) ==
    /\ m.type = "request" /\ UNCHANGED <<session, m_services, orphans>>
    /\ \/ Refusal(m) # "NONE" /\ Report(m.seq, Refusal(m)) /\ UNCHANGED <<m_transactions, m_nNextSeq>>
       \/ /\ Refusal(m) = "NONE" /\ m_nNextSeq' = m_nNextSeq + 1
          /\ IF CanSend(Transaction(m).nServiceSessionId)
             THEN /\ m_transactions' = Push(m_transactions, Transaction(m))
                  /\ Report(m.seq, "ROUTED")
             ELSE UNCHANGED m_transactions /\ Report(m.seq, "UNKNOWN_ERROR")

\* Any session may answer; one that names no transaction is told WRONG_SEQ.
OnResponse(m) ==
    /\ m.type = "response" /\ UNCHANGED <<session, m_services, m_nNextSeq, orphans>>
    /\ IF HasKey(m_transactions, m.seq)
       THEN /\ Report(Get(m_transactions, m.seq).nClientSeq, "RESPONSE")
            /\ m_transactions' = RemoveKey(m_transactions, m.seq)
       ELSE UNCHANGED <<m_transactions, reports>>

HandleMessangerMessage(m) ==
    /\ mphase = "handle" /\ m \in pending
    /\ pending' = pending \ {m}
    /\ OpenService(m) \/ OnRequest(m) \/ OnResponse(m)
    /\ UNCHANGED mphase

FinishHandling ==
    /\ mphase = "handle" /\ mphase' = "proceed"
    /\ UNCHANGED <<session, pending, m_services, m_transactions, m_nNextSeq, reports, orphans>>

Expired == {t \in ToSet(m_transactions.items) : t.left <= 0}
\* The deadline moves along with the clock. (mutant: Aged)
AgedNever(v) == v
Aged(v) == [v EXCEPT !.items = [i \in DOMAIN v.items |-> [v.items[i] EXCEPT !.left = @ - 1]]]

\* proceed() closes what is overdue; then the time of the next cycle comes.
Proceed ==
    LET expired == {t.nClientSeq : t \in Expired}
    IN /\ mphase = "proceed" /\ mphase' = "receive"
       /\ m_transactions' = Aged(RemoveIf(m_transactions, Expired))
       /\ reports' = [r \in Requests |-> IF r \in expired THEN Append(reports[r], "CLOSED")
                                         ELSE reports[r]]
       /\ UNCHANGED <<session, pending, m_services, m_nNextSeq, orphans>>

MessangerNext ==
    \/ \E s \in Sessions : OnSessionClosed(s)
    \/ \E m \in Message : OnMessageReceived(m)
    \/ \E m \in pending : HandleMessangerMessage(m)
    \/ StartHandling \/ FinishHandling \/ Proceed

MessangerSpec == MessangerInit /\ [][MessangerNext]_messangerVars
-----------------------------------------------------------------------------
(* Both vectors keep exact indexes, whatever order services and            *)
(* transactions are removed in: no message goes to a wrong session because *)
(* of an item that was moved; transactions are those of requests that were *)
(* routed and not answered. (Messanger.cpp, IndexedVector.hpp)             *)
MessangerTypeOK ==
    /\ session \in [Sessions -> {"open", "closed"}]
    /\ pending \subseteq Message
    /\ ToSet(m_services.items) \subseteq [nSessionId : Sessions, sName : Names]
    /\ IndexAgrees(m_services)
    /\ IndexAgrees(m_transactions)
    /\ m_nNextSeq \in 1..(Cardinality(Requests) + 1)

(* A session has one service at most, and closing a session takes its      *)
(* service away: the only services that nobody answers for are those that  *)
(* openService() registered on a session that was closed before.           *)
(* (Messanger.cpp: onSessionClosed, openService)                           *)
ServicesMatchSessions ==
    \A i, j \in DOMAIN m_services.items :
        LET x == m_services.items[i]
        IN /\ x.nSessionId = m_services.items[j].nSessionId => i = j
           /\ session[x.nSessionId] = "open" \/ x.sName \in orphans

(* Messanger implements RequestReply: every request gets one rejection, or *)
(* ROUTED and then one response or CLOSED, never both, although responses, *)
(* deadlines and closed sessions come in any order.                        *)
Promise == INSTANCE RequestReply WITH Requests <- Requests, reports <- reports
PromiseKept == Promise!Spec

(* Requests are served as promised, by services whose sessions are open.   *)
RequestsAreServed == PromiseKept /\ [](MessangerTypeOK /\ ServicesMatchSessions)

(* A client that was told ROUTED does not wait for ever: the response or   *)
(* CLOSED comes. (Messanger.cpp: proceed)                                  *)
RoutedIsAnswered ==
    \A r \in Requests : (reports[r] = <<"ROUTED">>) ~> (Len(reports[r]) = 2)
============================================================================
