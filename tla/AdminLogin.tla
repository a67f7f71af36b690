----------------------------- MODULE AdminLogin -----------------------------
(***************************************************************************)
(* Administrators log in to the admin socket, which is promiscuous as the  *)
(* login socket of players is.  AdministratorPanel gives an administrator  *)
(* a persistent session of that same socket, and a token that each of its  *)
(* commands must carry over that session.  A session is closed by a refused *)
(* login, or by another Access message; its token is never taken back, and *)
(* messages that waited when it was closed are handled all the same.       *)
(***************************************************************************)
EXTENDS Login

CONSTANT TokensBound   \* bound on the tokens given out

ASSUME AdminAssumption ==
    /\ Persistent \in Nat \ {0} /\ Total \in Nat /\ Persistent < Total
    /\ TokensBound \in Nat

VARIABLES
    aslots,    \* m_sessions of the admin socket
    abuffer,   \* AdministratorPanel's m_messages; `from` is who sent the datagram
    tokens,    \* m_tokens
    issued,    \* number of tokens given out
    mine,      \* the last token an administrator was sent, 0: none
    tries,     \* how the Access messages of an administrator went so far
    nobodys,   \* slots taken by datagrams that nobody is going to answer
    commands   \* administrators whose commands were executed

adminVars == <<aslots, abuffer, tokens, issued, mine, tries, nobodys, commands>>

Tokens == 1..TokensBound

AdminInit ==
    /\ aslots = NoSessions
    /\ abuffer = {}
    /\ tokens = [i \in 1..Persistent |-> 0]
    /\ issued = 0
    /\ mine = [e \in Addresses |-> 0]
    /\ tries = [e \in Addresses |-> "none"]
    /\ nobodys = {}
    /\ commands = {}

ReceiveAdmin(e, kind, token) ==
    LET i == Slot(aslots, e)
    IN  /\ i # None
        /\ aslots' = [aslots EXCEPT ![i] = e]
        /\ \/ /\ kind = "unparsable"
              /\ nobodys' = nobodys \cup {i}
              /\ UNCHANGED abuffer
           \/ /\ kind # "unparsable" /\ Cardinality(abuffer) < BufferBound
              /\ abuffer' = abuffer \cup {[slot |-> i, kind |-> kind, token |-> token, from |-> e]}
              /\ UNCHANGED nobodys
        /\ UNCHANGED <<tokens, issued, mine, tries, commands>>

(* "won": has logged in; "again": has sent one more Access message after that *)
After(sofar, won) == IF sofar \in {"won", "again"} THEN "again" ELSE IF won THEN "won" ELSE "none"

(* onLoginRequest: refused.  The session the request came over is closed, also
   when it is a persistent one. *)
AdminLoginFailed(d) ==
    /\ d.kind = "wrong" \/ (d.kind = "login" /\ aslots[d.slot] = Free)
    /\ aslots' = AfterClose(aslots, d.slot)
    /\ tries' = [tries EXCEPT ![d.from] = After(@, FALSE)]
    /\ UNCHANGED <<tokens, issued, mine, nobodys, commands>>

(* An Access message that is no login: its session is closed. *)
AdminNotALogin(d) ==
    /\ d.kind = "other"
    /\ aslots' = AfterClose(aslots, d.slot)
    /\ tries' = [tries EXCEPT ![d.from] = After(@, FALSE)]
    /\ UNCHANGED <<tokens, issued, mine, nobodys, commands>>

(* onLoginRequest: a new token for a new persistent session.  The client is
   answered over the session the request came from. *)
AdminLoginSucceeds(d) ==
    /\ d.kind = "login" /\ aslots[d.slot] # Free
    /\ issued < TokensBound
    /\ LET e == aslots[d.slot]
           i == PersistentSlot(aslots)
       IN  /\ aslots' = AfterSend(IF i = None THEN aslots ELSE [aslots EXCEPT ![i] = e], d.slot)
           /\ issued' = issued + 1
           /\ IF i = None THEN UNCHANGED <<tokens, mine>>
              ELSE /\ tokens' = [tokens EXCEPT ![i] = issued + 1]
                   /\ mine' = [mine EXCEPT ![e] = issued + 1]
           /\ tries' = [tries EXCEPT ![e] = After(@, i # None)]
    /\ UNCHANGED <<nobodys, commands>>

(* the token belongs to the session the command came over *)
TokenFits(slot, token) == slot <= Persistent /\ tokens[slot] = token

(* A command with a token, which is all that is asked of it: the session may
   have been closed meanwhile.  An invalid token is ignored: the slot of a
   client that has not logged in is not freed. *)
AdminCommand(d) ==
    /\ d.kind = "command"
    /\ IF TokenFits(d.slot, d.token)
       THEN /\ commands' = commands \cup {d.from}
            /\ UNCHANGED nobodys
       ELSE /\ UNCHANGED commands
            /\ nobodys' = IF d.slot > Persistent
                         THEN nobodys \cup {d.slot} ELSE nobodys
    /\ UNCHANGED <<aslots, tokens, issued, mine, tries>>

(* AdministratorPanel::handleMessage *)
HandleAdmin(d) ==
    /\ abuffer' = abuffer \ {d}
    /\ \/ AdminNotALogin(d) \/ AdminLoginFailed(d) \/ AdminLoginSucceeds(d)
       \/ AdminCommand(d)

AdminMessages ==
    ({"login", "wrong", "other", "unparsable"} \X {0}) \cup ({"command"} \X Tokens)

AdminNext ==
    \/ \E e \in Addresses, m \in AdminMessages : ReceiveAdmin(e, m[1], m[2])
    \/ \E d \in abuffer : HandleAdmin(d)

AdminSpec == AdminInit /\ [][AdminNext]_adminVars

-----------------------------------------------------------------------------
(* Only a command of an administrator that has logged in is executed, although
   slots and their tokens pass from one client to another. *)
CommandsAreAuthorised == \A e \in commands : tries[e] \in {"won", "again"}

(* The token an administrator was sent is accepted from it, as long as no
   administrator sends another Access message after it has logged in: a login,
   right or wrong, or anything else, which closes its session. *)
TokenIsAccepted ==
    \/ \E e \in Addresses : tries[e] = "again"
    \/ \A e \in Addresses :
          mine[e] # 0 => LET i == SenderSlot(aslots, e) IN i # None /\ tokens[i] = mine[e]

(* A promiscuous slot is held by exactly the datagrams that are still to be
   answered, and by those without an answer: unparsable ones, and commands with
   a token of another session. *)
AdminSlotsAreOwed ==
    {i \in Persistent + 1..Total : aslots[i] # Free} =
        ({d.slot : d \in abuffer} \cup nobodys) \ (1..Persistent)

(* Administrators are served, and nobody else, although slots and tokens pass
   from one client to another. *)
AdministratorsAreServed == CommandsAreAuthorised /\ TokenIsAccepted /\ AdminSlotsAreOwed
=============================================================================
