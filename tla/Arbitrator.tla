----------------------------- MODULE Arbitrator -----------------------------
(***************************************************************************)
(* arbitrator::BaseArbitrator with the scores of ResourceCollecting.  The  *)
(* threads of the conveyor score the rows of the leaderboard together, one *)
(* row after another (stage eScoring); then, alone, the master thread      *)
(* sorts the board and looks whether the game is over (eCheckIfGameOver).  *)
(* The next round begins when the cooldown is over; meanwhile the players  *)
(* collect resources.                                                      *)
(***************************************************************************)
EXTENDS Integers, Sequences, FiniteSets, Functions

CONSTANTS
    Rivals,         \* players
    Judges,         \* threads
    Goal,           \* m_target of the resource that is collected
    TargetScore,    \* m_nTargetScore
    StockBound,     \* most resources of a player on ships with a shipyard
    SpareBound      \* and on the other ships

ASSUME ArbitratorAssumption ==
    /\ Goal \in Nat \ {0} /\ TargetScore \in Nat /\ StockBound \in Nat /\ SpareBound \in Nat
    /\ IsFiniteSet(Rivals) /\ Rivals # {} /\ Judges # {}

VARIABLES
    round,          \* "play" or "scoring"
    stock,          \* resources of each player on ships with a shipyard
    spare,          \* and on ships without one
    m_table,        \* rows: login and score
    m_nNextId,
    row,            \* the row each thread has taken, 0 if none
    judged,         \* threads that have returned from proceed()
    winners         \* the board that onGameOver() has reported

arbitratorVars == <<round, stock, spare, m_table, m_nNextId, row, judged, winners>>

Rows == 1..Cardinality(Rivals)

(* One row for every player, in the order of the storage *)
OpeningTables ==
    {[i \in Rows |-> [login |-> order[i], score |-> 0]] : order \in Bijection(Rows, Rivals)}

ArbitratorInit ==
    /\ round = "play"
    /\ stock = [p \in Rivals |-> 0] /\ spare = [p \in Rivals |-> 0]
    /\ m_table \in OpeningTables
    /\ m_nNextId = 0
    /\ row = [t \in Judges |-> 0]
    /\ judged = {}
    /\ winners = <<>>

(* The players gain and spend resources between the rounds *)
Collect(p) ==
    /\ round = "play"
    /\ \E s \in 0..StockBound, t \in 0..SpareBound :
        /\ stock' = [stock EXCEPT ![p] = s]
        /\ spare' = [spare EXCEPT ![p] = t]
    /\ UNCHANGED <<round, m_table, m_nNextId, row, judged, winners>>

(* The share of the goal that the player has, at most all of it *)
Score(p) == (TargetScore * (IF stock[p] < Goal THEN stock[p] ELSE Goal)) \div Goal

(* prephare() of eScoring *)
BeginScoring ==
    /\ round = "play"
    /\ round' = "scoring"
    /\ m_nNextId' = 0
    /\ judged' = {}
    /\ winners' = <<>>
    /\ UNCHANGED <<stock, spare, m_table, row>>

(* A thread takes the next row ... *)
TakeRow(t) ==
    /\ round = "scoring" /\ t \notin judged /\ row[t] = 0
    /\ m_nNextId' = m_nNextId + 1
    /\ IF m_nNextId < Len(m_table)
       THEN row' = [row EXCEPT ![t] = m_nNextId + 1] /\ UNCHANGED judged
       ELSE judged' = judged \union {t} /\ UNCHANGED row
    /\ UNCHANGED <<round, stock, spare, m_table, winners>>

(* ... and scores it *)
ScoreRow(t) ==
    /\ row[t] # 0
    /\ m_table' = [m_table EXCEPT ![row[t]].score = Score(m_table[row[t]].login)]
    /\ row' = [row EXCEPT ![t] = 0]
    /\ UNCHANGED <<round, stock, spare, m_nNextId, judged, winners>>

(* Leaderboard::sort(): row i goes up past the rows with lower scores *)
MovedUp(s, i) ==
    LET top == CHOOSE j \in 1..i : /\ \A k \in j..(i - 1) : s[k].score < s[i].score
                                   /\ j > 1 => ~(s[j - 1].score < s[i].score)
    IN [k \in DOMAIN s |-> CASE k = top            -> s[i]
                             [] k \in (top + 1)..i -> s[k - 1]
                             [] OTHER              -> s[k]]

(* mutant: the last row is not looked at *)
SortedButLast(s) ==
    LET upTo[i \in DOMAIN s] == IF i = 1 THEN s ELSE MovedUp(upTo[i - 1], i)
    IN upTo[IF Len(s) = 1 THEN 1 ELSE Len(s) - 1]

Sorted(s) ==
    LET upTo[i \in DOMAIN s] == IF i = 1 THEN s ELSE MovedUp(upTo[i - 1], i)
    IN upTo[Len(s)]

(* prephare() of eCheckIfGameOver: the master thread is alone.  The game goes
   on when it is over, the report is all that happens. *)
CheckIfGameOver ==
    /\ round = "scoring" /\ judged = Judges
    /\ m_table' = Sorted(m_table)
    /\ winners' = IF Sorted(m_table)[1].score >= TargetScore THEN Sorted(m_table) ELSE <<>>
    /\ round' = "play"
    /\ UNCHANGED <<stock, spare, m_nNextId, row, judged>>

ArbitratorNext ==
    \/ \E p \in Rivals : Collect(p)
    \/ BeginScoring
    \/ \E t \in Judges : TakeRow(t) \/ ScoreRow(t)
    \/ CheckIfGameOver

ArbitratorSpec == ArbitratorInit /\ [][ArbitratorNext]_arbitratorVars

-----------------------------------------------------------------------------
(* When the round is over every player is on the board once, those who have
   collected more above those who have less, and the end of the game is reported exactly
   when somebody has collected the whole goal on ships with shipyards
   (BaseArbitrator::prephare, proceed and ResourceCollecting::score). *)
BoardIsFair ==
    [][CheckIfGameOver =>
        /\ {m_table'[i].login : i \in Rows} = Rivals
        /\ \A i, j \in Rows :
               i < j => \/ stock[m_table'[i].login] >= stock[m_table'[j].login]
                        \/ stock[m_table'[i].login] >= Goal
        /\ winners' # <<>> <=> \E p \in Rivals : stock[p] >= Goal]_arbitratorVars
=============================================================================
