------------------------------ MODULE AuditLog ------------------------------
(***************************************************************************)
(* internal/db/db.go: the table power_events, the retention of Open and    *)
(* the selection of RecentEvents.  Time is counted in ticks, Day ticks to  *)
(* a day; a row keeps the tick of its insert and what was inserted.        *)
(***************************************************************************)
EXTENDS Integers, FiniteSets

CONSTANTS
    Day,     \* ticks of a day
    Year,    \* ticks of a year, a number of whole days
    MaxTime  \* bound: the last tick

ASSUME AuditLogAssumption ==
    /\ Day \in Nat \ {0} /\ Year \in Nat /\ Year % Day = 0
    /\ MaxTime \in Nat

VARIABLES
    now,    \* the clock of the machine, never put back
    table,  \* power_events
    open    \* the store is open
auditVars == <<now, table, open>>

Rows(Events) == [at : 0 .. MaxTime, event : Events]

AuditInit(past) == now = 0 /\ table = past /\ open = FALSE

\* Mutant: the cutoff is bound as a formatted timestamp, compared with <=.
ExpiredInclusive(ts) == ts \div Day <= (now - Year) \div Day

\* timestamp < datetime('now', '-1 year') compares texts: '...T...Z' with
\* '... ...', where T is greater than a blank.  So the dates decide.
Expired(ts) == ts \div Day < (now - Year) \div Day

Open ==
    /\ ~open
    /\ open' = TRUE
    /\ table' = {row \in table : ~Expired(row.at)}
    /\ UNCHANGED now

Close == open' = FALSE /\ UNCHANGED <<now, table>>

LogEvent(event) ==
    /\ open
    /\ table' = table \union {[at |-> now, event |-> event]}
    /\ UNCHANGED <<now, open>>

\* Mutant: DESC is missing.
OldestEvents(limit) ==
    {rows \in SUBSET table :
        /\ Cardinality(rows) = IF Cardinality(table) < limit THEN Cardinality(table) ELSE limit
        /\ \A in \in rows, out \in table \ rows : in.at <= out.at}

\* ORDER BY timestamp DESC LIMIT limit: rows of one tick come in any order, so
\* any choice among them may fall beyond the limit.
RecentEvents(limit) ==
    {rows \in SUBSET table :
        /\ Cardinality(rows) = IF Cardinality(table) < limit THEN Cardinality(table) ELSE limit
        /\ \A in \in rows, out \in table \ rows : in.at >= out.at}

Tick == now < MaxTime /\ now' = now + 1 /\ UNCHANGED <<table, open>>

-----------------------------------------------------------------------------

\* "Retention: delete events older than 1 year": nothing younger is ever lost,
\* in whatever restarts, and Open leaves nothing that is older by a day.
RetentionExact ==
    [][/\ \A row \in table : row \in table' \/ now - row.at > Year
       /\ ~open /\ open' => \A row \in table' : now - row.at < Year + Day]_auditVars
=============================================================================
