---------------------------- MODULE StoreSessions ----------------------------
(***************************************************************************)
(* The two implementations of the session interfaces: package sqlite,      *)
(* which keeps sessions in tables and gives out a MAC of their ids, and    *)
(* the token service of fdotest, which keeps nothing and puts a session's  *)
(* state into its token.  Requests of several clients call the store at    *)
(* the same time, each call of sqlite being several SQL statements; two    *)
(* requests of one client may overlap when it gives one up.  The server    *)
(* may stop and start again between any two statements.                    *)
(*                                                                         *)
(* Bounds: a session id is not drawn twice, secrets drawn by two callers   *)
(* differ; the token service restarts at most MaxRestarts times.           *)
(***************************************************************************)
EXTENDS Integers, Sequences

CONSTANTS
    Callers, Ids,           \* requests at a time; sessions
    Protocols,              \* protocols that start sessions
    Fields,                 \* fields of the tables below that are used
    Values, Zero,
    MaxRestarts

ASSUME StoreSessionsAssumption == Zero \in Values /\ MaxRestarts \in Nat

\* What stands for NULL (-1), for another database (-2) or for an error is neither a
\* session nor a secret nor a value.
ASSUME NamesAssumption ==
    /\ (Callers \cup Ids \cup Values) \cap {-1, -2} = {}
    /\ "ErrNotFound" \notin Values

\* The table and the protocol of each field.
Tables == [
    x509_chain   |-> [table |-> "device_info",          protocol |-> "DI"],
    header       |-> [table |-> "incomplete_vouchers",  protocol |-> "DI"],
    to0_nonce    |-> [table |-> "to0_sessions",         protocol |-> "TO0"],
    to1_nonce    |-> [table |-> "to1_sessions",         protocol |-> "TO1"],
    guid         |-> [table |-> "to2_sessions",         protocol |-> "TO2"],
    rv_info      |-> [table |-> "to2_sessions",         protocol |-> "TO2"],
    prove_device |-> [table |-> "to2_sessions",         protocol |-> "TO2"],
    setup_device |-> [table |-> "to2_sessions",         protocol |-> "TO2"],
    mtu          |-> [table |-> "to2_sessions",         protocol |-> "TO2"],
    devmod       |-> [table |-> "to2_sessions",         protocol |-> "TO2"],
    new_guid     |-> [table |-> "replacement_vouchers", protocol |-> "TO2"],
    hmac         |-> [table |-> "replacement_vouchers", protocol |-> "TO2"],
    key_exchange |-> [table |-> "key_exchanges",        protocol |-> "TO2"]]

ASSUME FieldsAssumption == Fields \subseteq DOMAIN Tables

TableOf(f) == Tables[f].table

\* DI sets these once in a session; sqlite has no room for a second.
Once == {"x509_chain", "header"} \cap Fields

\* The maximum size of service info comes from the device, the rest is never zero.
ValuesOf(f) == IF f = "mtu" THEN Values ELSE Values \ {Zero}

VARIABLES
    impl,                   \* "sqlite" or "token"
    secret,                 \* the first row of secrets; HmacSecret
    sessions,               \* the table sessions
    rows,                   \* of each table, the rows: session -> column -> value
    device_info,            \* rows of device_info, which has no key
    used,                   \* ids drawn so far, with their protocol
    token,                  \* the token a client has, by session
    restarts,
    pc,                     \* the next statement of a caller's call
    call,                   \* its call: [op, s, f, v]
    ctx,                    \* the token in its context
    key,                    \* the secret it read
    answer                  \* the answer to the last call of any

dbVars == <<secret, sessions, rows, device_info>>
callerVars == <<pc, call, ctx, key, answer>>
vars == <<impl, dbVars, used, token, restarts, callerVars>>

NotFound == "ErrNotFound"
Invalid == "ErrInvalidSession"
Null == -1
NoCall == [op |-> ""]

Columns(t) == {f \in Fields : TableOf(f) = t}
UpsertTables == {TableOf(f) : f \in Fields} \ {"device_info"}

\* What a token of a new session holds in the token service.
NewState == [f \in Fields |-> NotFound]
None == [id |-> Null, mac |-> Null, state |-> NewState]

\* A token of another database: the server was set up anew, or the client mixes up
\* servers.
Foreign == [id |-> -2, mac |-> -2, state |-> NewState]

Init ==
    /\ impl \in {"sqlite", "token"}
    /\ secret = IF impl = "sqlite" THEN Null ELSE 0
    /\ sessions = {}
    /\ rows = [t \in UpsertTables |-> [s \in {} |-> Null]]
    /\ device_info = <<>>
    /\ used = [s \in {} |-> ""]
    /\ token = [s \in {} |-> None]
    /\ restarts = 0
    /\ pc = [c \in Callers |-> "idle"]
    /\ call = [c \in Callers |-> NoCall]
    /\ ctx = [c \in Callers |-> None]
    /\ key = [c \in Callers |-> Null]
    /\ answer = ""

With(fn, x, y) == [z \in DOMAIN fn \cup {x} |-> IF z = x THEN y ELSE fn[z]]

------------------------------------------------------------------------------
(* What the store holds of a session.                                        *)

\* The token service holds nothing: a session is what its newest token says.
Current(s) ==
    IF \E c \in Callers : ctx[c].id = s THEN ctx[CHOOSE c \in Callers : ctx[c].id = s]
    ELSE IF s \in DOMAIN token THEN token[s] ELSE None

\* The rows of device_info of a session; the first is the one that is read.
ChainOf(s) == {i \in DOMAIN device_info : device_info[i].session = s}

\* Columns that are NULL and rows that are not there are not found.
Column(s, f) ==
    IF TableOf(f) = "device_info"
    THEN IF ChainOf(s) = {} THEN NotFound
         ELSE device_info[CHOOSE i \in ChainOf(s) : \A j \in ChainOf(s) : i <= j].x509_chain
    ELSE LET t == rows[TableOf(f)] IN
         IF s \in DOMAIN t /\ t[s][f] # Null THEN t[s][f] ELSE NotFound

Live(s) == IF impl = "sqlite" THEN s \in sessions ELSE Current(s).mac = secret
Stored(s, f) == IF impl = "sqlite" THEN Column(s, f) ELSE Current(s).state[f]

------------------------------------------------------------------------------
(* Requests and their calls.                                                 *)

\* A request with a token, which is put into its context.  A client of the token
\* service waits for the answer, since its next request needs the token in it.
Request(c) ==
    /\ pc[c] = "idle"
    /\ \/ \E s \in DOMAIN token :
              /\ impl = "token" => \A d \in Callers : ctx[d].id # s
              /\ ctx' = [ctx EXCEPT ![c] = token[s]]
       \/ impl = "sqlite" /\ ctx' = [ctx EXCEPT ![c] = Foreign]
    /\ pc' = [pc EXCEPT ![c] = "ready"]
    /\ UNCHANGED <<impl, dbVars, used, token, restarts, call, key>>
    /\ answer' = ""

\* The response carries the token, an empty one if the token service made it so.
Respond(c) ==
    /\ pc[c] = "ready"
    /\ token' = IF ctx[c] = Foreign THEN token ELSE With(token, ctx[c].id, ctx[c])
    /\ pc' = [pc EXCEPT ![c] = "idle"]
    /\ ctx' = [ctx EXCEPT ![c] = None]
    /\ UNCHANGED <<impl, dbVars, used, restarts, call, key>>
    /\ answer' = ""

\* DI.AppStart, which starts the session, sets the fields that are set once.
MaySet(s, f) == f \in Once => s \notin DOMAIN token /\ Stored(s, f) = NotFound

\* With a foreign token one call stands for all: they are rejected alike.
CallsOf(c) ==
    LET s == ctx[c].id
        fs == {f \in Fields : s \in Ids /\ Tables[f].protocol = used[s]}
    IN {[op |-> "invalidate", s |-> s]}
       \cup {[op |-> "get", s |-> s, f |-> f] : f \in fs}
       \cup UNION {{[op |-> "set", s |-> s, f |-> f, v |-> v] : v \in ValuesOf(f)} :
                   f \in {g \in fs : MaySet(s, g)}}

NewCalls == {[op |-> "new", protocol |-> p] : p \in Protocols}

Begin(c) ==
    /\ \E k \in IF pc[c] = "ready" THEN CallsOf(c) ELSE NewCalls : call' = [call EXCEPT ![c] = k]
    /\ pc[c] \in {"idle", "ready"}
    /\ pc' = [pc EXCEPT ![c] = IF impl = "sqlite" THEN "store secret" ELSE "statement"]
    /\ UNCHANGED <<impl, dbVars, used, token, restarts, ctx, key>>
    /\ answer' = ""

Returns(c, result) ==
    /\ pc' = [pc EXCEPT ![c] = "ready"]
    /\ call' = [call EXCEPT ![c] = NoCall]
    /\ answer' = result
    /\ key' = [key EXCEPT ![c] = Null]

At(c, implementation, op) == pc[c] = "statement" /\ impl = implementation /\ call[c].op = op

\* A random id, and the token that has it.
Issues(c, mac) ==
    \E s \in Ids \ DOMAIN used :
        /\ used' = With(used, s, call[c].protocol)
        /\ ctx' = [ctx EXCEPT ![c] = [id |-> s, mac |-> mac, state |-> NewState]]
        /\ Returns(c, s)

------------------------------------------------------------------------------
(* Package sqlite.                                                           *)

\* loadOrStoreSecret: a random secret is inserted and the first one read.  (Nothing
\* makes type unique, so that every call adds a row, which is never read.)
StoreSecret(c) ==
    /\ pc[c] = "store secret"
    /\ secret' = IF secret = Null THEN c ELSE secret
    /\ pc' = [pc EXCEPT ![c] = "read secret"]
    /\ UNCHANGED <<impl, sessions, rows, device_info, used, token, restarts, call, ctx, key>>
    /\ answer' = ""

ReadSecret_Own(c) ==                     \* mutant: the secret just drawn is used
    /\ pc[c] = "read secret"
    /\ key' = [key EXCEPT ![c] = c]
    /\ pc' = [pc EXCEPT ![c] = "statement"]
    /\ UNCHANGED <<impl, dbVars, used, token, restarts, call, ctx>>
    /\ answer' = ""

ReadSecret(c) ==
    /\ pc[c] = "read secret"
    /\ key' = [key EXCEPT ![c] = secret]
    /\ pc' = [pc EXCEPT ![c] = "statement"]
    /\ UNCHANGED <<impl, dbVars, used, token, restarts, call, ctx>>
    /\ answer' = ""

NewToken(c) ==
    /\ At(c, "sqlite", "new")
    /\ Issues(c, key[c])
    /\ sessions' = sessions \cup (DOMAIN used' \ DOMAIN used)
    /\ UNCHANGED <<impl, secret, rows, device_info, token, restarts>>

\* sessionID finds out by the MAC whether the token is one of ours; of a foreign one
\* no more is said than that it is rejected.
InvalidSession(c) ==
    /\ \E op \in {"set", "get", "invalidate"} : At(c, "sqlite", op)
    /\ ctx[c].mac # key[c]
    /\ Returns(c, IF ctx[c] = Foreign THEN "rejected"
                  ELSE IF call[c].op = "invalidate" THEN NotFound ELSE Invalid)
    /\ UNCHANGED <<impl, dbVars, used, token, restarts, ctx>>

\* An insert, which updates the row there is, except in the tables of DI.  A session
\* that is gone fails it.
Upsert(s, f, v) ==
    LET t == rows[TableOf(f)]
        row == IF s \in DOMAIN t THEN t[s] ELSE [g \in Columns(TableOf(f)) |-> Null]
    IN rows' = [rows EXCEPT ![TableOf(f)] = With(t, s, [row EXCEPT ![f] = v])]

SetField_NoForeignKeys(c) ==             \* mutant: foreign keys are not enforced
    LET s == call[c].s  f == call[c].f  v == call[c].v IN
    /\ At(c, "sqlite", "set") /\ ctx[c].mac = key[c]
    /\ Returns(c, "ok")
    /\ IF TableOf(f) = "device_info"
       THEN /\ device_info' = Append(device_info, [session |-> s, x509_chain |-> v])
            /\ UNCHANGED rows
       ELSE Upsert(s, f, v) /\ UNCHANGED device_info
    /\ UNCHANGED <<impl, secret, sessions, used, token, restarts, ctx>>

SetField(c) ==
    LET s == call[c].s  f == call[c].f  v == call[c].v IN
    /\ At(c, "sqlite", "set") /\ ctx[c].mac = key[c]
    /\ IF s \notin sessions \/ (f = "header" /\ s \in DOMAIN rows[TableOf(f)])
       THEN Returns(c, "error") /\ UNCHANGED <<rows, device_info>>
       ELSE /\ Returns(c, "ok")
            /\ IF TableOf(f) = "device_info"
               THEN /\ device_info' = Append(device_info, [session |-> s, x509_chain |-> v])
                    /\ UNCHANGED rows
               ELSE Upsert(s, f, v) /\ UNCHANGED device_info
    /\ UNCHANGED <<impl, secret, sessions, used, token, restarts, ctx>>

GetField(c) ==
    /\ At(c, "sqlite", "get") /\ ctx[c].mac = key[c]
    /\ Returns(c, Column(call[c].s, call[c].f))
    /\ UNCHANGED <<impl, dbVars, used, token, restarts, ctx>>

\* Foreign keys cascade to the tables of the session; what DI keeps of devices only
\* loses its session.  A session that is gone is no error.
Cascade(s) ==
    /\ rows' = [t \in UpsertTables |-> [z \in DOMAIN rows[t] \ {s} |-> rows[t][z]]]
    /\ device_info' = [i \in DOMAIN device_info |->
                           IF device_info[i].session = s THEN [device_info[i] EXCEPT !.session = Null]
                                                         ELSE device_info[i]]

InvalidateToken(c) ==
    /\ At(c, "sqlite", "invalidate") /\ ctx[c].mac = key[c]
    /\ sessions' = sessions \ {call[c].s}
    /\ Cascade(call[c].s)
    /\ Returns(c, "ok")
    /\ UNCHANGED <<impl, secret, used, token, restarts, ctx>>

------------------------------------------------------------------------------
(* The token service of fdotest.                                             *)

TokenNew(c) ==
    /\ At(c, "token", "new")
    /\ Issues(c, secret)
    /\ UNCHANGED <<impl, dbVars, token, restarts>>

\* fromToken: the MAC of the state in the token is one of ours.
TokenInvalid(c) ==
    /\ \E op \in {"set", "get"} : At(c, "token", op)
    /\ ctx[c].mac # secret
    /\ Returns(c, Invalid)
    /\ UNCHANGED <<impl, dbVars, used, token, restarts, ctx>>

\* The context gets the token of the new state.  Zero values are not found.
TokenSet(c) ==
    /\ At(c, "token", "set") /\ ctx[c].mac = secret
    /\ ctx' = [ctx EXCEPT ![c].state[call[c].f] = IF call[c].v = Zero THEN NotFound ELSE call[c].v]
    /\ Returns(c, "ok")
    /\ UNCHANGED <<impl, dbVars, used, token, restarts>>

TokenGet(c) ==
    /\ At(c, "token", "get") /\ ctx[c].mac = secret
    /\ Returns(c, ctx[c].state[call[c].f])
    /\ UNCHANGED <<impl, dbVars, used, token, restarts, ctx>>

TokenInvalidate(c) ==
    /\ At(c, "token", "invalidate")
    /\ ctx' = [ctx EXCEPT ![c] = [@ EXCEPT !.mac = Null, !.state = NewState]]
    /\ Returns(c, "ok")
    /\ UNCHANGED <<impl, dbVars, used, token, restarts>>

------------------------------------------------------------------------------

\* The server stops and starts again: calls in progress are gone, the database stays,
\* a new token service has a new secret.
Restart ==
    /\ pc' = [c \in Callers |-> "idle"]
    /\ call' = [c \in Callers |-> NoCall]
    /\ ctx' = [c \in Callers |-> None]
    /\ key' = [c \in Callers |-> Null]
    /\ answer' = ""
    /\ IF impl = "sqlite" THEN UNCHANGED <<secret, restarts>>
       ELSE /\ restarts < MaxRestarts
            /\ restarts' = restarts + 1
            /\ secret' = restarts'
    /\ UNCHANGED <<impl, sessions, rows, device_info, used, token>>

SessionsNext ==
    \/ \E c \in Callers :
           \/ Request(c) \/ Respond(c) \/ Begin(c)
           \/ StoreSecret(c) \/ ReadSecret(c) \/ InvalidSession(c)
           \/ NewToken(c) \/ SetField(c) \/ GetField(c) \/ InvalidateToken(c)
           \/ TokenNew(c) \/ TokenInvalid(c) \/ TokenSet(c) \/ TokenGet(c) \/ TokenInvalidate(c)
    \/ Restart

Spec == Init /\ [][SessionsNext]_vars

------------------------------------------------------------------------------
(* Properties.                                                               *)

\* No row of a session outlives it, whatever calls were in progress when it ended;
\* what is known of a device does.
NoOrphans ==
    /\ \A t \in UpsertTables : DOMAIN rows[t] \subseteq sessions
    /\ \A i \in DOMAIN device_info : device_info[i].session \in sessions \cup {Null}

\* Both implementations are what the services ask for: what is answered is what was
\* set last, a session ends when it is invalidated and not before, and with it all that
\* was set; only the token service loses sessions in a restart.
Status(s) == IF s \notin DOMAIN used THEN "unused" ELSE IF Live(s) THEN "live" ELSE "over"
Store(s) == IF s \in DOMAIN used /\ Live(s) THEN [f \in Fields |-> Stored(s, f)] ELSE NewState

Contract == INSTANCE SessionStore WITH
    volatile <- impl = "token",
    status <- [s \in Ids |-> Status(s)],
    store <- [s \in Ids |-> Store(s)],
    answer <- answer

ContractHolds == Contract!Spec
=============================================================================
