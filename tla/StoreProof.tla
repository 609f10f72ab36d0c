------------------------------ MODULE StoreProof ------------------------------
(***************************************************************************)
(* Proofs about StoreSessions, for any number of callers, sessions, fields *)
(* and values and any number of restarts: no row outlives its session, and *)
(* package sqlite and the token service implement SessionStore.            *)
(***************************************************************************)
EXTENDS StoreSessions, TLAPS

------------------------------------------------------------------------------
(* Invariants.                                                               *)

TokenRecord ==
    [id : Ids \cup {Null, -2}, mac : Callers \cup Nat \cup {Null, -2}, state : [Fields -> Values \cup {NotFound}]]

CallRecord ==
         {NoCall}
    \cup [op : {"new"}, protocol : Protocols]
    \cup [op : {"invalidate"}, s : Ids \cup {-2}]
    \cup [op : {"get"}, s : Ids, f : Fields]
    \cup [op : {"set"}, s : Ids, f : Fields, v : Values]

AtWork == {"store secret", "read secret", "statement"}

\* Every variable has its type.
TypeOK ==
    /\ impl \in {"sqlite", "token"}
    /\ secret \in IF impl = "sqlite" THEN Callers \cup {Null} ELSE Nat
    /\ restarts \in Nat
    /\ sessions \subseteq DOMAIN used /\ DOMAIN used \subseteq Ids
    /\ DOMAIN token \subseteq DOMAIN used /\ \A s \in DOMAIN token : token[s] \in TokenRecord
    /\ pc \in [Callers -> {"idle", "ready"} \cup AtWork]
    /\ call \in [Callers -> CallRecord]
    /\ ctx \in [Callers -> TokenRecord]
    /\ key \in [Callers -> Callers \cup Nat \cup {Null}]

\* So has every table; a session has at most one chain.
TablesOK ==
    /\ rows \in [UpsertTables -> {rows[t] : t \in UpsertTables}]
    /\ \A t \in UpsertTables : rows[t] \in [DOMAIN rows[t] -> [Columns(t) -> Values \cup {Null}]]
    /\ device_info \in Seq([session : Ids \cup {Null}, x509_chain : Values])
    /\ \A i, j \in DOMAIN device_info :
          device_info[i].session = device_info[j].session /\ device_info[i].session # Null => i = j
    /\ "header" \in Fields =>
          \A s \in DOMAIN rows["incomplete_vouchers"] : rows["incomplete_vouchers"][s]["header"] # Null

\* A token given out was made with the secret, in the token service possibly with
\* one of an earlier start or with none.
MacOK(m) ==
    IF impl = "sqlite" THEN m = secret /\ secret \in Callers
    ELSE m \in Nat \cup {Null} /\ m <= restarts /\ secret = restarts

TokensOK ==
    /\ impl = "token" => secret = restarts
    /\ \A s \in DOMAIN token : token[s].id = s /\ MacOK(token[s].mac)

CtxOK(c) ==
    /\ ctx[c].id = Null => ctx[c] = None
    /\ ctx[c].id = -2 => ctx[c] = Foreign /\ impl = "sqlite"
    /\ ctx[c].id \in Ids => ctx[c].id \in DOMAIN used /\ MacOK(ctx[c].mac)

\* A call is for the session of the request's token.
StageOK(c) ==
    /\ pc[c] = "idle" => ctx[c] = None /\ call[c] = NoCall
    /\ pc[c] = "ready" => ctx[c].id # Null /\ call[c] = NoCall
    /\ pc[c] \in AtWork =>
          \/ call[c].op = "new" /\ ctx[c] = None
          \/ call[c].op = "invalidate" /\ ctx[c].id # Null /\ call[c].s = ctx[c].id
          \/ call[c].op \in {"get", "set"} /\ ctx[c].id \in Ids /\ call[c].s = ctx[c].id
    /\ pc[c] \in {"store secret", "read secret"} => impl = "sqlite"
    /\ pc[c] = "read secret" => secret \in Callers
    /\ pc[c] = "statement" /\ impl = "sqlite" => key[c] = secret /\ secret \in Callers

CallersOK == \A c \in Callers : CtxOK(c) /\ StageOK(c)

\* A client of the token service has one request at a time; so has one of sqlite
\* before it has a token.
AloneOK ==
    \A c, d \in Callers :
        ctx[c].id \in Ids /\ ctx[c].id = ctx[d].id /\ (impl = "token" \/ ctx[c].id \notin DOMAIN token) => c = d

\* What is set once is not there yet.
OnceOK ==
    impl = "sqlite" => \A c \in Callers, s \in Ids, f \in Once :
        call[c].op = "set" /\ call[c].s = s /\ call[c].f = f => s \notin DOMAIN token /\ Column(s, f) = NotFound

IndInv == TypeOK /\ TablesOK /\ NoOrphans /\ TokensOK /\ CallersOK /\ AloneOK /\ OnceOK

------------------------------------------------------------------------------
(* Names.                                                                    *)

\* -1 and -2 stand for nothing else.
LEMMA Names ==
    /\ Null \notin Callers \cup Ids \cup Values /\ -2 \notin Callers \cup Ids \cup Values
    /\ NotFound \notin Values /\ Null \notin Nat /\ -2 \notin Nat /\ Null # -2 /\ Null \in Int
BY NamesAssumption DEF Null, NotFound

\* Only one field is in the table of certificate chains, one in that of headers.
LEMMA FieldTables ==
    /\ \A f \in Fields : TableOf(f) = "device_info" <=> f = "x509_chain"
    /\ \A f \in Fields : TableOf(f) = "incomplete_vouchers" <=> f = "header"
    /\ \A f \in Fields : TableOf(f) # "device_info" => TableOf(f) \in UpsertTables
BY FieldsAssumption DEF TableOf, Tables, UpsertTables

\* Where one more session is known.
LEMMA WithFacts ==
    ASSUME NEW fn, NEW x, NEW y
    PROVE  /\ DOMAIN With(fn, x, y) = DOMAIN fn \cup {x}
           /\ With(fn, x, y)[x] = y
           /\ \A z \in DOMAIN fn : z # x => With(fn, x, y)[z] = fn[z]
BY DEF With

\* A new session.
LEMMA NewStateType == NewState \in [Fields -> Values \cup {NotFound}]
BY DEF NewState

\* No token, and one of another database.
LEMMA NoneType ==
    /\ None \in TokenRecord /\ None.id = Null /\ None.mac = Null /\ None.state = NewState
    /\ Foreign \in TokenRecord /\ Foreign.id = -2 /\ Foreign.mac = -2
BY NewStateType DEF None, Foreign, TokenRecord

\* Calls of the different kinds.
LEMMA CallKinds ==
    ASSUME NEW k \in CallRecord
    PROVE  /\ k.op = "new" => k.protocol \in Protocols
           /\ k.op = "invalidate" => k.s \in Ids \cup {-2}
           /\ k.op \in {"get", "set"} => k.s \in Ids /\ k.f \in Fields
           /\ k.op = "set" => k.v \in Values
           /\ k = NoCall <=> k.op = ""
<1>1. \/ k = NoCall
      \/ k \in [op : {"new"}, protocol : Protocols]
      \/ k \in [op : {"invalidate"}, s : Ids \cup {-2}]
      \/ k \in [op : {"get"}, s : Ids, f : Fields]
      \/ k \in [op : {"set"}, s : Ids, f : Fields, v : Values]
    BY DEF CallRecord
<1>2. NoCall.op = ""
    BY DEF NoCall
<1> QED
    BY <1>1, <1>2

------------------------------------------------------------------------------
(* Steps.                                                                    *)

\* A step of caller c.
Step(c) ==
    \/ Request(c) \/ Respond(c) \/ Begin(c)
    \/ StoreSecret(c) \/ ReadSecret(c) \/ InvalidSession(c)
    \/ NewToken(c) \/ SetField(c) \/ GetField(c) \/ InvalidateToken(c)
    \/ TokenNew(c) \/ TokenInvalid(c) \/ TokenSet(c) \/ TokenGet(c) \/ TokenInvalidate(c)

\* What a step of c may change: of the callers, c; of what is shared, a first secret
\* is added, a session, a token.
Effects(c) ==
    /\ impl' = impl /\ restarts' = restarts
    /\ secret' = secret \/ (impl = "sqlite" /\ secret = Null /\ secret' \in Callers)
    /\ DOMAIN used \subseteq DOMAIN used'
    /\ DOMAIN token \subseteq DOMAIN token'
    /\ \A d \in Callers \ {c} : pc'[d] = pc[d] /\ call'[d] = call[d] /\ ctx'[d] = ctx[d] /\ key'[d] = key[d]
    /\ pc' \in [Callers -> {"idle", "ready"} \cup AtWork]
    /\ call' \in [Callers -> CallRecord]
    /\ ctx' \in [Callers -> TokenRecord]
    /\ key' \in [Callers -> Callers \cup Nat \cup {Null}]
    /\ CtxOK(c)' /\ StageOK(c)'

\* The end of a call, but for what it does to the store.
Ends(c) == /\ pc' = [pc EXCEPT ![c] = "ready"]
           /\ call' = [call EXCEPT ![c] = NoCall]
           /\ key' = [key EXCEPT ![c] = Null]

\* A call that changes neither its context nor what is shared may end at any time.
LEMMA EndsEffects ==
    ASSUME IndInv, NEW c \in Callers, Ends(c), ctx' = ctx, UNCHANGED <<impl, secret, used, token, restarts>>,
           call[c].op # "new", pc[c] = "statement"
    PROVE  Effects(c)
<1>0. TypeOK /\ CtxOK(c) /\ StageOK(c)
    BY DEF IndInv, CallersOK
<1>1. ctx[c].id # Null
    BY <1>0, NoneType, Names DEF StageOK, AtWork
<1>2. pc'[c] = "ready" /\ call'[c] = NoCall
    BY <1>0 DEF Ends, TypeOK
<1>3. CtxOK(c)'
    BY <1>0 DEF CtxOK, MacOK
<1>4. StageOK(c)'
    BY <1>1, <1>2 DEF StageOK, AtWork
<1>5. NoCall \in CallRecord
    BY DEF CallRecord
<1> QED
    BY <1>0, <1>3, <1>4, <1>5 DEF Effects, Ends, TypeOK

\* Requests come and go.
LEMMA RequestEffects ==
    ASSUME IndInv, NEW c \in Callers, Request(c)
    PROVE  /\ Effects(c) /\ UNCHANGED <<dbVars, used, token, call>> /\ answer' = ""
           /\ \/ \E s \in DOMAIN token : /\ ctx' = [ctx EXCEPT ![c] = token[s]] /\ ctx[c] = None
                                         /\ impl = "token" => \A d \in Callers : ctx[d].id # s
              \/ impl = "sqlite" /\ ctx' = [ctx EXCEPT ![c] = Foreign]
<1>0. TypeOK /\ TokensOK /\ CtxOK(c) /\ StageOK(c)
    BY DEF IndInv, CallersOK
<1>1. /\ pc[c] = "idle" /\ pc' = [pc EXCEPT ![c] = "ready"] /\ call[c] = NoCall /\ ctx[c] = None
      /\ UNCHANGED <<impl, dbVars, used, token, restarts, call, key>> /\ answer' = ""
    BY <1>0 DEF Request, StageOK
<1>2. ASSUME NEW t \in TokenRecord, ctx' = [ctx EXCEPT ![c] = t], t.id # Null,
             t.id = -2 => t = Foreign /\ impl = "sqlite",
             t.id \in Ids => t.id \in DOMAIN used /\ MacOK(t.mac)
      PROVE  Effects(c)
    <2>1. ctx'[c] = t /\ pc'[c] = "ready" /\ call'[c] = NoCall
        BY <1>0, <1>1, <1>2 DEF TypeOK
    <2>2. CtxOK(c)'
        BY <1>1, <1>2, <2>1 DEF CtxOK, MacOK, dbVars
    <2>3. StageOK(c)'
        BY <1>2, <2>1 DEF StageOK, AtWork
    <2> QED
        BY <1>0, <1>1, <1>2, <2>2, <2>3 DEF Effects, TypeOK, dbVars
<1>3. ASSUME NEW s \in DOMAIN token, ctx' = [ctx EXCEPT ![c] = token[s]] PROVE Effects(c)
    <2>1. token[s] \in TokenRecord /\ token[s].id = s /\ s \in Ids /\ s \in DOMAIN used /\ MacOK(token[s].mac)
        BY <1>0, <1>3 DEF TypeOK, TokensOK
    <2> QED
        BY <1>2, <1>3, <2>1, Names
<1>4. impl = "sqlite" /\ ctx' = [ctx EXCEPT ![c] = Foreign] => Effects(c)
    BY <1>2, NoneType, Names
<1> QED
    BY <1>1, <1>3, <1>4 DEF Request

\* A response leaves the token with its client.
LEMMA RespondEffects ==
    ASSUME IndInv, NEW c \in Callers, Respond(c)
    PROVE  /\ Effects(c) /\ UNCHANGED <<dbVars, used, call>> /\ answer' = ""
           /\ ctx' = [ctx EXCEPT ![c] = None]
           /\ \/ ctx[c] = Foreign /\ token' = token
              \/ /\ ctx[c].id \in Ids /\ ctx[c].id \in DOMAIN used /\ MacOK(ctx[c].mac)
                 /\ token' = With(token, ctx[c].id, ctx[c])
<1>0. TypeOK /\ CtxOK(c) /\ StageOK(c)
    BY DEF IndInv, CallersOK
<1>1. /\ pc[c] = "ready" /\ pc' = [pc EXCEPT ![c] = "idle"] /\ ctx' = [ctx EXCEPT ![c] = None]
      /\ UNCHANGED <<impl, dbVars, used, restarts, call, key>> /\ answer' = ""
      /\ token' = IF ctx[c] = Foreign THEN token ELSE With(token, ctx[c].id, ctx[c])
    BY DEF Respond
<1>2. ctx[c].id # Null /\ call[c] = NoCall
    BY <1>0, <1>1 DEF StageOK
<1>3. ctx[c].id \in Ids \cup {Null, -2}
    BY <1>0 DEF TypeOK, TokenRecord
<1>4. ctx[c] = Foreign \/ (ctx[c].id \in Ids /\ ctx[c].id \in DOMAIN used /\ MacOK(ctx[c].mac) /\ ctx[c] # Foreign)
    BY <1>0, <1>2, <1>3, NoneType, Names DEF CtxOK
<1>5. ctx'[c] = None /\ pc'[c] = "idle" /\ call'[c] = NoCall
    BY <1>0, <1>1, <1>2 DEF TypeOK
<1>6. CtxOK(c)' /\ StageOK(c)'
    BY <1>5, NoneType, Names DEF CtxOK, StageOK, AtWork
<1>7. DOMAIN token \subseteq DOMAIN token'
    <2>1. CASE ctx[c] = Foreign
        BY <1>1, <2>1
    <2>2. CASE ctx[c] # Foreign
        <3>1. token' = With(token, ctx[c].id, ctx[c])
            BY <1>1, <2>2
        <3> QED
            BY <3>1 DEF With
    <2> QED
        BY <2>1, <2>2
<1> QED
    BY <1>0, <1>1, <1>4, <1>6, <1>7, NoneType DEF Effects, TypeOK, dbVars

\* A call begins.
LEMMA BeginEffects ==
    ASSUME IndInv, NEW c \in Callers, Begin(c)
    PROVE  /\ Effects(c) /\ UNCHANGED <<dbVars, used, token, ctx>> /\ answer' = ""
           /\ \A s \in Ids, f \in Once : call'[c].op = "set" /\ call'[c].s = s /\ call'[c].f = f =>
                 s = ctx[c].id /\ s \notin DOMAIN token /\ Stored(s, f) = NotFound
<1>0. TypeOK /\ CtxOK(c) /\ StageOK(c)
    BY DEF IndInv, CallersOK
<1>1. PICK k \in (IF pc[c] = "ready" THEN CallsOf(c) ELSE NewCalls) : call' = [call EXCEPT ![c] = k]
    BY DEF Begin
<1>2. /\ pc[c] \in {"idle", "ready"}
      /\ pc' = [pc EXCEPT ![c] = IF impl = "sqlite" THEN "store secret" ELSE "statement"]
      /\ UNCHANGED <<impl, dbVars, used, token, restarts, ctx, key>> /\ answer' = ""
    BY DEF Begin
<1>3. /\ pc'[c] \in {"store secret", "statement"} /\ (pc'[c] = "store secret" <=> impl = "sqlite")
      /\ call'[c] = k /\ ctx'[c] = ctx[c] /\ impl' = impl
      /\ pc' \in [Callers -> {"idle", "ready"} \cup AtWork]
      /\ \A d \in Callers \ {c} : pc'[d] = pc[d] /\ call'[d] = call[d]
    BY <1>0, <1>1, <1>2 DEF TypeOK, AtWork
<1>4. CtxOK(c)'
    BY <1>0, <1>2 DEF CtxOK, MacOK, dbVars
<1>5. ASSUME k \in CallRecord,
             \/ k.op = "new" /\ ctx[c] = None
             \/ k.op = "invalidate" /\ ctx[c].id # Null /\ k.s = ctx[c].id
             \/ k.op \in {"get", "set"} /\ ctx[c].id \in Ids /\ k.s = ctx[c].id
      PROVE  Effects(c)
    <2>1. \/ call'[c].op = "new" /\ ctx'[c] = None
          \/ call'[c].op = "invalidate" /\ ctx'[c].id # Null /\ call'[c].s = ctx'[c].id
          \/ call'[c].op \in {"get", "set"} /\ ctx'[c].id \in Ids /\ call'[c].s = ctx'[c].id
        BY <1>3, <1>5
    <2>2. /\ pc'[c] # "idle" /\ pc'[c] # "ready" /\ pc'[c] # "read secret"
          /\ pc'[c] = "store secret" => impl' = "sqlite"
          /\ ~(pc'[c] = "statement" /\ impl' = "sqlite")
        BY <1>3
    <2>3. StageOK(c)'
        BY <2>1, <2>2 DEF StageOK
    <2>4. call' \in [Callers -> CallRecord]
        BY <1>0, <1>1, <1>5 DEF TypeOK
    <2>5. /\ \A d \in Callers \ {c} : ctx'[d] = ctx[d] /\ key'[d] = key[d]
          /\ ctx' \in [Callers -> TokenRecord] /\ key' \in [Callers -> Callers \cup Nat \cup {Null}]
          /\ secret' = secret /\ used' = used /\ token' = token /\ restarts' = restarts
        BY <1>0, <1>2 DEF TypeOK, dbVars
    <2> QED
        BY <1>3, <1>4, <2>3, <2>4, <2>5 DEF Effects
<1>6. CASE pc[c] = "idle"
    <2>1. ctx[c] = None /\ k \in [op : {"new"}, protocol : Protocols]
        BY <1>0, <1>1, <1>6 DEF StageOK, NewCalls
    <2>2. k \in CallRecord /\ k.op = "new"
        BY <2>1 DEF CallRecord
    <2> QED
        BY <1>2, <1>3, <1>5, <2>1, <2>2
<1>7. CASE pc[c] = "ready"
    <2>1. ctx[c].id \in Ids \cup {Null, -2} /\ ctx[c].id # Null
        BY <1>0, <1>7 DEF TypeOK, TokenRecord, StageOK
    <2>2. \/ k = [op |-> "invalidate", s |-> ctx[c].id]
          \/ \E f \in Fields : k = [op |-> "get", s |-> ctx[c].id, f |-> f] /\ ctx[c].id \in Ids
          \/ \E f \in Fields : \E v \in ValuesOf(f) :
                k = [op |-> "set", s |-> ctx[c].id, f |-> f, v |-> v] /\ ctx[c].id \in Ids /\ MaySet(ctx[c].id, f)
        BY <1>1, <1>7 DEF CallsOf
    <2>3. CASE k = [op |-> "invalidate", s |-> ctx[c].id]
        <3>1. k \in CallRecord /\ k.op = "invalidate" /\ k.s = ctx[c].id
            BY <2>1, <2>3 DEF CallRecord
        <3> QED
            BY <1>2, <1>3, <1>5, <2>1, <3>1
    <2>4. ASSUME NEW f \in Fields, k = [op |-> "get", s |-> ctx[c].id, f |-> f], ctx[c].id \in Ids
          PROVE  Effects(c) /\ k.op = "get"
        <3>1. k \in CallRecord /\ k.op = "get" /\ k.s = ctx[c].id
            BY <2>1, <2>4 DEF CallRecord
        <3> QED
            BY <1>5, <2>4, <3>1
    <2>5. ASSUME NEW f \in Fields, NEW v \in ValuesOf(f), ctx[c].id \in Ids,
                 k = [op |-> "set", s |-> ctx[c].id, f |-> f, v |-> v]
          PROVE  Effects(c) /\ k.s = ctx[c].id /\ k.f = f
        <3>1. k \in CallRecord /\ k.op = "set" /\ k.s = ctx[c].id /\ k.f = f
            BY <2>1, <2>5 DEF CallRecord, ValuesOf
        <3> QED
            BY <1>5, <2>5, <3>1
    <2>6. Effects(c)
        BY <2>2, <2>3, <1>2, <2>4, <2>5, <1>5
    <2>7. k.op = "set" /\ k.f \in Once => k.s = ctx[c].id /\ k.s \notin DOMAIN token /\ Stored(k.s, k.f) = NotFound
        <3>1. CASE k = [op |-> "invalidate", s |-> ctx[c].id]
            BY <3>1
        <3>2. CASE \E f \in Fields : k = [op |-> "get", s |-> ctx[c].id, f |-> f] /\ ctx[c].id \in Ids
            BY <3>2
        <3>3. ASSUME NEW f \in Fields, NEW v \in ValuesOf(f), ctx[c].id \in Ids, MaySet(ctx[c].id, f),
                     k = [op |-> "set", s |-> ctx[c].id, f |-> f, v |-> v]
              PROVE  k.f \in Once => k.s = ctx[c].id /\ k.s \notin DOMAIN token /\ Stored(k.s, k.f) = NotFound
            <4>1. k.s = ctx[c].id /\ k.f = f
                BY <2>5, <3>3
            <4> QED
                BY <3>3, <4>1 DEF MaySet
        <3> QED
            BY <2>2, <3>1, <3>2, <3>3
    <2> QED
        BY <1>2, <1>3, <2>6, <2>7
<1> QED
    BY <1>2, <1>6, <1>7

------------------------------------------------------------------------------
(* Calls of package sqlite.                                                  *)

\* What no call but those that write to the database or issue a token changes.
Quiet == UNCHANGED <<sessions, rows, device_info, used, token>>

\* The secret is drawn once.
LEMMA StoreSecretEffects ==
    ASSUME IndInv, NEW c \in Callers, StoreSecret(c)
    PROVE  Effects(c) /\ Quiet /\ ctx' = ctx /\ call' = call /\ answer' = "" /\ impl = "sqlite"
<1>0. TypeOK /\ CtxOK(c) /\ StageOK(c)
    BY DEF IndInv, CallersOK
<1>1. /\ pc[c] = "store secret" /\ pc' = [pc EXCEPT ![c] = "read secret"] /\ impl = "sqlite"
      /\ secret' = IF secret = Null THEN c ELSE secret
      /\ UNCHANGED <<impl, sessions, rows, device_info, used, token, restarts, call, ctx, key>> /\ answer' = ""
    BY <1>0 DEF StoreSecret, StageOK
<1>2. /\ secret \in Callers \cup {Null} /\ secret' \in Callers /\ (secret \in Callers => secret' = secret)
      /\ pc'[c] = "read secret"
    BY <1>0, <1>1, Names DEF TypeOK
<1>3. CtxOK(c)'
    BY <1>0, <1>1, <1>2 DEF CtxOK, MacOK
<1>4. StageOK(c)'
    <2>1. \/ call[c].op = "new" /\ ctx[c] = None
          \/ call[c].op = "invalidate" /\ ctx[c].id # Null /\ call[c].s = ctx[c].id
          \/ call[c].op \in {"get", "set"} /\ ctx[c].id \in Ids /\ call[c].s = ctx[c].id
        BY <1>0, <1>1 DEF StageOK, AtWork
    <2> QED
        BY <1>1, <1>2, <2>1 DEF StageOK
<1> QED
    BY <1>0, <1>1, <1>2, <1>3, <1>4 DEF Effects, Quiet, TypeOK, AtWork

\* It is there when it is read.
LEMMA ReadSecretEffects ==
    ASSUME IndInv, NEW c \in Callers, ReadSecret(c)
    PROVE  Effects(c) /\ Quiet /\ ctx' = ctx /\ call' = call /\ answer' = ""
<1>0. TypeOK /\ CtxOK(c) /\ StageOK(c)
    BY DEF IndInv, CallersOK
<1>1. /\ pc[c] = "read secret" /\ pc' = [pc EXCEPT ![c] = "statement"] /\ impl = "sqlite"
      /\ key' = [key EXCEPT ![c] = secret] /\ secret \in Callers
      /\ UNCHANGED <<impl, dbVars, used, token, restarts, call, ctx>> /\ answer' = ""
    BY <1>0 DEF ReadSecret, StageOK
<1>2. pc'[c] = "statement" /\ key'[c] = secret
    BY <1>0, <1>1 DEF TypeOK
<1>3. CtxOK(c)'
    BY <1>0, <1>1 DEF CtxOK, MacOK, dbVars
<1>4. StageOK(c)'
    <2>1. \/ call[c].op = "new" /\ ctx[c] = None
          \/ call[c].op = "invalidate" /\ ctx[c].id # Null /\ call[c].s = ctx[c].id
          \/ call[c].op \in {"get", "set"} /\ ctx[c].id \in Ids /\ call[c].s = ctx[c].id
        BY <1>0, <1>1 DEF StageOK, AtWork
    <2> QED
        BY <1>1, <1>2, <2>1 DEF StageOK, dbVars
<1> QED
    BY <1>0, <1>1, <1>2, <1>3, <1>4 DEF Effects, Quiet, TypeOK, AtWork, dbVars

\* At its last statement, a call knows the secret, and what session it is for.
LEMMA AtStatement ==
    ASSUME IndInv, NEW c \in Callers, pc[c] = "statement"
    PROVE  /\ call[c] \in CallRecord /\ ctx[c] \in TokenRecord
           /\ call[c].op = "new" => ctx[c] = None /\ call[c].protocol \in Protocols
           /\ impl = "sqlite" => key[c] = secret /\ secret \in Callers
           /\ call[c].op \in {"get", "set"} =>
                 /\ ctx[c].id \in Ids /\ call[c].s = ctx[c].id /\ call[c].f \in Fields
                 /\ call[c].s \in DOMAIN used /\ MacOK(ctx[c].mac)
           /\ call[c].op = "set" => call[c].v \in Values
           /\ call[c].op = "invalidate" =>
                 /\ call[c].s = ctx[c].id
                 /\ \/ ctx[c] = Foreign /\ impl = "sqlite"
                    \/ ctx[c].id \in Ids /\ call[c].s \in DOMAIN used /\ MacOK(ctx[c].mac)
<1>0. TypeOK /\ CtxOK(c) /\ StageOK(c)
    BY DEF IndInv, CallersOK
<1>1. call[c] \in CallRecord /\ ctx[c] \in TokenRecord /\ ctx[c].id \in Ids \cup {Null, -2}
    BY <1>0 DEF TypeOK, TokenRecord
<1>2. \/ call[c].op = "new" /\ ctx[c] = None
      \/ call[c].op = "invalidate" /\ ctx[c].id # Null /\ call[c].s = ctx[c].id
      \/ call[c].op \in {"get", "set"} /\ ctx[c].id \in Ids /\ call[c].s = ctx[c].id
    BY <1>0 DEF StageOK, AtWork
<1>3. impl = "sqlite" => key[c] = secret /\ secret \in Callers
    BY <1>0 DEF StageOK
<1>4. /\ ctx[c].id \in Ids => ctx[c].id \in DOMAIN used /\ MacOK(ctx[c].mac)
      /\ ctx[c].id = -2 => ctx[c] = Foreign /\ impl = "sqlite"
    BY <1>0 DEF CtxOK
<1>5. /\ call[c].op = "new" => call[c].protocol \in Protocols
      /\ call[c].op \in {"get", "set"} => call[c].f \in Fields
      /\ call[c].op = "set" => call[c].v \in Values
    BY <1>1, CallKinds
<1> QED
    BY <1>1, <1>2, <1>3, <1>4, <1>5

\* A session is given out once.
Fresh(c) ==
    \E s \in Ids \ DOMAIN used :
        /\ DOMAIN used' = DOMAIN used \cup {s}
        /\ ctx' = [ctx EXCEPT ![c] = [id |-> s, mac |-> secret, state |-> NewState]]
        /\ answer' = s

\* Issuing a token, with the secret the store has, gives out a new session.
LEMMA IssueEffects ==
    ASSUME IndInv, NEW c \in Callers, pc[c] = "statement", call[c].op = "new",
           Issues(c, secret), UNCHANGED <<impl, secret, token, restarts>>
    PROVE  Effects(c) /\ Fresh(c) /\ ctx[c] = None /\ call'[c] = NoCall
<1>0. TypeOK /\ TokensOK /\ ctx[c] = None /\ (impl = "sqlite" => secret \in Callers)
    BY AtStatement DEF IndInv
<1>1. PICK s \in Ids \ DOMAIN used :
          /\ used' = With(used, s, call[c].protocol)
          /\ ctx' = [ctx EXCEPT ![c] = [id |-> s, mac |-> secret, state |-> NewState]]
          /\ Returns(c, s)
    BY DEF Issues
<1> DEFINE t == [id |-> s, mac |-> secret, state |-> NewState]
<1>2. t \in TokenRecord /\ t.id = s /\ t.mac = secret
    <2>1. secret \in Callers \cup Nat
        BY <1>0 DEF TypeOK
    <2> QED
        BY <1>1, <2>1, NewStateType DEF TokenRecord
<1> HIDE DEF t
<1>3. /\ ctx' = [ctx EXCEPT ![c] = t] /\ pc' = [pc EXCEPT ![c] = "ready"] /\ call' = [call EXCEPT ![c] = NoCall]
      /\ key' = [key EXCEPT ![c] = Null] /\ answer' = s
    BY <1>1 DEF Returns, t
<1>4. ctx'[c] = t /\ pc'[c] = "ready" /\ call'[c] = NoCall
    BY <1>0, <1>3 DEF TypeOK
<1>5. DOMAIN used' = DOMAIN used \cup {s}
    BY <1>1 DEF With
<1>6. MacOK(secret)'
    BY <1>0 DEF MacOK, TypeOK, TokensOK
<1>7. CtxOK(c)'
    <2>1. ctx'[c].id = s /\ ctx'[c].mac = secret' /\ s \in DOMAIN used' /\ s # Null /\ s # -2
        BY <1>1, <1>2, <1>4, <1>5, Names
    <2> QED
        BY <1>6, <2>1 DEF CtxOK
<1>8. StageOK(c)'
    BY <1>1, <1>2, <1>4, Names DEF StageOK, AtWork
<1>9. NoCall \in CallRecord
    BY DEF CallRecord
<1> QED
    BY <1>0, <1>1, <1>2, <1>3, <1>4, <1>5, <1>7, <1>8, <1>9 DEF Effects, Fresh, TypeOK, t

\* What the other calls do to the caller.
LEMMA NewTokenEffects ==
    ASSUME IndInv, NEW c \in Callers, NewToken(c)
    PROVE  /\ Effects(c) /\ Fresh(c) /\ ctx[c] = None /\ call'[c] = NoCall /\ impl = "sqlite"
           /\ sessions' = sessions \cup (DOMAIN used' \ DOMAIN used) /\ UNCHANGED <<secret, rows, device_info, token>>
<1>1. /\ pc[c] = "statement" /\ impl = "sqlite" /\ call[c].op = "new" /\ Issues(c, key[c])
      /\ UNCHANGED <<impl, secret, rows, device_info, token, restarts>>
      /\ sessions' = sessions \cup (DOMAIN used' \ DOMAIN used)
    BY DEF NewToken, At
<1>2. key[c] = secret
    BY <1>1, AtStatement
<1> QED
    BY <1>1, <1>2, IssueEffects

\* Only a token of another server fails the check of its MAC, and nothing is written.
LEMMA InvalidSessionEffects ==
    ASSUME IndInv, NEW c \in Callers, InvalidSession(c)
    PROVE  Effects(c) /\ Quiet /\ ctx' = ctx /\ call'[c] = NoCall /\ impl = "sqlite" /\ secret' = secret
           /\ answer' = "rejected"
<1>1. /\ pc[c] = "statement" /\ impl = "sqlite" /\ call[c].op \in {"set", "get", "invalidate"} /\ ctx[c].mac # key[c]
      /\ UNCHANGED <<impl, dbVars, used, token, restarts, ctx>>
      /\ Returns(c, IF ctx[c] = Foreign THEN "rejected" ELSE IF call[c].op = "invalidate" THEN NotFound ELSE Invalid)
    BY DEF InvalidSession, At
<1>2. ctx[c] = Foreign
    BY <1>1, AtStatement DEF MacOK
<1>3. Ends(c) /\ answer' = "rejected"
    BY <1>1, <1>2 DEF Returns, Ends
<1>4. call \in [Callers -> CallRecord]
    BY DEF IndInv, TypeOK
<1>5. call'[c] = NoCall
    BY <1>3, <1>4 DEF Ends
<1> QED
    BY <1>1, <1>3, <1>5, EndsEffects DEF Quiet, dbVars

\* A getter changes nothing and answers with the column of the caller's session.
LEMMA GetFieldEffects ==
    ASSUME IndInv, NEW c \in Callers, GetField(c)
    PROVE  /\ Effects(c) /\ Quiet /\ ctx' = ctx /\ call'[c] = NoCall /\ impl = "sqlite" /\ secret' = secret
           /\ call[c].s \in Ids /\ call[c].s \in DOMAIN used /\ call[c].f \in Fields
           /\ answer' = Column(call[c].s, call[c].f)
<1>1. /\ pc[c] = "statement" /\ impl = "sqlite" /\ call[c].op = "get"
      /\ UNCHANGED <<impl, dbVars, used, token, restarts, ctx>>
      /\ Ends(c) /\ answer' = Column(call[c].s, call[c].f)
    BY DEF GetField, At, Returns, Ends
<1>2. call[c].s \in Ids /\ call[c].s \in DOMAIN used /\ call[c].f \in Fields
    BY <1>1, AtStatement
<1>4. call \in [Callers -> CallRecord]
    BY DEF IndInv, TypeOK
<1>5. call'[c] = NoCall
    BY <1>1, <1>4 DEF Ends
<1> QED
    BY <1>1, <1>2, <1>5, EndsEffects DEF Quiet, dbVars

\* A setter writes one column of a live session, and fails on a dead one and on a second
\* header.
LEMMA SetFieldEffects ==
    ASSUME IndInv, NEW c \in Callers, SetField(c)
    PROVE  /\ Effects(c) /\ ctx' = ctx /\ call'[c] = NoCall /\ impl = "sqlite" /\ UNCHANGED <<secret, sessions, used, token>>
           /\ ctx[c].id = call[c].s /\ call[c].op = "set"
           /\ call[c].s \in Ids /\ call[c].s \in DOMAIN used /\ call[c].f \in Fields /\ call[c].v \in Values
           /\ IF call[c].s \notin sessions \/ (call[c].f = "header" /\ call[c].s \in DOMAIN rows[TableOf(call[c].f)])
              THEN answer' = "error" /\ UNCHANGED <<rows, device_info>>
              ELSE /\ answer' = "ok"
                   /\ IF TableOf(call[c].f) = "device_info"
                      THEN /\ device_info' = Append(device_info, [session |-> call[c].s, x509_chain |-> call[c].v])
                           /\ UNCHANGED rows
                      ELSE Upsert(call[c].s, call[c].f, call[c].v) /\ UNCHANGED device_info
<1>1. /\ pc[c] = "statement" /\ impl = "sqlite" /\ call[c].op = "set"
      /\ UNCHANGED <<impl, secret, sessions, used, token, restarts, ctx>>
    BY DEF SetField, At
<1>2. Ends(c)
    BY DEF SetField, Returns, Ends
<1>3. /\ ctx[c].id = call[c].s /\ call[c].s \in Ids /\ call[c].s \in DOMAIN used
      /\ call[c].f \in Fields /\ call[c].v \in Values
    BY <1>1, AtStatement
<1>4. call \in [Callers -> CallRecord]
    BY DEF IndInv, TypeOK
<1>5. call'[c] = NoCall
    BY <1>2, <1>4 DEF Ends
<1>6. Effects(c)
    BY <1>1, <1>2, EndsEffects
<1> QED
    BY <1>1, <1>3, <1>5, <1>6 DEF SetField, Returns

\* The DELETE takes one session, and the rows the foreign keys take with it.
LEMMA InvalidateTokenEffects ==
    ASSUME IndInv, NEW c \in Callers, InvalidateToken(c)
    PROVE  /\ Effects(c) /\ ctx' = ctx /\ call'[c] = NoCall /\ impl = "sqlite" /\ UNCHANGED <<secret, used, token>>
           /\ call[c].s \in Ids /\ call[c].s \in DOMAIN used /\ answer' = "ok"
           /\ sessions' = sessions \ {call[c].s} /\ Cascade(call[c].s)
<1>1. /\ pc[c] = "statement" /\ impl = "sqlite" /\ call[c].op = "invalidate" /\ ctx[c].mac = key[c]
      /\ UNCHANGED <<impl, secret, used, token, restarts, ctx>> /\ answer' = "ok" /\ Ends(c)
      /\ sessions' = sessions \ {call[c].s} /\ Cascade(call[c].s)
    BY DEF InvalidateToken, At, Returns, Ends
<1>2. ctx[c] # Foreign
    BY <1>1, AtStatement, NoneType, Names
<1>3. call[c].s \in Ids /\ call[c].s \in DOMAIN used
    BY <1>1, <1>2, AtStatement
<1>4. call \in [Callers -> CallRecord]
    BY DEF IndInv, TypeOK
<1>5. call'[c] = NoCall
    BY <1>1, <1>4 DEF Ends
<1> QED
    BY <1>1, <1>3, <1>5, EndsEffects

------------------------------------------------------------------------------
(* Calls of the token service.                                               *)

\* A call may leave another token of its session in its context.
LEMMA RetokenEffects ==
    ASSUME IndInv, NEW c \in Callers, Ends(c), NEW t \in TokenRecord, ctx' = [ctx EXCEPT ![c] = t],
           t.id = ctx[c].id, ctx[c].id \in Ids, MacOK(t.mac), UNCHANGED <<impl, secret, used, token, restarts>>
    PROVE  Effects(c) /\ ctx'[c] = t /\ call'[c] = NoCall
<1>0. TypeOK /\ CtxOK(c)
    BY DEF IndInv, CallersOK
<1>1. ctx'[c] = t /\ pc'[c] = "ready" /\ call'[c] = NoCall
    BY <1>0 DEF Ends, TypeOK
<1>2. CtxOK(c)'
    <2>1. ctx[c].id \in DOMAIN used /\ ctx[c].id # Null /\ ctx[c].id # -2
        BY <1>0, Names DEF CtxOK
    <2> QED
        BY <1>1, <2>1 DEF CtxOK, MacOK
<1>3. StageOK(c)'
    BY <1>1, Names DEF StageOK, AtWork
<1>4. NoCall \in CallRecord
    BY DEF CallRecord
<1> QED
    BY <1>0, <1>1, <1>2, <1>3, <1>4 DEF Effects, Ends, TypeOK

\* A token that is not of this start is answered alike by all calls.
LEMMA TokenInvalidEffects ==
    ASSUME IndInv, NEW c \in Callers, TokenInvalid(c)
    PROVE  /\ Effects(c) /\ Quiet /\ ctx' = ctx /\ call'[c] = NoCall /\ impl = "token" /\ secret' = secret
           /\ ctx[c].id \in Ids /\ ctx[c].id \in DOMAIN used /\ ctx[c].mac # secret
           /\ call[c].op \in {"set", "get"} /\ call[c].f \in Fields /\ answer' = Invalid
<1>1. /\ pc[c] = "statement" /\ impl = "token" /\ call[c].op \in {"set", "get"} /\ ctx[c].mac # secret
      /\ UNCHANGED <<impl, dbVars, used, token, restarts, ctx>>
      /\ Ends(c) /\ answer' = Invalid
    BY DEF TokenInvalid, At, Returns, Ends
<1>2. ctx[c].id \in Ids /\ ctx[c].id \in DOMAIN used /\ call[c].f \in Fields
    BY <1>1, AtStatement
<1>3. call \in [Callers -> CallRecord]
    BY DEF IndInv, TypeOK
<1>4. call'[c] = NoCall
    BY <1>1, <1>3 DEF Ends
<1> QED
    BY <1>1, <1>2, <1>4, EndsEffects DEF Quiet, dbVars

\* A value is read from the token.
LEMMA TokenGetEffects ==
    ASSUME IndInv, NEW c \in Callers, TokenGet(c)
    PROVE  /\ Effects(c) /\ Quiet /\ ctx' = ctx /\ call'[c] = NoCall /\ impl = "token" /\ secret' = secret
           /\ ctx[c].id \in Ids /\ ctx[c].id \in DOMAIN used /\ ctx[c].mac = secret
           /\ call[c].f \in Fields /\ answer' = ctx[c].state[call[c].f]
<1>1. /\ pc[c] = "statement" /\ impl = "token" /\ call[c].op = "get" /\ ctx[c].mac = secret
      /\ UNCHANGED <<impl, dbVars, used, token, restarts, ctx>>
      /\ Ends(c) /\ answer' = ctx[c].state[call[c].f]
    BY DEF TokenGet, At, Returns, Ends
<1>2. ctx[c].id \in Ids /\ ctx[c].id \in DOMAIN used /\ call[c].f \in Fields
    BY <1>1, AtStatement
<1>3. call \in [Callers -> CallRecord]
    BY DEF IndInv, TypeOK
<1>4. call'[c] = NoCall
    BY <1>1, <1>3 DEF Ends
<1> QED
    BY <1>1, <1>2, <1>4, EndsEffects DEF Quiet, dbVars

\* A value is put into the token.
LEMMA TokenSetEffects ==
    ASSUME IndInv, NEW c \in Callers, TokenSet(c)
    PROVE  /\ Effects(c) /\ Quiet /\ call'[c] = NoCall /\ impl = "token" /\ secret' = secret
           /\ ctx[c].id \in Ids /\ ctx[c].id \in DOMAIN used /\ ctx[c].mac = secret
           /\ call[c].f \in Fields /\ call[c].v \in Values /\ answer' = "ok"
           /\ ctx'[c].id = ctx[c].id /\ ctx'[c].mac = secret
           /\ ctx'[c].state = [ctx[c].state EXCEPT ![call[c].f] = IF call[c].v = Zero THEN NotFound ELSE call[c].v]
<1> DEFINE w == IF call[c].v = Zero THEN NotFound ELSE call[c].v
           t == [ctx[c] EXCEPT !.state = [ctx[c].state EXCEPT ![call[c].f] = w]]
<1>1. /\ pc[c] = "statement" /\ impl = "token" /\ call[c].op = "set" /\ ctx[c].mac = secret
      /\ UNCHANGED <<impl, dbVars, used, token, restarts>> /\ Ends(c) /\ answer' = "ok"
    BY DEF TokenSet, At, Returns, Ends
<1>2. /\ ctx[c].id \in Ids /\ ctx[c].id \in DOMAIN used /\ call[c].f \in Fields /\ call[c].v \in Values
      /\ ctx[c] \in TokenRecord /\ MacOK(ctx[c].mac)
    BY <1>1, AtStatement
<1>3. call \in [Callers -> CallRecord] /\ ctx \in [Callers -> TokenRecord]
    BY DEF IndInv, TypeOK
<1>4. ctx' = [ctx EXCEPT ![c] = t]
    BY <1>3 DEF TokenSet, TokenRecord
<1>5. t \in TokenRecord /\ t.id = ctx[c].id /\ t.mac = ctx[c].mac /\ t.state = [ctx[c].state EXCEPT ![call[c].f] = w]
    BY <1>2 DEF TokenRecord
<1> HIDE DEF t
<1>6. Effects(c) /\ ctx'[c] = t /\ call'[c] = NoCall
    BY <1>1, <1>2, <1>4, <1>5, RetokenEffects DEF dbVars
<1> QED
    BY <1>1, <1>2, <1>5, <1>6 DEF Quiet, dbVars

\* The token left is empty.
LEMMA TokenInvalidateEffects ==
    ASSUME IndInv, NEW c \in Callers, TokenInvalidate(c)
    PROVE  /\ Effects(c) /\ Quiet /\ call'[c] = NoCall /\ impl = "token" /\ secret' = secret
           /\ ctx[c].id \in Ids /\ ctx[c].id \in DOMAIN used /\ answer' = "ok"
           /\ ctx'[c].id = ctx[c].id /\ ctx'[c].mac = Null /\ ctx'[c].state = NewState
<1> DEFINE t == [ctx[c] EXCEPT !.mac = Null, !.state = NewState]
<1>1. /\ pc[c] = "statement" /\ impl = "token" /\ call[c].op = "invalidate"
      /\ UNCHANGED <<impl, dbVars, used, token, restarts>> /\ Ends(c) /\ answer' = "ok"
    BY DEF TokenInvalidate, At, Returns, Ends
<1>2. ctx[c].id \in Ids /\ ctx[c].id \in DOMAIN used /\ ctx[c] \in TokenRecord
    BY <1>1, AtStatement
<1>3. /\ call \in [Callers -> CallRecord] /\ ctx \in [Callers -> TokenRecord] /\ restarts \in Nat
      /\ secret = restarts
    BY <1>1 DEF IndInv, TypeOK, TokensOK
<1>4. ctx' = [ctx EXCEPT ![c] = t]
    BY <1>3 DEF TokenInvalidate
<1>5. t \in TokenRecord /\ t.id = ctx[c].id /\ t.mac = Null /\ t.state = NewState
    BY <1>2, NewStateType DEF TokenRecord
<1>6. MacOK(t.mac)
    BY <1>1, <1>3, <1>5 DEF MacOK, Null
<1> HIDE DEF t
<1>7. Effects(c) /\ ctx'[c] = t /\ call'[c] = NoCall
    BY <1>1, <1>2, <1>4, <1>5, <1>6, RetokenEffects DEF dbVars
<1> QED
    BY <1>1, <1>2, <1>5, <1>7 DEF Quiet, dbVars

\* A new session's token holds nothing yet.
LEMMA TokenNewEffects ==
    ASSUME IndInv, NEW c \in Callers, TokenNew(c)
    PROVE  /\ Effects(c) /\ Fresh(c) /\ ctx[c] = None /\ call'[c] = NoCall /\ impl = "token"
           /\ UNCHANGED <<dbVars, token>>
<1>1. /\ pc[c] = "statement" /\ impl = "token" /\ call[c].op = "new" /\ Issues(c, secret)
      /\ UNCHANGED <<impl, dbVars, token, restarts>>
    BY DEF TokenNew, At
<1> QED
    BY <1>1, IssueEffects DEF dbVars

------------------------------------------------------------------------------
(* Tables.                                                                   *)

ChainRow == [session : Ids \cup {Null}, x509_chain : Values]

\* A session has one chain or none.
LEMMA ChainColumn ==
    ASSUME TablesOK, NEW s \in Ids, NEW f \in Fields, TableOf(f) = "device_info"
    PROVE  \/ ChainOf(s) = {} /\ Column(s, f) = NotFound
           \/ \E i \in DOMAIN device_info :
                 /\ ChainOf(s) = {i} /\ (CHOOSE k \in ChainOf(s) : \A j \in ChainOf(s) : k <= j) = i
                 /\ Column(s, f) = device_info[i].x509_chain /\ device_info[i].x509_chain \in Values
<1>1. CASE ChainOf(s) = {}
    BY <1>1 DEF Column
<1>2. CASE ChainOf(s) # {}
    <2>1. PICK i \in DOMAIN device_info : i \in ChainOf(s)
        BY <1>2 DEF ChainOf
    <2>0. device_info \in Seq(ChainRow)
        BY DEF TablesOK, ChainRow
    <2>2. i \in Nat /\ s # Null /\ device_info[i] \in ChainRow
        BY <2>0, <2>1, Names
    <2>3. ChainOf(s) = {i}
        BY <2>1, <2>2 DEF TablesOK, ChainOf
    <2>4. (CHOOSE k \in ChainOf(s) : \A j \in ChainOf(s) : k <= j) = i
        BY <2>2, <2>3
    <2>5. device_info[i].x509_chain \in Values
        BY <2>2 DEF ChainRow
    <2>6. Column(s, f) = device_info[i].x509_chain
        BY <1>2, <2>4 DEF Column
    <2> QED
        BY <2>3, <2>4, <2>5, <2>6
<1> QED
    BY <1>1, <1>2

\* A first chain is appended: its session has it, the others keep theirs.
LEMMA AppendColumns ==
    ASSUME TablesOK, NEW s \in Ids, ChainOf(s) = {}, NEW v \in Values, UNCHANGED rows,
           device_info' = Append(device_info, [session |-> s, x509_chain |-> v])
    PROVE  /\ TablesOK'
           /\ \A i \in DOMAIN device_info' : device_info'[i].session = s \/ \E j \in DOMAIN device_info : device_info'[i].session = device_info[j].session
           /\ \A z \in Ids : \A f \in Fields : z # s \/ TableOf(f) # "device_info" => Column(z, f)' = Column(z, f)
           /\ \A f \in Fields : TableOf(f) = "device_info" => Column(s, f)' = v
<1> DEFINE r == [session |-> s, x509_chain |-> v]
           n == Len(device_info)
<1>1. device_info \in Seq(ChainRow) /\ r \in ChainRow /\ r.session = s /\ r.x509_chain = v
    BY DEF TablesOK, ChainRow
<1> HIDE DEF r, ChainRow
<1>2. device_info' = Append(device_info, r)
    BY DEF r
<1>3. /\ n \in Nat /\ DOMAIN device_info = 1 .. n /\ DOMAIN device_info' = 1 .. n + 1 /\ device_info' \in Seq(ChainRow)
      /\ \A i \in 1 .. n : device_info'[i] = device_info[i]
      /\ device_info'[n + 1] = r
    BY <1>1, <1>2
<1>4. TablesOK'
    <2>1. ASSUME NEW i \in 1 .. n + 1, NEW j \in 1 .. n + 1, device_info'[i].session = device_info'[j].session,
                 device_info'[i].session # Null
          PROVE  i = j
        <3>1. \A k \in 1 .. n : device_info[k].session # s
            BY <1>3 DEF ChainOf
        <3>2. CASE i \in 1 .. n /\ j \in 1 .. n
            BY <1>3, <2>1, <3>2 DEF TablesOK
        <3>3. CASE i = n + 1 \/ j = n + 1
            BY <1>1, <1>3, <2>1, <3>1, <3>3
        <3> QED
            BY <1>3, <3>2, <3>3
    <2> QED
        BY <1>3, <2>1 DEF TablesOK, ChainRow
<1>5. \A i \in DOMAIN device_info' : device_info'[i].session = s \/ \E j \in DOMAIN device_info : device_info'[i].session = device_info[j].session
    BY <1>1, <1>3
<1>6. ASSUME NEW z \in Ids, NEW f \in Fields, z # s \/ TableOf(f) # "device_info" PROVE Column(z, f)' = Column(z, f)
    <2>1. CASE TableOf(f) # "device_info"
        BY <2>1 DEF Column
    <2>2. CASE z # s /\ TableOf(f) = "device_info"
        <3>1. ChainOf(z)' = ChainOf(z)
            BY <1>1, <1>3, <2>2 DEF ChainOf
        <3>2. ChainOf(z) \subseteq DOMAIN device_info
            BY DEF ChainOf
        <3>3. (CHOOSE i \in ChainOf(z) : \A j \in ChainOf(z) : i <= j)' = CHOOSE i \in ChainOf(z) : \A j \in ChainOf(z) : i <= j
            BY <3>1
        <3>4. CASE ChainOf(z) = {}
            BY <2>2, <3>1, <3>4 DEF Column
        <3>5. CASE ChainOf(z) # {}
            <4>1. PICK i \in DOMAIN device_info :
                      ChainOf(z) = {i} /\ (CHOOSE k \in ChainOf(z) : \A j \in ChainOf(z) : k <= j) = i
                BY <2>2, <3>5, ChainColumn
            <4>2. device_info'[i].x509_chain = device_info[i].x509_chain
                BY <1>3
            <4> QED
                BY <3>1, <3>3, <3>5, <4>1, <4>2 DEF Column
        <3> QED
            BY <3>4, <3>5
    <2> QED
        BY <1>6, <2>1, <2>2
<1>7. ASSUME NEW f \in Fields, TableOf(f) = "device_info" PROVE Column(s, f)' = v
    <2>1. ChainOf(s)' = {n + 1}
        BY <1>1, <1>3, <1>7 DEF ChainOf
    <2>2. (CHOOSE i \in ChainOf(s) : \A j \in ChainOf(s) : i <= j)' = n + 1
        BY <1>3, <2>1
    <2> QED
        BY <1>1, <1>3, <1>7, <2>1, <2>2 DEF Column
<1> QED
    BY <1>4, <1>5, <1>6, <1>7

\* A field of a row is set, in a new row if there is none; no other field is.
LEMMA UpsertColumns ==
    ASSUME TablesOK, NEW s \in Ids, NEW f \in Fields, NEW v \in Values, TableOf(f) # "device_info",
           Upsert(s, f, v), UNCHANGED device_info
    PROVE  /\ TablesOK'
           /\ \A t \in UpsertTables : DOMAIN rows'[t] \subseteq DOMAIN rows[t] \cup {s}
           /\ \A z \in Ids : \A g \in Fields : z # s \/ g # f => Column(z, g)' = Column(z, g)
           /\ Column(s, f)' = v
<1> DEFINE T == TableOf(f)
           t0 == rows[T]
           row == IF s \in DOMAIN t0 THEN t0[s] ELSE [g \in Columns(T) |-> Null]
           new == [row EXCEPT ![f] = v]
<1>1. T \in UpsertTables /\ f \in Columns(T)
    BY FieldTables DEF Columns
<1>2. t0 \in [DOMAIN t0 -> [Columns(T) -> Values \cup {Null}]]
    BY <1>1 DEF TablesOK
<1>3. row \in [Columns(T) -> Values \cup {Null}]
    BY <1>2
<1>4. /\ new \in [Columns(T) -> Values \cup {Null}] /\ new[f] = v
      /\ \A g \in Columns(T) : g # f => new[g] = IF s \in DOMAIN t0 THEN t0[s][g] ELSE Null
    BY <1>1, <1>3
<1>5. rows' = [rows EXCEPT ![T] = With(t0, s, new)]
    BY DEF Upsert
<1> HIDE DEF new
<1>6. /\ rows' \in [UpsertTables -> {rows'[t] : t \in UpsertTables}]
      /\ rows'[T] = With(t0, s, new)
      /\ \A t \in UpsertTables : t # T => rows'[t] = rows[t]
    BY <1>1, <1>5 DEF TablesOK
<1> DEFINE t1 == With(t0, s, new)
<1>7. /\ DOMAIN t1 = DOMAIN t0 \cup {s} /\ t1[s] = new /\ \A z \in DOMAIN t0 : z # s => t1[z] = t0[z]
      /\ t1 \in [DOMAIN t1 -> [Columns(T) -> Values \cup {Null}]]
    BY <1>2, <1>4 DEF With
<1> HIDE DEF t0, t1
<1>8. TablesOK'
    <2>1. \A t \in UpsertTables : rows'[t] \in [DOMAIN rows'[t] -> [Columns(t) -> Values \cup {Null}]]
        BY <1>6, <1>7 DEF TablesOK, t1
    <2>2. ASSUME "header" \in Fields, NEW z \in DOMAIN rows'["incomplete_vouchers"]
          PROVE  rows'["incomplete_vouchers"][z]["header"] # Null
        <3>1. "incomplete_vouchers" \in UpsertTables /\ (T = "incomplete_vouchers" => f = "header")
            BY <2>2, FieldTables
        <3>2. CASE T = "incomplete_vouchers"
            BY <1>4, <1>6, <1>7, <2>2, <3>1, <3>2, Names DEF TablesOK, t0, t1
        <3>3. CASE T # "incomplete_vouchers"
            BY <1>6, <2>2, <3>1, <3>3 DEF TablesOK
        <3> QED
            BY <3>2, <3>3
    <2> QED
        BY <1>6, <2>1, <2>2 DEF TablesOK
<1>9. \A t \in UpsertTables : DOMAIN rows'[t] \subseteq DOMAIN rows[t] \cup {s}
    BY <1>6, <1>7 DEF t0, t1
<1>10. ASSUME NEW z \in Ids, NEW g \in Fields, z # s \/ g # f PROVE Column(z, g)' = Column(z, g)
    <2>1. CASE TableOf(g) = "device_info"
        BY <2>1 DEF Column, ChainOf
    <2>2. CASE TableOf(g) = T
        <3>1. g \in Columns(T)
            BY <2>2 DEF Columns
        <3>2. rows[TableOf(g)] = t0 /\ rows'[TableOf(g)] = t1 /\ TableOf(g) # "device_info"
            BY <1>6, <2>2 DEF t0, t1
        <3>3. (z \in DOMAIN t1 /\ t1[z][g] # Null) <=> (z \in DOMAIN t0 /\ t0[z][g] # Null)
            BY <1>4, <1>7, <1>10, <3>1
        <3>4. z \in DOMAIN t0 => t1[z][g] = t0[z][g]
            BY <1>4, <1>7, <1>10, <3>1
        <3> QED
            BY <3>2, <3>3, <3>4 DEF Column
    <2>3. CASE TableOf(g) # "device_info" /\ TableOf(g) # T
        <3>1. rows'[TableOf(g)] = rows[TableOf(g)]
            BY <1>6, <2>3, FieldTables
        <3> QED
            BY <2>3, <3>1 DEF Column
    <2> QED
        BY <2>1, <2>2, <2>3
<1>11. Column(s, f)' = v
    <2>1. rows'[TableOf(f)] = t1 /\ s \in DOMAIN t1 /\ t1[s][f] = v /\ v # Null
        BY <1>4, <1>6, <1>7, Names DEF t1
    <2> QED
        BY <2>1 DEF Column
<1> QED
    BY <1>8, <1>9, <1>10, <1>11

\* The end of a session takes what its tables hold, and that only.
LEMMA CascadeColumns ==
    ASSUME TablesOK, NEW s \in Ids, Cascade(s)
    PROVE  /\ TablesOK'
           /\ \A t \in UpsertTables : DOMAIN rows'[t] = DOMAIN rows[t] \ {s}
           /\ \A i \in DOMAIN device_info' :
                 /\ device_info'[i].session # s
                 /\ \/ device_info'[i].session = Null
                    \/ \E j \in DOMAIN device_info : device_info'[i].session = device_info[j].session
           /\ \A z \in Ids : z # s => \A f \in Fields : Column(z, f)' = Column(z, f)
           /\ \A f \in Fields : Column(s, f)' = NotFound
<1>1. /\ rows' = [t \in UpsertTables |-> [z \in DOMAIN rows[t] \ {s} |-> rows[t][z]]]
      /\ device_info' = [i \in DOMAIN device_info |->
                             IF device_info[i].session = s THEN [device_info[i] EXCEPT !.session = Null]
                                                           ELSE device_info[i]]
    BY DEF Cascade
<1>2. device_info \in Seq(ChainRow)
    BY DEF TablesOK, ChainRow
<1>3. ASSUME NEW r \in ChainRow
      PROVE  /\ [r EXCEPT !.session = Null] \in ChainRow /\ [r EXCEPT !.session = Null].session = Null
             /\ [r EXCEPT !.session = Null].x509_chain = r.x509_chain
    BY DEF ChainRow
<1>4. DOMAIN device_info' = DOMAIN device_info /\ DOMAIN device_info = 1 .. Len(device_info) /\ Len(device_info) \in Nat
    BY <1>1, <1>2
<1>5. ASSUME NEW i \in DOMAIN device_info
      PROVE  /\ device_info'[i] \in ChainRow /\ device_info'[i].x509_chain = device_info[i].x509_chain
             /\ device_info'[i].session = IF device_info[i].session = s THEN Null ELSE device_info[i].session
    <2>1. device_info[i] \in ChainRow
        BY <1>2, <1>4
    <2>2. device_info'[i] = IF device_info[i].session = s THEN [device_info[i] EXCEPT !.session = Null] ELSE device_info[i]
        BY <1>1
    <2> QED
        BY <1>3, <2>1, <2>2
<1>6. s # Null
    BY Names
<1>7. /\ rows' \in [UpsertTables -> {rows'[t] : t \in UpsertTables}]
      /\ \A t \in UpsertTables :
            /\ DOMAIN rows'[t] = DOMAIN rows[t] \ {s}
            /\ \A z \in DOMAIN rows'[t] : rows'[t][z] = rows[t][z]
            /\ rows'[t] \in [DOMAIN rows'[t] -> [Columns(t) -> Values \cup {Null}]]
    BY <1>1 DEF TablesOK
<1>8. TablesOK'
    <2>1. device_info' \in Seq(ChainRow)
        <3>1. device_info' = [i \in 1 .. Len(device_info) |-> device_info'[i]]
            BY <1>1, <1>4
        <3> QED
            BY <1>4, <1>5, <3>1
    <2>2. \A i, j \in DOMAIN device_info' :
              device_info'[i].session = device_info'[j].session /\ device_info'[i].session # Null => i = j
        BY <1>4, <1>5 DEF TablesOK
    <2>3. "header" \in Fields =>
              \A z \in DOMAIN rows'["incomplete_vouchers"] : rows'["incomplete_vouchers"][z]["header"] # Null
        BY <1>7, FieldTables DEF TablesOK
    <2> QED
        BY <1>7, <2>1, <2>2, <2>3 DEF TablesOK, ChainRow
<1>9. ASSUME NEW z \in Ids, z # s, NEW f \in Fields PROVE Column(z, f)' = Column(z, f)
    <2>1. CASE TableOf(f) = "device_info"
        <3>1. z # Null
            BY Names
        <3>2. ChainOf(z)' = ChainOf(z)
            BY <1>4, <1>5, <1>9, <3>1 DEF ChainOf
        <3>3. CASE ChainOf(z) = {}
            BY <2>1, <3>2, <3>3 DEF Column
        <3>4. CASE ChainOf(z) # {}
            <4>1. PICK i \in DOMAIN device_info :
                      ChainOf(z) = {i} /\ (CHOOSE k \in ChainOf(z) : \A j \in ChainOf(z) : k <= j) = i
                BY <2>1, <3>4, ChainColumn
            <4>2. (CHOOSE k \in ChainOf(z) : \A j \in ChainOf(z) : k <= j)' = i
                BY <3>2, <4>1
            <4>3. device_info'[i].x509_chain = device_info[i].x509_chain
                BY <1>5
            <4> QED
                BY <2>1, <3>2, <3>4, <4>1, <4>2, <4>3 DEF Column
        <3> QED
            BY <3>3, <3>4
    <2>2. CASE TableOf(f) # "device_info"
        <3>1. /\ DOMAIN rows'[TableOf(f)] = DOMAIN rows[TableOf(f)] \ {s}
              /\ \A y \in DOMAIN rows'[TableOf(f)] : rows'[TableOf(f)][y] = rows[TableOf(f)][y]
            BY <1>7, <2>2, FieldTables
        <3> QED
            BY <1>9, <2>2, <3>1 DEF Column
    <2> QED
        BY <2>1, <2>2
<1>10. ASSUME NEW f \in Fields PROVE Column(s, f)' = NotFound
    <2>1. CASE TableOf(f) = "device_info"
        <3>1. ChainOf(s)' = {}
            BY <1>4, <1>5, <1>6 DEF ChainOf
        <3> QED
            BY <2>1, <3>1 DEF Column
    <2>2. CASE TableOf(f) # "device_info"
        BY <1>7, <2>2, FieldTables DEF Column
    <2> QED
        BY <2>1, <2>2
<1> QED
    BY <1>4, <1>5, <1>6, <1>7, <1>8, <1>9, <1>10

------------------------------------------------------------------------------
(* The invariants are kept.                                                  *)

\* A token that was made with the secret stays so while the server runs.
LEMMA MacKept ==
    ASSUME IndInv, NEW c \in Callers, Effects(c), NEW m, MacOK(m)
    PROVE  MacOK(m)'
BY Names DEF IndInv, Effects, MacOK

\* The callers other than c have what they had.
LEMMA CallersKept ==
    ASSUME IndInv, NEW c \in Callers, Effects(c)
    PROVE  CallersOK'
<1>1. ASSUME NEW d \in Callers, d # c PROVE CtxOK(d)' /\ StageOK(d)'
    <2>1. CtxOK(d) /\ StageOK(d)
        BY DEF IndInv, CallersOK
    <2>2. pc'[d] = pc[d] /\ call'[d] = call[d] /\ ctx'[d] = ctx[d] /\ key'[d] = key[d] /\ impl' = impl
        BY <1>1 DEF Effects
    <2>3. secret \in Callers => secret' = secret
        BY Names DEF Effects
    <2>4. PICK m0 : m0 = ctx[d].mac
        OBVIOUS
    <2>5. CtxOK(d)'
        <3>1. ctx[d].id \in Ids => ctx[d].id \in DOMAIN used' /\ MacOK(m0)
            BY <2>1, <2>4 DEF CtxOK, Effects
        <3>2. MacOK(m0) => MacOK(m0)'
            BY MacKept
        <3>3. ctx[d].id \in Ids => ctx'[d].id \in DOMAIN used' /\ MacOK(ctx[d].mac)'
            BY <2>2, <2>4, <3>1, <3>2 DEF MacOK
        <3> QED
            BY <2>1, <2>2, <3>3 DEF CtxOK, MacOK
    <2>6. StageOK(d)'
        BY <2>1, <2>2, <2>3 DEF StageOK
    <2> QED
        BY <2>5, <2>6
<1> QED
    BY <1>1 DEF Effects, CallersOK

\* The types, but for the tables.
LEMMA TypesKept ==
    ASSUME IndInv, NEW c \in Callers, Effects(c), sessions' \subseteq DOMAIN used', DOMAIN used' \subseteq Ids,
           DOMAIN token' \subseteq DOMAIN used', \A s \in DOMAIN token' : token'[s] \in TokenRecord
    PROVE  TypeOK'
<1>1. TypeOK
    BY DEF IndInv
<1> QED
    BY <1>1 DEF TypeOK, Effects

\* Tokens that are given out already stay as they are.
LEMMA TokensKept ==
    ASSUME IndInv, NEW c \in Callers, Effects(c), token' = token
    PROVE  TokensOK'
<1>1. impl' = "token" => secret' = restarts'
    BY DEF IndInv, TokensOK, Effects
<1>2. ASSUME NEW s \in DOMAIN token PROVE token[s].id = s /\ MacOK(token[s].mac)'
    <2>1. token[s].id = s /\ MacOK(token[s].mac)
        BY DEF IndInv, TokensOK
    <2>2. \A m : MacOK(m) => MacOK(m)'
        BY MacKept
    <2> QED
        BY <2>1, Names DEF IndInv, Effects, MacOK
<1> QED
    BY <1>1, <1>2 DEF TokensOK, MacOK

\* A caller that keeps its session or gives it up is as much alone as before.
LEMMA AloneKept ==
    ASSUME IndInv, NEW c \in Callers, Effects(c), ctx'[c].id = ctx[c].id \/ ctx'[c].id \notin Ids
    PROVE  AloneOK'
<1> SUFFICES ASSUME NEW d \in Callers, NEW e \in Callers, ctx'[d].id \in Ids, ctx'[d].id = ctx'[e].id,
                    impl' = "token" \/ ctx'[d].id \notin DOMAIN token'
             PROVE  d = e
    BY DEF AloneOK
<1>1. ctx'[d].id = ctx[d].id /\ ctx'[e].id = ctx[e].id
    BY DEF Effects
<1> QED
    BY <1>1 DEF IndInv, AloneOK, Effects

\* So is one with a new session.
LEMMA AloneWithNew ==
    ASSUME IndInv, NEW c \in Callers, Effects(c), Fresh(c)
    PROVE  AloneOK'
<1>1. PICK s \in Ids \ DOMAIN used : ctx' = [ctx EXCEPT ![c] = [id |-> s, mac |-> secret, state |-> NewState]]
    BY DEF Fresh
<1>2. ctx'[c].id = s
    BY <1>1 DEF IndInv, TypeOK
<1>3. \A d \in Callers : d # c => ctx'[d].id # s
    BY <1>1 DEF IndInv, CallersOK, CtxOK, Effects
<1> SUFFICES ASSUME NEW d \in Callers, NEW e \in Callers, ctx'[d].id \in Ids, ctx'[d].id = ctx'[e].id,
                    impl' = "token" \/ ctx'[d].id \notin DOMAIN token'
             PROVE  d = e
    BY DEF AloneOK
<1>4. d = c \/ e = c \/ (ctx'[d].id = ctx[d].id /\ ctx'[e].id = ctx[e].id)
    BY DEF Effects
<1> QED
    BY <1>2, <1>3, <1>4 DEF IndInv, AloneOK, Effects

\* A call that sets a field is for the session of its request.
LEMMA SetterAtWork ==
    ASSUME IndInv, NEW c \in Callers, call[c].op = "set"
    PROVE  call[c].s = ctx[c].id /\ pc[c] \in AtWork
<1>1. StageOK(c) /\ pc[c] \in {"idle", "ready"} \cup AtWork
    BY DEF IndInv, CallersOK, TypeOK
<1>2. NoCall.op # "set"
    BY DEF NoCall
<1>3. pc[c] \in AtWork
    BY <1>1, <1>2 DEF StageOK
<1> QED
    BY <1>1, <1>3 DEF StageOK

\* What was not set is not there, as long as no other call of the session comes in between.
LEMMA OnceKept ==
    ASSUME IndInv, NEW c \in Callers, Effects(c), token' = token,
           call'[c] = NoCall \/ call'[c] = call[c],
           NEW s, call[c].op = "set" => s = call[c].s,
           impl = "sqlite" => \A z \in Ids : z # s => \A f \in Fields : Column(z, f)' = Column(z, f),
           (\A f \in Fields : Column(s, f)' = Column(s, f)) \/ (call[c].op = "set" /\ call'[c] = NoCall) \/ \A f \in Fields : Column(s, f)' = NotFound
    PROVE  OnceOK'
<1> SUFFICES ASSUME impl' = "sqlite", NEW d \in Callers, NEW z \in Ids, NEW f \in Once,
                    call'[d].op = "set", call'[d].s = z, call'[d].f = f
             PROVE  z \notin DOMAIN token' /\ Column(z, f)' = NotFound
    BY DEF OnceOK
<1>1. call'[d] = call[d] /\ impl = "sqlite" /\ f \in Fields
    <2>1. NoCall.op # "set"
        BY DEF NoCall
    <2> QED
        BY <2>1 DEF Effects, Once
<1>2. z \notin DOMAIN token /\ Column(z, f) = NotFound
    BY <1>1 DEF IndInv, OnceOK
<1>3. Column(z, f)' = NotFound
    <2>1. CASE z # s
        BY <1>1, <1>2, <2>1
    <2>2. CASE z = s /\ \A g \in Fields : Column(s, g)' = Column(s, g)
        BY <1>1, <1>2, <2>2
    <2>3. CASE z = s /\ \A g \in Fields : Column(s, g)' = NotFound
        BY <1>1, <2>3
    <2>4. CASE z = s /\ call[c].op = "set" /\ call'[c] = NoCall
        <3>1. d # c
            <4>1. NoCall.op # "set"
                BY DEF NoCall
            <4> QED
                BY <2>4, <4>1
        <3>2. ctx[c].id = s /\ ctx[d].id = s
            <4>1. call[d].op = "set" /\ call[d].s = s /\ call[c].op = "set" /\ call[c].s = s
                BY <1>1, <2>4
            <4> QED
                BY <4>1, SetterAtWork
        <3> QED
            BY <1>1, <1>2, <2>4, <3>1, <3>2 DEF IndInv, AloneOK
    <2> QED
        BY <2>1, <2>2, <2>3, <2>4
<1> QED
    BY <1>2, <1>3

\* It is one of this database or service.
LEMMA SetterInIds ==
    ASSUME IndInv, NEW c \in Callers, call[c].op = "set"
    PROVE  call[c].s \in Ids /\ call[c].f \in Fields
<1>1. call[c] \in CallRecord
    BY DEF IndInv, TypeOK
<1> QED
    BY <1>1, CallKinds

\* A call that leaves the tables and the tokens as they are keeps the rest.
LEMMA QuietKept ==
    ASSUME IndInv, NEW c \in Callers, Effects(c), Quiet
    PROVE  /\ TypeOK' /\ TablesOK' /\ NoOrphans' /\ TokensOK' /\ CallersOK'
           /\ \A z \in Ids : \A f \in Fields : Column(z, f)' = Column(z, f)
           /\ call'[c] = NoCall \/ call'[c] = call[c] => OnceOK'
<1>1. UNCHANGED <<sessions, rows, device_info, used, token>> /\ TypeOK /\ TablesOK /\ NoOrphans
    BY DEF IndInv, Quiet
<1>2. TypeOK'
    BY <1>1, TypesKept DEF TypeOK
<1>3. TablesOK'
    BY <1>1 DEF TablesOK
<1>4. NoOrphans'
    BY <1>1 DEF NoOrphans
<1>5. \A z \in Ids : \A f \in Fields : Column(z, f)' = Column(z, f)
    BY <1>1 DEF Column, ChainOf
<1>6. call'[c] = NoCall \/ call'[c] = call[c] => OnceOK'
    <2>1. PICK s : call[c].op = "set" => s = call[c].s /\ s \in Ids
        BY SetterInIds
    <2>2. CASE call[c].op = "set"
        BY <1>1, <1>5, <2>1, <2>2, OnceKept
    <2>3. CASE call[c].op # "set"
        <3>1. CASE \E z \in Ids : TRUE
            BY <1>1, <1>5, <2>3, <3>1, OnceKept
        <3>2. CASE ~\E z \in Ids : TRUE
            BY <3>2 DEF OnceOK
        <3> QED
            BY <3>1, <3>2
    <2> QED
        BY <2>2, <2>3
<1> QED
    BY <1>1, <1>2, <1>3, <1>4, <1>5, <1>6, TokensKept, CallersKept

\* Requests find the store as it is.
LEMMA RequestKept ==
    ASSUME IndInv, NEW c \in Callers, Request(c)
    PROVE  IndInv'
<1>1. Effects(c) /\ Quiet /\ call' = call /\ dbVars' = dbVars
    BY RequestEffects DEF Quiet, dbVars
<1>2. TypeOK /\ TokensOK
    BY DEF IndInv
<1>3. AloneOK'
    <2>1. CASE impl = "sqlite" /\ ctx' = [ctx EXCEPT ![c] = Foreign]
        <3>1. ctx'[c] = Foreign
            BY <1>2, <2>1 DEF TypeOK
        <3> QED
            BY <1>1, <3>1, AloneKept, NoneType, Names
    <2>2. ASSUME NEW s \in DOMAIN token, ctx' = [ctx EXCEPT ![c] = token[s]],
                 impl = "token" => \A d \in Callers : ctx[d].id # s
          PROVE  AloneOK'
        <3>1. ctx'[c].id = s
            BY <1>2, <2>2 DEF TypeOK, TokensOK
        <3> SUFFICES ASSUME NEW d \in Callers, NEW e \in Callers, ctx'[d].id \in Ids, ctx'[d].id = ctx'[e].id,
                            impl' = "token" \/ ctx'[d].id \notin DOMAIN token'
                     PROVE  d = e
            BY DEF AloneOK
        <3>2. impl' = impl /\ token' = token /\ \A b \in Callers : b # c => ctx'[b] = ctx[b]
            BY <1>1 DEF Effects, Quiet
        <3>3. CASE d # c /\ e # c
            BY <3>2, <3>3 DEF IndInv, AloneOK
        <3>4. CASE d = c \/ e = c
            BY <2>2, <3>1, <3>2, <3>4
        <3> QED
            BY <3>3, <3>4
    <2> QED
        BY <2>1, <2>2, RequestEffects
<1> QED
    BY <1>1, <1>3, QuietKept DEF IndInv

\* Nor does a call change it that begins.
LEMMA BeginKept ==
    ASSUME IndInv, NEW c \in Callers, Begin(c)
    PROVE  IndInv'
<1>1. Effects(c) /\ Quiet /\ ctx' = ctx
    BY BeginEffects DEF Quiet, dbVars
<1>2. AloneOK'
    BY <1>1, AloneKept
<1>3. OnceOK'
    <2> SUFFICES ASSUME impl' = "sqlite", NEW d \in Callers, NEW z \in Ids, NEW f \in Once,
                        call'[d].op = "set", call'[d].s = z, call'[d].f = f
                 PROVE  z \notin DOMAIN token' /\ Column(z, f)' = NotFound
        BY DEF OnceOK
    <2>1. impl = "sqlite" /\ f \in Fields /\ token' = token
        BY <1>1 DEF Effects, Once, Quiet
    <2>2. z \notin DOMAIN token /\ Column(z, f) = NotFound
        <3>1. CASE d = c
            BY <2>1, <3>1, BeginEffects DEF Stored
        <3>2. CASE d # c
            <4>1. call'[d] = call[d]
                BY <1>1, <3>2 DEF Effects
            <4> QED
                BY <2>1, <4>1 DEF IndInv, OnceOK
        <3> QED
            BY <3>1, <3>2
    <2> QED
        BY <1>1, <2>1, <2>2, QuietKept
<1> QED
    BY <1>1, <1>2, <1>3, QuietKept DEF IndInv

\* A response adds a token, of a session that only c has until then.
LEMMA RespondKept ==
    ASSUME IndInv, NEW c \in Callers, Respond(c)
    PROVE  IndInv'
<1>0. TypeOK /\ TokensOK /\ TablesOK /\ NoOrphans
    BY DEF IndInv
<1>1. /\ Effects(c) /\ UNCHANGED <<sessions, rows, device_info, used>> /\ call' = call
      /\ ctx' = [ctx EXCEPT ![c] = None]
    BY RespondEffects DEF dbVars
<1>2. ctx'[c].id = Null /\ Null \notin Ids
    BY <1>0, <1>1, NoneType, Names DEF TypeOK
<1>3. CASE token' = token
    <2>1. Quiet
        BY <1>1, <1>3 DEF Quiet
    <2> QED
        BY <1>1, <1>2, <2>1, QuietKept, AloneKept DEF IndInv
<1>4. ASSUME ctx[c].id \in Ids, ctx[c].id \in DOMAIN used, MacOK(ctx[c].mac), token' = With(token, ctx[c].id, ctx[c])
      PROVE  IndInv'
    <2>1. PICK s \in Ids : s = ctx[c].id
        BY <1>4
    <2>2. /\ DOMAIN token' = DOMAIN token \cup {s} /\ token'[s] = ctx[c]
          /\ \A z \in DOMAIN token : z # s => token'[z] = token[z]
        BY <1>4, <2>1 DEF With
    <2>3. TypeOK'
        BY <1>0, <1>1, <1>4, <2>1, <2>2, TypesKept DEF TypeOK
    <2>4. TokensOK'
        <3>1. impl' = "token" => secret' = restarts'
            BY <1>0, <1>1 DEF TokensOK, Effects
        <3>2. ASSUME NEW z \in DOMAIN token' PROVE token'[z].id = z /\ \E m : m = token'[z].mac /\ MacOK(m)'
            <4>1. PICK t : t = token'[z]
                OBVIOUS
            <4>2. t.id = z /\ MacOK(t.mac)
                BY <1>0, <1>4, <2>1, <2>2, <4>1 DEF TokensOK, MacOK
            <4> QED
                BY <1>1, <4>1, <4>2, MacKept
        <3>3. \A z \in DOMAIN token' : token'[z].id = z /\ (MacOK(token[z].mac))'
            BY <3>2 DEF MacOK
        <3> QED
            BY <3>1, <3>3 DEF TokensOK
    <2>5. OnceOK'
        <3> SUFFICES ASSUME impl' = "sqlite", NEW d \in Callers, NEW z \in Ids, NEW f \in Once,
                            call'[d].op = "set", call'[d].s = z, call'[d].f = f
                     PROVE  z \notin DOMAIN token' /\ Column(z, f)' = NotFound
            BY DEF OnceOK
        <3>1. impl = "sqlite" /\ call[d] = call'[d] /\ Column(z, f)' = Column(z, f)
            BY <1>1 DEF Effects, Column, ChainOf
        <3>2. z \notin DOMAIN token /\ Column(z, f) = NotFound
            BY <3>1 DEF IndInv, OnceOK
        <3>3. z # s
            <4>1. SUFFICES ASSUME z = s PROVE FALSE
                OBVIOUS
            <4>2. ctx[d].id = s /\ pc[d] \in AtWork
                BY <3>1, <4>1, SetterAtWork
            <4>3. d = c
                BY <2>1, <3>2, <4>1, <4>2 DEF IndInv, AloneOK
            <4>4. pc[c] = "ready"
                BY DEF Respond
            <4> QED
                BY <4>2, <4>3, <4>4 DEF AtWork
        <3> QED
            BY <2>2, <3>1, <3>2, <3>3
    <2>6. TablesOK' /\ NoOrphans'
        BY <1>0, <1>1 DEF TablesOK, NoOrphans
    <2> QED
        BY <1>1, <1>2, <2>3, <2>4, <2>5, <2>6, CallersKept, AloneKept DEF IndInv
<1> QED
    BY <1>3, <1>4, RespondEffects

\* New sessions have no rows.
LEMMA NewKept ==
    ASSUME IndInv, NEW c \in Callers, NewToken(c) \/ TokenNew(c)
    PROVE  IndInv'
<1>0. TypeOK /\ TokensOK /\ TablesOK /\ NoOrphans
    BY DEF IndInv
<1>1. /\ Effects(c) /\ Fresh(c) /\ call'[c] = NoCall /\ UNCHANGED <<rows, device_info, token>>
      /\ sessions' = sessions \/ sessions' = sessions \cup (DOMAIN used' \ DOMAIN used)
    BY NewTokenEffects, TokenNewEffects DEF dbVars
<1>2. DOMAIN used' \subseteq Ids /\ DOMAIN used \subseteq DOMAIN used'
    BY <1>0, <1>1 DEF Fresh, TypeOK
<1>3. TypeOK'
    BY <1>0, <1>1, <1>2, TypesKept DEF TypeOK
<1>4. TablesOK' /\ NoOrphans'
    BY <1>0, <1>1 DEF TablesOK, NoOrphans
<1>5. \A z \in Ids : \A f \in Fields : Column(z, f)' = Column(z, f)
    BY <1>1 DEF Column, ChainOf
<1>6. OnceOK'
    <2>1. call[c].op # "set"
        BY DEF NewToken, TokenNew, At
    <2> QED
        BY <1>0, <1>1, <1>5, <2>1, OnceKept DEF Fresh
<1> QED
    BY <1>1, <1>3, <1>4, <1>6, AloneWithNew, CallersKept, TokensKept DEF IndInv

\* No row is set for a session that is over, and no field that is set once is there before.
LEMMA SetFieldColumns ==
    ASSUME IndInv, NEW c \in Callers, SetField(c), NEW s, NEW f, NEW v, s = call[c].s, f = call[c].f, v = call[c].v
    PROVE  /\ TablesOK' /\ NoOrphans'
           /\ \A z \in Ids : \A g \in Fields : z # s \/ g # f => Column(z, g)' = Column(z, g)
           /\ IF s \notin sessions THEN answer' = "error" /\ Column(s, f)' = Column(s, f)
                                   ELSE answer' = "ok" /\ Column(s, f)' = v
<1>0. TypeOK /\ TablesOK /\ NoOrphans /\ OnceOK
    BY DEF IndInv
<1>1. /\ impl = "sqlite" /\ sessions' = sessions /\ s \in Ids /\ f \in Fields /\ v \in Values /\ call[c].op = "set"
      /\ IF s \notin sessions \/ (f = "header" /\ s \in DOMAIN rows[TableOf(f)])
         THEN answer' = "error" /\ UNCHANGED <<rows, device_info>>
         ELSE /\ answer' = "ok"
              /\ IF TableOf(f) = "device_info"
                 THEN /\ device_info' = Append(device_info, [session |-> s, x509_chain |-> v])
                      /\ UNCHANGED rows
                 ELSE Upsert(s, f, v) /\ UNCHANGED device_info
    BY SetFieldEffects
<1>2. f \in Once => Column(s, f) = NotFound
    BY <1>0, <1>1 DEF OnceOK
<1>3. ~(f = "header" /\ s \in DOMAIN rows[TableOf(f)])
    <2> SUFFICES ASSUME f = "header", s \in DOMAIN rows[TableOf(f)] PROVE FALSE
        OBVIOUS
    <2>1. TableOf(f) = "incomplete_vouchers" /\ TableOf(f) \in UpsertTables /\ f \in Columns(TableOf(f)) /\ f \in Once
        BY <1>1, FieldTables DEF Columns, Once
    <2>2. rows[TableOf(f)] \in [DOMAIN rows[TableOf(f)] -> [Columns(TableOf(f)) -> Values \cup {Null}]]
        BY <1>0, <2>1 DEF TablesOK
    <2>3. rows[TableOf(f)][s][f] # Null /\ rows[TableOf(f)][s][f] \in Values
        BY <1>0, <1>1, <2>1, <2>2 DEF TablesOK
    <2> QED
        BY <1>2, <2>1, <2>3, Names DEF Column
<1>4. CASE s \notin sessions
    BY <1>0, <1>1, <1>4 DEF TablesOK, NoOrphans, Column, ChainOf
<1>5. CASE s \in sessions /\ TableOf(f) = "device_info"
    <2>1. answer' = "ok" /\ device_info' = Append(device_info, [session |-> s, x509_chain |-> v]) /\ UNCHANGED rows
        BY <1>1, <1>3, <1>5
    <2>2. ChainOf(s) = {}
        <3>1. f \in Once
            BY <1>1, <1>5, FieldTables DEF Once
        <3> QED
            BY <1>0, <1>1, <1>2, <1>5, <3>1, ChainColumn, Names
    <2>3. /\ TablesOK'
          /\ \A i \in DOMAIN device_info' : device_info'[i].session = s \/ \E j \in DOMAIN device_info : device_info'[i].session = device_info[j].session
          /\ \A z \in Ids : \A g \in Fields : z # s \/ TableOf(g) # "device_info" => Column(z, g)' = Column(z, g)
          /\ \A g \in Fields : TableOf(g) = "device_info" => Column(s, g)' = v
        BY <1>0, <1>1, <2>1, <2>2, AppendColumns
    <2>4. \A g \in Fields : g # f => TableOf(g) # "device_info"
        BY <1>1, <1>5, FieldTables
    <2>5. NoOrphans'
        BY <1>0, <1>1, <1>5, <2>1, <2>3 DEF NoOrphans
    <2> QED
        BY <1>1, <1>5, <2>1, <2>3, <2>4, <2>5
<1>6. CASE s \in sessions /\ TableOf(f) # "device_info"
    <2>1. answer' = "ok" /\ Upsert(s, f, v) /\ UNCHANGED device_info
        BY <1>1, <1>3, <1>6
    <2>2. /\ TablesOK'
          /\ \A t \in UpsertTables : DOMAIN rows'[t] \subseteq DOMAIN rows[t] \cup {s}
          /\ \A z \in Ids : \A g \in Fields : z # s \/ g # f => Column(z, g)' = Column(z, g)
          /\ Column(s, f)' = v
        BY <1>0, <1>1, <1>6, <2>1, UpsertColumns
    <2>3. NoOrphans'
        BY <1>0, <1>1, <1>6, <2>1, <2>2 DEF NoOrphans
    <2> QED
        BY <1>6, <2>1, <2>2, <2>3
<1> QED
    BY <1>4, <1>5, <1>6

\* Fields are set.
LEMMA SetFieldKept ==
    ASSUME IndInv, NEW c \in Callers, SetField(c)
    PROVE  IndInv'
<1>0. PICK s, f, v : s = call[c].s /\ f = call[c].f /\ v = call[c].v
    OBVIOUS
<1>1. /\ Effects(c) /\ ctx' = ctx /\ call'[c] = NoCall /\ UNCHANGED <<sessions, used, token>> /\ call[c].op = "set"
      /\ s \in Ids
    BY <1>0, SetFieldEffects
<1>2. /\ TablesOK' /\ NoOrphans'
      /\ \A z \in Ids : \A g \in Fields : z # s => Column(z, g)' = Column(z, g)
    BY <1>0, SetFieldColumns
<1>3. TypeOK'
    BY <1>1, TypesKept DEF IndInv, TypeOK
<1>4. OnceOK'
    BY <1>0, <1>1, <1>2, OnceKept
<1> QED
    BY <1>1, <1>2, <1>3, <1>4, AloneKept, CallersKept, TokensKept DEF IndInv

\* A session ends: its rows go, but for what is known of the device.
LEMMA InvalidateTokenKept ==
    ASSUME IndInv, NEW c \in Callers, InvalidateToken(c)
    PROVE  /\ IndInv'
           /\ \A z \in Ids : z # call[c].s => \A f \in Fields : Column(z, f)' = Column(z, f)
           /\ \A s \in Ids : s = call[c].s => \A f \in Fields : Column(s, f)' = NotFound
<1>0. PICK s \in Ids : s = call[c].s
    BY InvalidateTokenEffects
<1>1. /\ Effects(c) /\ ctx' = ctx /\ call'[c] = NoCall /\ UNCHANGED <<used, token>>
      /\ sessions' = sessions \ {s} /\ Cascade(s)
    BY <1>0, InvalidateTokenEffects
<1>2. call[c].op # "set"
    BY DEF InvalidateToken, At
<1>3. /\ TablesOK'
      /\ \A t \in UpsertTables : DOMAIN rows'[t] = DOMAIN rows[t] \ {s}
      /\ \A i \in DOMAIN device_info' :
            /\ device_info'[i].session # s
            /\ \/ device_info'[i].session = Null
               \/ \E j \in DOMAIN device_info : device_info'[i].session = device_info[j].session
      /\ \A z \in Ids : z # s => \A f \in Fields : Column(z, f)' = Column(z, f)
      /\ \A f \in Fields : Column(s, f)' = NotFound
    BY <1>1, CascadeColumns DEF IndInv
<1>4. NoOrphans'
    BY <1>1, <1>3 DEF IndInv, NoOrphans
<1>5. TypeOK'
    BY <1>1, TypesKept DEF IndInv, TypeOK
<1>6. OnceOK'
    BY <1>1, <1>2, <1>3, OnceKept
<1> QED
    BY <1>0, <1>1, <1>3, <1>4, <1>5, <1>6, AloneKept, CallersKept, TokensKept DEF IndInv

\* The steps of a caller.
LEMMA StepKept ==
    ASSUME IndInv, NEW c \in Callers, Step(c)
    PROVE  IndInv'
<1>1. CASE StoreSecret(c)
    BY <1>1, StoreSecretEffects, QuietKept, AloneKept DEF IndInv
<1>2. CASE ReadSecret(c)
    BY <1>2, ReadSecretEffects, QuietKept, AloneKept DEF IndInv
<1>3. CASE InvalidSession(c)
    BY <1>3, InvalidSessionEffects, QuietKept, AloneKept DEF IndInv
<1>4. CASE GetField(c)
    BY <1>4, GetFieldEffects, QuietKept, AloneKept DEF IndInv
<1>5. CASE TokenInvalid(c)
    BY <1>5, TokenInvalidEffects, QuietKept, AloneKept DEF IndInv
<1>6. CASE TokenSet(c)
    BY <1>6, TokenSetEffects, QuietKept, AloneKept DEF IndInv
<1>7. CASE TokenGet(c)
    BY <1>7, TokenGetEffects, QuietKept, AloneKept DEF IndInv
<1>8. CASE TokenInvalidate(c)
    BY <1>8, TokenInvalidateEffects, QuietKept, AloneKept DEF IndInv
<1> QED
    BY <1>1, <1>2, <1>3, <1>4, <1>5, <1>6, <1>7, <1>8,
       RequestKept, RespondKept, BeginKept, NewKept, SetFieldKept, InvalidateTokenKept DEF Step

\* A restart leaves the tables; a new token service has a new secret.
LEMMA RestartKept ==
    ASSUME IndInv, Restart
    PROVE  IndInv'
<1>0. TypeOK /\ TablesOK /\ NoOrphans /\ TokensOK
    BY DEF IndInv
<1>1. /\ pc' = [c \in Callers |-> "idle"] /\ call' = [c \in Callers |-> NoCall]
      /\ ctx' = [c \in Callers |-> None] /\ key' = [c \in Callers |-> Null]
      /\ UNCHANGED <<impl, sessions, rows, device_info, used, token>>
      /\ IF impl = "sqlite" THEN secret' = secret /\ restarts' = restarts
                            ELSE restarts' = restarts + 1 /\ secret' = restarts'
    BY DEF Restart
<1>2. NoCall \in CallRecord /\ NoCall.op # "set"
    BY DEF CallRecord, NoCall
<1>3. TypeOK'
    <2>1. secret' \in IF impl' = "sqlite" THEN Callers \cup {Null} ELSE Nat
        BY <1>0, <1>1 DEF TypeOK
    <2>2. restarts' \in Nat
        BY <1>0, <1>1 DEF TypeOK
    <2>3. /\ pc' \in [Callers -> {"idle", "ready"} \cup AtWork] /\ call' \in [Callers -> CallRecord]
          /\ ctx' \in [Callers -> TokenRecord] /\ key' \in [Callers -> Callers \cup Nat \cup {Null}]
        BY <1>1, <1>2, NoneType
    <2> QED
        BY <1>0, <1>1, <2>1, <2>2, <2>3 DEF TypeOK
<1>4. TablesOK' /\ NoOrphans'
    BY <1>0, <1>1 DEF TablesOK, NoOrphans
<1>5. TokensOK'
    <2>1. \A m : MacOK(m) => MacOK(m)'
        BY <1>0, <1>1, Names DEF MacOK, TypeOK
    <2>2. ASSUME NEW s \in DOMAIN token PROVE token[s].id = s /\ \E m : m = token[s].mac /\ MacOK(m)'
        BY <1>0, <2>1 DEF TokensOK
    <2>3. \A s \in DOMAIN token' : token'[s].id = s /\ (MacOK(token[s].mac))'
        BY <1>1, <2>2 DEF MacOK
    <2> QED
        BY <1>1, <2>3 DEF TokensOK
<1>6. CallersOK'
    BY <1>1, NoneType, Names DEF CallersOK, CtxOK, StageOK, AtWork
<1>7. AloneOK' /\ OnceOK'
    BY <1>1, <1>2, NoneType, Names DEF AloneOK, OnceOK
<1> QED
    BY <1>3, <1>4, <1>5, <1>6, <1>7 DEF IndInv

\* At first there is nothing.
LEMMA InitIndInv == Init => IndInv
<1> SUFFICES ASSUME Init PROVE IndInv
    OBVIOUS
<1>1. NoCall \in CallRecord /\ NoCall.op # "set"
    BY DEF CallRecord, NoCall
<1>2. TypeOK
    BY <1>1, NoneType, Names DEF Init, TypeOK, AtWork
<1>3. TablesOK /\ NoOrphans
    <2>1. "header" \in Fields => "incomplete_vouchers" \in UpsertTables
        BY FieldTables
    <2>2. rows = [t \in UpsertTables |-> [s \in {} |-> Null]] /\ device_info = <<>>
        BY DEF Init
    <2>3. rows \in [UpsertTables -> {rows[t] : t \in UpsertTables}] /\ \A t \in UpsertTables : DOMAIN rows[t] = {}
        BY <2>2
    <2>4. \A t \in UpsertTables : rows[t] \in [DOMAIN rows[t] -> [Columns(t) -> Values \cup {Null}]]
        BY <2>2
    <2>5. device_info \in Seq(ChainRow) /\ DOMAIN device_info = {}
        BY <2>2
    <2> QED
        BY <2>1, <2>3, <2>4, <2>5 DEF TablesOK, NoOrphans, ChainRow
<1>4. TokensOK
    BY DEF Init, TokensOK
<1>5. CallersOK
    BY NoneType, Names DEF Init, CallersOK, CtxOK, StageOK, AtWork
<1>6. AloneOK /\ OnceOK
    BY <1>1, NoneType, Names DEF Init, AloneOK, OnceOK
<1> QED
    BY <1>2, <1>3, <1>4, <1>5, <1>6 DEF IndInv

\* The invariant.
LEMMA NextIndInv == IndInv /\ [SessionsNext]_vars => IndInv'
<1> SUFFICES ASSUME IndInv, [SessionsNext]_vars PROVE IndInv'
    OBVIOUS
<1>1. CASE \E c \in Callers : Step(c)
    BY <1>1, StepKept
<1>2. CASE Restart
    BY <1>2, RestartKept
<1>3. CASE UNCHANGED vars
    <2>1. /\ UNCHANGED <<impl, secret, sessions, rows, device_info, used, token, restarts>>
          /\ UNCHANGED <<pc, call, ctx, key>>
        BY <1>3 DEF vars, dbVars, callerVars
    <2>2. TypeOK' /\ TablesOK' /\ NoOrphans'
        BY <2>1 DEF IndInv, TypeOK, TablesOK, NoOrphans
    <2>3. TokensOK' /\ CallersOK'
        BY <2>1 DEF IndInv, TokensOK, CallersOK, CtxOK, StageOK, MacOK
    <2>4. AloneOK' /\ OnceOK'
        BY <2>1 DEF IndInv, AloneOK, OnceOK, Column, ChainOf
    <2> QED
        BY <2>2, <2>3, <2>4 DEF IndInv
<1> QED
    BY <1>1, <1>2, <1>3 DEF SessionsNext, Step

\* IndInv is an invariant of the session store.
LEMMA SpecIndInv == Spec => []IndInv
BY InitIndInv, NextIndInv, PTL DEF Spec

\* No row of a session outlives it, whatever calls were in progress when it ended.
THEOREM RowsEndWithSessions == Spec => []NoOrphans
<1>1. IndInv => NoOrphans
    BY DEF IndInv
<1> QED
    BY <1>1, SpecIndInv, PTL

------------------------------------------------------------------------------
(* Both implement SessionStore.                                              *)

\* A step after which the store holds of session s what it did.
Same(s) ==
    /\ s \in DOMAIN used' <=> s \in DOMAIN used
    /\ s \in DOMAIN used => /\ Live(s)' <=> Live(s)
                            /\ Live(s) => \A f \in Fields : Stored(s, f)' = Stored(s, f)

\* What Same keeps is all that SessionStore sees of a session.
LEMMA SameFacts ==
    ASSUME NEW s, Same(s)
    PROVE  Status(s)' = Status(s) /\ Store(s)' = Store(s)
<1>1. CASE s \notin DOMAIN used
    BY <1>1 DEF Same, Status, Store
<1>2. CASE s \in DOMAIN used /\ ~Live(s)
    BY <1>2 DEF Same, Status, Store
<1>3. CASE s \in DOMAIN used /\ Live(s)
    <2>1. [f \in Fields |-> Stored(s, f)]' = [f \in Fields |-> Stored(s, f)]
        BY <1>3 DEF Same
    <2> QED
        BY <1>3, <2>1 DEF Same, Status, Store
<1> QED
    BY <1>1, <1>2, <1>3

\* Steps that keep all sessions.
SameAll == \A s \in Ids : Same(s)

\* A step that keeps all sessions leaves the state of SessionStore alone.
LEMMA SameAllFacts ==
    ASSUME SameAll, impl' = impl
    PROVE  /\ (impl = "token")' = (impl = "token")
           /\ [s \in Ids |-> Status(s)]' = [s \in Ids |-> Status(s)]
           /\ [s \in Ids |-> Store(s)]' = [s \in Ids |-> Store(s)]
<1>1. \A s \in Ids : Status(s)' = Status(s) /\ Store(s)' = Store(s)
    BY SameFacts DEF SameAll
<1> QED
    BY <1>1

\* Such a step with no answer.
LEMMA Asks ==
    ASSUME SameAll, impl' = impl, answer' = ""
    PROVE  Contract!Ask
BY SameAllFacts DEF Contract!Ask, Contract!Answer

\* A session is there, with nothing in it.
LEMMA NewTokens ==
    ASSUME NEW s \in Ids, \A z \in Ids : z # s => Same(z), impl' = impl,
           Status(s) = "unused", Status(s)' = "live", Store(s)' = Store(s), answer' = s
    PROVE  Contract!NewToken
<1>1. \A z \in Ids : z # s => Status(z)' = Status(z) /\ Store(z)' = Store(z)
    BY SameFacts
<1>2. [z \in Ids |-> Status(z)]' = [[z \in Ids |-> Status(z)] EXCEPT ![s] = "live"]
    BY <1>1
<1>3. [z \in Ids |-> Store(z)]' = [z \in Ids |-> Store(z)]
    BY <1>1
<1> QED
    BY <1>2, <1>3 DEF Contract!NewToken, Contract!Answer

\* A value of a session is set.
LEMMA Sets ==
    ASSUME NEW s \in Ids, NEW f \in Fields, NEW v \in Values, NEW w, w = v \/ (v = Zero /\ w = NotFound),
           \A z \in Ids : z # s => Same(z), impl' = impl,
           Status(s) = "live", Status(s)' = "live", Store(s)' = [Store(s) EXCEPT ![f] = w], answer' = "ok"
    PROVE  Contract!Set
<1>1. \A z \in Ids : z # s => Status(z)' = Status(z) /\ Store(z)' = Store(z)
    BY SameFacts
<1>2. [z \in Ids |-> Status(z)]' = [z \in Ids |-> Status(z)]
    BY <1>1
<1>3. [z \in Ids |-> Store(z)]' = [[z \in Ids |-> Store(z)] EXCEPT ![s][f] = w]
    BY <1>1
<1>4. [z \in Ids |-> Status(z)][s] = "live"
    OBVIOUS
<1>5. \/ [z \in Ids |-> Store(z)]' = [[z \in Ids |-> Store(z)] EXCEPT ![s][f] = v]
      \/ v = Zero /\ [z \in Ids |-> Store(z)]' = [[z \in Ids |-> Store(z)] EXCEPT ![s][f] = Contract!NotFound]
    BY <1>3 DEF NotFound, Contract!NotFound
<1>6. (impl = "token")' = (impl = "token") /\ Contract!Answer("ok")
    BY DEF Contract!Answer
<1> QED
    BY <1>2, <1>4, <1>5, <1>6, Zenon DEF Contract!Set

\* A session ends.
LEMMA Invalidates ==
    ASSUME NEW s \in Ids, \A z \in Ids : z # s => Same(z), impl' = impl,
           Status(s) = "live", Status(s)' = "over", Store(s)' = NewState, answer' = "ok"
    PROVE  Contract!InvalidateToken
<1>1. \A z \in Ids : z # s => Status(z)' = Status(z) /\ Store(z)' = Store(z)
    BY SameFacts
<1>2. [z \in Ids |-> Status(z)]' = [[z \in Ids |-> Status(z)] EXCEPT ![s] = "over"]
    BY <1>1
<1>3. [z \in Ids |-> Store(z)]' = [[z \in Ids |-> Store(z)] EXCEPT ![s] = Contract!Empty]
    BY <1>1 DEF NewState, Contract!Empty, NotFound, Contract!NotFound
<1> QED
    BY <1>2, <1>3 DEF Contract!InvalidateToken, Contract!Answer

\* What is asked of a session that is over is answered, and nothing else happens.
LEMMA OverAnswers ==
    ASSUME NEW s \in Ids, SameAll, impl' = impl, Status(s) = "over"
    PROVE  /\ answer' \in {"error", Invalid} => Contract!Set
           /\ answer' \in {NotFound, Invalid} /\ (\E f \in Fields : TRUE) => Contract!Get
           /\ answer' = "ok" => Contract!InvalidateToken
<1>1. [z \in Ids |-> Status(z)][s] = "over"
    OBVIOUS
<1> QED
    BY <1>1, SameAllFacts
    DEF Contract!Set, Contract!Get, Contract!InvalidateToken, Contract!Answer, Contract!NotFound, NotFound, Contract!Invalid,
        Invalid

\* A value is answered.
LEMMA Gets ==
    ASSUME NEW s \in Ids, NEW f \in Fields, SameAll, impl' = impl, Status(s) = "live", answer' = Store(s)[f]
    PROVE  Contract!Get
<1>1. [z \in Ids |-> Status(z)][s] = "live" /\ [z \in Ids |-> Store(z)][s] = Store(s)
    OBVIOUS
<1> QED
    BY <1>1, SameAllFacts DEF Contract!Get, Contract!Answer

\* In sqlite: steps that keep sessions and columns.
LEMMA SqliteSame ==
    ASSUME impl = "sqlite", impl' = impl, NEW s \in Ids, s \in DOMAIN used' <=> s \in DOMAIN used,
           s \in sessions' <=> s \in sessions, \A f \in Fields : Column(s, f)' = Column(s, f)
    PROVE  Same(s)
BY DEF Same, Live, Stored

\* In a session that is not there nothing is found.
LEMMA NothingLeft ==
    ASSUME TablesOK, NoOrphans, NEW s \in Ids \ sessions, NEW f \in Fields
    PROVE  Column(s, f) = NotFound
<1>1. CASE TableOf(f) = "device_info"
    BY <1>1, ChainColumn, Names DEF NoOrphans, ChainOf, Column
<1>2. CASE TableOf(f) # "device_info"
    BY <1>2, FieldTables DEF NoOrphans, Column
<1> QED
    BY <1>1, <1>2

\* A session of sqlite is over when it has been used and is not there.
LEMMA SqliteStatus ==
    ASSUME impl = "sqlite", NEW s \in Ids, s \in DOMAIN used
    PROVE  /\ s \in sessions => Status(s) = "live" /\ Store(s) = [f \in Fields |-> Column(s, f)]
           /\ s \notin sessions => Status(s) = "over" /\ Store(s) = NewState
BY DEF Status, Store, Live, Stored

\* Its calls implement those of the contract; one that writes does so in its last statement.
LEMMA SqliteImplements ==
    ASSUME IndInv, NEW c \in Callers,
           StoreSecret(c) \/ ReadSecret(c) \/ InvalidSession(c) \/ NewToken(c) \/ SetField(c) \/ GetField(c) \/ InvalidateToken(c)
    PROVE  Contract!Next
<1>0. TypeOK /\ TablesOK /\ NoOrphans
    BY DEF IndInv
<1>1. ASSUME StoreSecret(c) \/ ReadSecret(c) \/ InvalidSession(c) \/ GetField(c)
      PROVE  SameAll /\ impl' = impl /\ impl = "sqlite"
    <2>1. Effects(c) /\ Quiet /\ impl = "sqlite"
        BY <1>1, StoreSecretEffects, ReadSecretEffects, InvalidSessionEffects, GetFieldEffects
        DEF IndInv, CallersOK, StageOK, ReadSecret
    <2>2. impl' = impl /\ \A s \in Ids, f \in Fields : Column(s, f)' = Column(s, f)
        BY <2>1, QuietKept DEF Effects
    <2> QED
        BY <2>1, <2>2, SqliteSame DEF SameAll, Quiet
<1>2. CASE StoreSecret(c) \/ ReadSecret(c)
    BY <1>1, <1>2, StoreSecretEffects, ReadSecretEffects, Asks DEF Contract!Next
<1>3. CASE InvalidSession(c)
    <2>1. answer' = "rejected"
        BY <1>3, InvalidSessionEffects
    <2> QED
        BY <1>1, <1>3, <2>1, SameAllFacts DEF Contract!Next, Contract!Reject, Contract!Answer
<1>4. CASE GetField(c)
    <2>1. PICK s \in Ids, f \in Fields : s = call[c].s /\ f = call[c].f /\ s \in DOMAIN used
        BY <1>4, GetFieldEffects
    <2>2. answer' = Column(s, f)
        BY <1>4, <2>1, GetFieldEffects DEF Column, ChainOf
    <2>3. CASE s \in sessions
        BY <1>1, <1>4, <2>1, <2>2, <2>3, SqliteStatus, Gets DEF Contract!Next
    <2>4. CASE s \notin sessions
        BY <1>0, <1>1, <1>4, <2>1, <2>2, <2>4, SqliteStatus, NothingLeft, OverAnswers DEF Contract!Next
    <2> QED
        BY <2>3, <2>4
<1>5. CASE NewToken(c)
    <2>1. /\ Effects(c) /\ Fresh(c) /\ impl = "sqlite" /\ sessions' = sessions \cup (DOMAIN used' \ DOMAIN used)
          /\ UNCHANGED <<rows, device_info>>
        BY <1>5, NewTokenEffects
    <2>2. PICK s \in Ids \ DOMAIN used : DOMAIN used' = DOMAIN used \cup {s} /\ answer' = s
        BY <1>0, <2>1 DEF Fresh, TypeOK
    <2>3. impl' = impl /\ \A z \in Ids, f \in Fields : Column(z, f)' = Column(z, f)
        BY <2>1 DEF Column, ChainOf, Effects
    <2>4. \A z \in Ids : z # s => Same(z)
        BY <2>1, <2>2, <2>3, SqliteSame
    <2>5. Status(s) = "unused" /\ Store(s) = NewState
        BY DEF Status, Store
    <2>6. Status(s)' = "live"
        BY <2>1, <2>2, <2>3 DEF Status, Live
    <2>7. Store(s)' = NewState
        <3>1. \A f \in Fields : Column(s, f)' = NotFound
            BY <1>0, <2>2, <2>3, NothingLeft DEF TypeOK
        <3>2. Store(s)' = [f \in Fields |-> Column(s, f)']
            BY <2>1, <2>2, <2>3 DEF Store, Live, Stored
        <3> QED
            BY <3>1, <3>2 DEF NewState
    <2> QED
        BY <2>2, <2>3, <2>4, <2>5, <2>6, <2>7, NewTokens DEF Contract!Next
<1>6. CASE SetField(c)
    <2>0. PICK s, f, v : s = call[c].s /\ f = call[c].f /\ v = call[c].v
        OBVIOUS
    <2>1. /\ Effects(c) /\ impl = "sqlite" /\ UNCHANGED <<sessions, used>> /\ impl' = impl
          /\ s \in Ids /\ s \in DOMAIN used /\ f \in Fields /\ v \in Values
        BY <1>6, <2>0, SetFieldEffects DEF Effects
    <2>2. /\ \A z \in Ids : \A g \in Fields : z # s \/ g # f => Column(z, g)' = Column(z, g)
          /\ IF s \notin sessions THEN answer' = "error" /\ Column(s, f)' = Column(s, f)
                                  ELSE answer' = "ok" /\ Column(s, f)' = v
        BY <1>6, <2>0, SetFieldColumns
    <2>3. \A z \in Ids : z # s => Same(z)
        BY <2>1, <2>2, SqliteSame
    <2>4. CASE s \notin sessions
        <3>1. SameAll
            BY <2>1, <2>2, <2>4, SqliteSame DEF SameAll
        <3> QED
            BY <2>1, <2>2, <2>4, <3>1, SqliteStatus, OverAnswers DEF Contract!Next
    <2>5. CASE s \in sessions
        <3>1. Status(s) = "live" /\ Store(s) = [g \in Fields |-> Column(s, g)]
            BY <2>1, <2>5, SqliteStatus
        <3>2. Status(s)' = "live" /\ Store(s)' = [g \in Fields |-> Column(s, g)']
            BY <2>1, <2>5 DEF Status, Store, Live, Stored
        <3>3. Store(s)' = [Store(s) EXCEPT ![f] = v]
            BY <2>1, <2>2, <2>5, <3>1, <3>2
        <3> QED
            BY <2>1, <2>2, <2>3, <2>5, <3>1, <3>2, <3>3, Sets DEF Contract!Next
    <2> QED
        BY <2>4, <2>5
<1>7. CASE InvalidateToken(c)
    <2>1. PICK s \in Ids : s = call[c].s
        BY <1>7, InvalidateTokenEffects
    <2>2. /\ Effects(c) /\ impl = "sqlite" /\ used' = used /\ impl' = impl /\ s \in DOMAIN used
          /\ sessions' = sessions \ {s} /\ answer' = "ok"
        BY <1>7, <2>1, InvalidateTokenEffects DEF Effects
    <2>3. /\ \A z \in Ids : z # s => \A f \in Fields : Column(z, f)' = Column(z, f)
          /\ \A f \in Fields : Column(s, f)' = NotFound
        BY <1>7, <2>1, InvalidateTokenKept
    <2>4. \A z \in Ids : z # s => Same(z)
        BY <2>2, <2>3, SqliteSame
    <2>5. CASE s \in sessions
        <3>1. Status(s) = "live" /\ Status(s)' = "over" /\ Store(s)' = NewState
            BY <2>2, <2>5 DEF Status, Store, Live
        <3> QED
            BY <2>2, <2>4, <3>1, Invalidates DEF Contract!Next
    <2>6. CASE s \notin sessions
        <3>1. \A f \in Fields : Column(s, f)' = Column(s, f)
            BY <1>0, <2>3, <2>6, NothingLeft
        <3>2. SameAll
            BY <2>2, <2>4, <2>6, <3>1, SqliteSame DEF SameAll
        <3> QED
            BY <2>2, <2>6, <3>2, SqliteStatus, OverAnswers DEF Contract!Next
    <2> QED
        BY <2>5, <2>6
<1> QED
    BY <1>2, <1>3, <1>4, <1>5, <1>6, <1>7

\* The token service: a session is in the one context that has it, or in its newest token.
CurrentOK ==
    \A s \in Ids :
        /\ \A c \in Callers : ctx[c].id = s => Current(s) = ctx[c]
        /\ (\A c \in Callers : ctx[c].id # s) => Current(s) = IF s \in DOMAIN token THEN token[s] ELSE None

\* So what the token service keeps for a session is known wherever it is.
LEMMA CurrentFacts == IndInv /\ impl = "token" => CurrentOK
<1> SUFFICES ASSUME IndInv, impl = "token" PROVE CurrentOK
    OBVIOUS
<1>1. ASSUME NEW s \in Ids, NEW c \in Callers, ctx[c].id = s PROVE Current(s) = ctx[c]
    <2>1. \A d \in Callers : ctx[d].id = s => d = c
        BY <1>1 DEF IndInv, AloneOK
    <2>2. (CHOOSE d \in Callers : ctx[d].id = s) = c
        BY <1>1, <2>1
    <2> QED
        BY <1>1, <2>2 DEF Current
<1>2. ASSUME NEW s \in Ids, \A c \in Callers : ctx[c].id # s
      PROVE  Current(s) = IF s \in DOMAIN token THEN token[s] ELSE None
    BY <1>2 DEF Current
<1> QED
    BY <1>1, <1>2 DEF CurrentOK

\* A session with the same newest token, or none, is the same.
LEMMA TokenSame ==
    ASSUME impl = "token", impl' = impl, secret' = secret, NEW s \in Ids,
           s \in DOMAIN used' <=> s \in DOMAIN used, Current(s)' = Current(s)
    PROVE  Same(s)
BY DEF Same, Live, Stored

\* So are the sessions that a step of c is not about.
LEMMA OtherTokens ==
    ASSUME IndInv, CurrentOK, CurrentOK', impl = "token", NEW c \in Callers, Effects(c), NEW s \in Ids,
           s # ctx[c].id, s # ctx'[c].id, s \in DOMAIN used' <=> s \in DOMAIN used,
           s \in DOMAIN token' <=> s \in DOMAIN token, s \in DOMAIN token => token'[s] = token[s]
    PROVE  Same(s)
<1>1. impl' = impl /\ secret' = secret /\ \A d \in Callers : d # c => ctx'[d] = ctx[d]
    BY DEF Effects
<1>2. CASE \E d \in Callers : ctx[d].id = s
    <2>1. PICK d \in Callers : ctx[d].id = s
        BY <1>2
    <2>2. ctx'[d] = ctx[d]
        BY <1>1, <2>1
    <2>3. Current(s)' = Current(s)
        BY <2>1, <2>2 DEF CurrentOK
    <2> QED
        BY <1>1, <2>3, TokenSame
<1>3. CASE \A d \in Callers : ctx[d].id # s
    <2>1. \A d \in Callers : ctx'[d].id # s
        BY <1>1, <1>3
    <2>2. Current(s)' = Current(s)
        BY <1>3, <2>1 DEF CurrentOK
    <2> QED
        BY <1>1, <2>2, TokenSame
<1> QED
    BY <1>2, <1>3

\* What a token says of its session.
LEMMA TokenStatus ==
    ASSUME IndInv, CurrentOK, impl = "token", NEW c \in Callers, NEW s \in Ids, s = ctx[c].id
    PROVE  /\ s \in DOMAIN used
           /\ ctx[c].mac = secret => Status(s) = "live" /\ Store(s) = [f \in Fields |-> ctx[c].state[f]]
           /\ ctx[c].mac # secret => Status(s) = "over" /\ Store(s) = NewState
<1>1. s \in DOMAIN used
    BY DEF IndInv, CallersOK, CtxOK
<1>2. Current(s) = ctx[c]
    BY DEF CurrentOK
<1> QED
    BY <1>1, <1>2 DEF Status, Store, Live, Stored

\* Requests and responses leave sessions as they are.
LEMMA RequestsImplement ==
    ASSUME IndInv, IndInv', NEW c \in Callers, Request(c) \/ Respond(c) \/ Begin(c)
    PROVE  Contract!Next
<1>1. Effects(c) /\ UNCHANGED <<sessions, rows, device_info, used>> /\ impl' = impl /\ answer' = ""
    BY RequestEffects, RespondEffects, BeginEffects DEF dbVars, Effects
<1>2. CASE impl = "sqlite"
    <2>1. \A s \in Ids, f \in Fields : Column(s, f)' = Column(s, f)
        <3>1. rows' = rows /\ device_info' = device_info
            BY <1>1
        <3> QED
            BY <3>1 DEF Column, ChainOf
    <2>2. SameAll
        BY <1>1, <1>2, <2>1, SqliteSame DEF SameAll
    <2> QED
        BY <1>1, <2>2, Asks DEF Contract!Next
<1>3. CASE impl = "token"
    <2>0. CurrentOK /\ CurrentOK' /\ TypeOK /\ TokensOK
        <3>1. (IndInv /\ impl = "token" => CurrentOK)'
            BY CurrentFacts, PTL
        <3> QED
            BY <1>1, <1>3, <3>1, CurrentFacts DEF IndInv
    <2>1. secret' = secret /\ impl' = "token" /\ \A d \in Callers : d # c => ctx'[d] = ctx[d]
        BY <1>1, <1>3 DEF Effects
    <2>2. CASE Request(c)
        <3>1. PICK s \in DOMAIN token : /\ ctx' = [ctx EXCEPT ![c] = token[s]] /\ ctx[c] = None
                                        /\ \A d \in Callers : ctx[d].id # s
            BY <1>3, <2>2, RequestEffects
        <3>2. ctx'[c] = token[s] /\ token[s].id = s /\ s \in Ids /\ token' = token
            BY <2>0, <2>2, <3>1, RequestEffects DEF TypeOK, TokensOK
        <3>3. Current(s)' = Current(s)
            BY <2>0, <3>1, <3>2 DEF CurrentOK
        <3>4. ctx[c].id \notin Ids
            BY <3>1, NoneType, Names
        <3>5. SameAll
            BY <1>1, <1>3, <2>0, <2>1, <3>2, <3>3, <3>4, TokenSame, OtherTokens DEF SameAll
        <3> QED
            BY <1>1, <3>5, Asks DEF Contract!Next
    <2>3. CASE Respond(c)
        <3>1. ctx' = [ctx EXCEPT ![c] = None] /\ ctx[c] # Foreign
            BY <1>3, <2>3, RespondEffects, NoneType DEF IndInv, CallersOK, CtxOK
        <3>2. PICK s \in Ids : s = ctx[c].id /\ token' = With(token, ctx[c].id, ctx[c])
            BY <2>3, <3>1, RespondEffects
        <3>3. /\ DOMAIN token' = DOMAIN token \cup {s} /\ token'[s] = ctx[c]
              /\ \A z \in DOMAIN token : z # s => token'[z] = token[z]
            BY <3>2 DEF With
        <3>4. ctx'[c].id \notin Ids
            BY <2>0, <3>1, NoneType, Names DEF TypeOK
        <3>5. \A d \in Callers : ctx'[d].id # s
            BY <1>3, <2>1, <3>2, <3>4 DEF IndInv, AloneOK
        <3>6. Current(s)' = Current(s)
            BY <2>0, <3>2, <3>3, <3>5 DEF CurrentOK
        <3>7. SameAll
            BY <1>1, <1>3, <2>0, <2>1, <3>2, <3>3, <3>4, <3>6, TokenSame, OtherTokens DEF SameAll
        <3> QED
            BY <1>1, <3>7, Asks DEF Contract!Next
    <2>4. CASE Begin(c)
        <3>1. ctx' = ctx /\ token' = token
            BY <2>4, BeginEffects
        <3>2. \A s \in Ids : Current(s)' = Current(s)
            BY <3>1 DEF Current
        <3>3. SameAll
            BY <1>1, <1>3, <2>1, <3>2, TokenSame DEF SameAll
        <3> QED
            BY <1>1, <3>3, Asks DEF Contract!Next
    <2> QED
        BY <2>2, <2>3, <2>4
<1> QED
    BY <1>2, <1>3 DEF IndInv, TypeOK

\* The calls of the token service implement those of the contract.
LEMMA TokenCallsImplement ==
    ASSUME IndInv, IndInv', NEW c \in Callers,
           TokenNew(c) \/ TokenInvalid(c) \/ TokenSet(c) \/ TokenGet(c) \/ TokenInvalidate(c)
    PROVE  Contract!Next
<1>0. /\ Effects(c) /\ impl = "token" /\ impl' = "token" /\ secret' = secret /\ token' = token
      /\ TypeOK /\ TokensOK /\ ctx[c] \in TokenRecord
    BY TokenNewEffects, TokenInvalidEffects, TokenSetEffects, TokenGetEffects, TokenInvalidateEffects
    DEF Effects, Quiet, IndInv, TypeOK
<1>1. CurrentOK /\ CurrentOK'
    <2>1. (IndInv /\ impl = "token" => CurrentOK)'
        BY CurrentFacts, PTL
    <2> QED
        BY <1>0, <2>1, CurrentFacts
<1>2. ASSUME TokenInvalid(c) \/ TokenGet(c) PROVE SameAll
    <2>1. ctx' = ctx /\ used' = used
        BY <1>2, TokenInvalidEffects, TokenGetEffects DEF Quiet
    <2>2. \A s \in Ids : Current(s)' = Current(s)
        BY <1>0, <2>1 DEF Current
    <2> QED
        BY <1>0, <2>1, <2>2, TokenSame DEF SameAll
<1>3. CASE TokenInvalid(c)
    <2>1. PICK s \in Ids : s = ctx[c].id /\ ctx[c].mac # secret
        BY <1>3, TokenInvalidEffects
    <2>2. call[c].op \in {"set", "get"} /\ call[c].f \in Fields /\ answer' = Invalid
        BY <1>3, TokenInvalidEffects
    <2>3. Status(s) = "over"
        BY <1>0, <1>1, <2>1, TokenStatus
    <2> QED
        BY <1>0, <1>2, <1>3, <2>2, <2>3, OverAnswers DEF Contract!Next
<1>4. CASE TokenGet(c)
    <2>1. PICK s \in Ids, f \in Fields : s = ctx[c].id /\ ctx[c].mac = secret /\ f = call[c].f /\ answer' = ctx[c].state[f]
        BY <1>4, TokenGetEffects
    <2>2. Status(s) = "live" /\ Store(s)[f] = ctx[c].state[f]
        BY <1>0, <1>1, <2>1, TokenStatus
    <2> QED
        BY <1>0, <1>2, <1>4, <2>1, <2>2, Gets DEF Contract!Next
<1>5. ASSUME NEW s \in Ids, s = ctx[c].id, s = ctx'[c].id, used' = used
      PROVE  /\ \A z \in Ids : z # s => Same(z)
             /\ s \in DOMAIN used /\ Current(s)' = ctx'[c]
    <2>1. \A z \in Ids : z # s => Same(z)
        BY <1>0, <1>1, <1>5, OtherTokens
    <2>2. s \in DOMAIN used
        BY <1>0, <1>1, <1>5, TokenStatus
    <2>3. Current(s)' = ctx'[c]
        BY <1>1, <1>5 DEF CurrentOK
    <2> QED
        BY <2>1, <2>2, <2>3
<1>6. CASE TokenSet(c)
    <2>0. PICK s \in Ids, f \in Fields, v \in Values : s = ctx[c].id /\ f = call[c].f /\ v = call[c].v
        BY <1>6, TokenSetEffects
    <2>1. /\ ctx[c].mac = secret /\ ctx'[c].id = s /\ ctx'[c].mac = secret
          /\ ctx'[c].state = [ctx[c].state EXCEPT ![f] = IF v = Zero THEN NotFound ELSE v]
        <3>1. /\ ctx[c].mac = secret /\ ctx'[c].id = s /\ ctx'[c].mac = secret
              /\ ctx'[c].state = [ctx[c].state EXCEPT ![call[c].f] = IF call[c].v = Zero THEN NotFound ELSE call[c].v]
            BY <1>6, <2>0, TokenSetEffects
        <3> QED
            BY <2>0, <3>1
    <2>2. answer' = "ok" /\ used' = used
        BY <1>6, TokenSetEffects DEF Quiet
    <2> DEFINE w == IF v = Zero THEN NotFound ELSE v
    <2>3. Status(s) = "live" /\ Store(s) = [g \in Fields |-> ctx[c].state[g]]
        BY <1>0, <1>1, <2>0, <2>1, TokenStatus
    <2>4. (\A z \in Ids : z # s => Same(z)) /\ s \in DOMAIN used /\ Current(s)' = ctx'[c]
        BY <1>5, <2>0, <2>1, <2>2
    <2>5. Status(s)' = "live" /\ Store(s)' = [g \in Fields |-> ctx'[c].state[g]]
        BY <1>0, <2>1, <2>2, <2>4 DEF Status, Store, Live, Stored
    <2>6. Store(s)' = [Store(s) EXCEPT ![f] = w]
        <3>1. ctx[c].state \in [Fields -> Values \cup {NotFound}]
            BY <1>0 DEF TokenRecord
        <3> QED
            BY <2>1, <2>3, <2>5, <3>1
    <2> QED
        BY <1>0, <2>2, <2>3, <2>4, <2>5, <2>6, Sets DEF Contract!Next
<1>7. CASE TokenInvalidate(c)
    <2>1. PICK s \in Ids : s = ctx[c].id /\ ctx'[c].id = s /\ ctx'[c].mac = Null
        BY <1>7, TokenInvalidateEffects
    <2>2. answer' = "ok" /\ used' = used
        BY <1>7, TokenInvalidateEffects DEF Quiet
    <2>3. (\A z \in Ids : z # s => Same(z)) /\ s \in DOMAIN used /\ Current(s)' = ctx'[c]
        BY <1>5, <2>1, <2>2
    <2>4. secret' # Null
        BY <1>0, Names DEF TypeOK
    <2>5. Status(s)' = "over" /\ Store(s)' = NewState
        BY <1>0, <2>1, <2>2, <2>3, <2>4 DEF Status, Store, Live
    <2>6. CASE ctx[c].mac = secret
        <3>1. Status(s) = "live"
            BY <1>0, <1>1, <2>1, <2>6, TokenStatus
        <3> QED
            BY <1>0, <2>2, <2>3, <2>5, <3>1, Invalidates DEF Contract!Next
    <2>7. CASE ctx[c].mac # secret
        <3>1. Status(s) = "over" /\ ~Live(s)
            BY <1>0, <1>1, <2>1, <2>3, <2>7, TokenStatus DEF Live, CurrentOK
        <3>2. ~Live(s)'
            BY <1>0, <2>1, <2>3, <2>4 DEF Live
        <3>3. SameAll
            BY <2>2, <2>3, <3>1, <3>2 DEF SameAll, Same
        <3> QED
            BY <1>0, <2>2, <3>1, <3>3, OverAnswers DEF Contract!Next
    <2> QED
        BY <2>6, <2>7
<1>8. CASE TokenNew(c)
    <2>1. Fresh(c) /\ ctx[c] = None
        BY <1>8, TokenNewEffects
    <2>2. PICK s \in Ids \ DOMAIN used :
              /\ DOMAIN used' = DOMAIN used \cup {s} /\ answer' = s
              /\ ctx' = [ctx EXCEPT ![c] = [id |-> s, mac |-> secret, state |-> NewState]]
        BY <1>0, <2>1 DEF Fresh, TypeOK
    <2>3. ctx'[c].id = s /\ ctx'[c].mac = secret /\ ctx'[c].state = NewState
        BY <1>0, <2>2 DEF TypeOK
    <2>4. ctx[c].id \notin Ids
        BY <2>1, NoneType, Names
    <2>5. \A z \in Ids : z # s => Same(z)
        BY <1>0, <1>1, <2>2, <2>3, <2>4, OtherTokens
    <2>6. Current(s)' = ctx'[c]
        BY <1>1, <2>3 DEF CurrentOK
    <2>7. Status(s) = "unused" /\ Store(s) = NewState
        BY DEF Status, Store
    <2>8. Status(s)' = "live"
        BY <1>0, <2>2, <2>3, <2>6 DEF Status, Live
    <2>9. Store(s)' = NewState
        <3>1. Store(s)' = [f \in Fields |-> NewState[f]]
            BY <1>0, <2>2, <2>3, <2>6 DEF Store, Live, Stored
        <3> QED
            BY <3>1 DEF NewState
    <2> QED
        BY <1>0, <2>2, <2>5, <2>7, <2>8, <2>9, NewTokens DEF Contract!Next
<1> QED
    BY <1>3, <1>4, <1>6, <1>7, <1>8

\* A restart ends the sessions of the token service, and no others.
LEMMA RestartImplements ==
    ASSUME IndInv, IndInv', Restart
    PROVE  Contract!Next
<1>1. UNCHANGED <<impl, sessions, rows, device_info, used, token>> /\ answer' = ""
    BY DEF Restart
<1>2. CASE impl = "sqlite"
    <2>1. \A s \in Ids, f \in Fields : Column(s, f)' = Column(s, f)
        <3>1. rows' = rows /\ device_info' = device_info
            BY <1>1
        <3> QED
            BY <3>1 DEF Column, ChainOf
    <2>2. SameAll
        BY <1>1, <1>2, <2>1, SqliteSame DEF SameAll
    <2> QED
        BY <1>1, <2>2, Asks DEF Contract!Next
<1>3. CASE impl = "token"
    <2>1. /\ secret' = restarts + 1 /\ restarts \in Nat /\ secret = restarts
          /\ \A c \in Callers : ctx'[c] = None
        BY <1>3 DEF Restart, IndInv, TypeOK, TokensOK
    <2>2. CurrentOK'
        <3>1. (IndInv /\ impl = "token" => CurrentOK)'
            BY CurrentFacts, PTL
        <3> QED
            BY <1>1, <1>3, <3>1
    <2>3. \A s \in Ids : ~Live(s)'
        <3> SUFFICES ASSUME NEW s \in Ids PROVE Current(s)'.mac # secret'
            BY <1>1, <1>3 DEF Live
        <3>1. \A c \in Callers : ctx'[c].id # s
            BY <2>1, NoneType, Names
        <3>2. Current(s)' = IF s \in DOMAIN token THEN token[s] ELSE None
            BY <1>1, <2>2, <3>1 DEF CurrentOK
        <3>3. s \in DOMAIN token => token[s].mac \in Nat \cup {Null} /\ token[s].mac <= restarts
            BY <1>3 DEF IndInv, TokensOK, MacOK
        <3>4. secret' # Null
            BY <2>1, Names
        <3> QED
            BY <2>1, <3>2, <3>3, <3>4, NoneType DEF Null
    <2>4. \A s \in Ids : /\ Status(s)' = (IF Status(s) = "live" THEN "over" ELSE Status(s))
                         /\ Store(s)' = NewState
        BY <1>1, <2>3 DEF Status, Store
    <2>5. [s \in Ids |-> Status(s)]' =
              [s \in Ids |-> IF [z \in Ids |-> Status(z)][s] = "live" THEN "over" ELSE [z \in Ids |-> Status(z)][s]]
        BY <2>4
    <2>6. [s \in Ids |-> Store(s)]' = [s \in Ids |-> Contract!Empty]
        BY <2>4 DEF NewState, Contract!Empty, NotFound, Contract!NotFound
    <2> QED
        BY <1>1, <1>3, <2>5, <2>6 DEF Contract!Next, Contract!Restart
<1> QED
    BY <1>2, <1>3 DEF IndInv, TypeOK

\* The beginning.
LEMMA InitImplements == Init => Contract!Init
<1> SUFFICES ASSUME Init PROVE Contract!Init
    OBVIOUS
<1>1. \A s \in Ids : Status(s) = "unused" /\ Store(s) = NewState
    BY DEF Init, Status, Store
<1> QED
    BY <1>1 DEF Init, Contract!Init, NewState, Contract!Empty, NotFound, Contract!NotFound

\* Every step is one of the contract or changes nothing it sees.
LEMMA NextImplements == IndInv /\ IndInv' /\ [SessionsNext]_vars => [Contract!Next]_(Contract!vars)
<1> SUFFICES ASSUME IndInv, IndInv', [SessionsNext]_vars PROVE [Contract!Next]_(Contract!vars)
    OBVIOUS
<1>1. CASE \E c \in Callers : Step(c)
    BY <1>1, RequestsImplement, SqliteImplements, TokenCallsImplement DEF Step
<1>2. CASE Restart
    BY <1>2, RestartImplements
<1>3. CASE UNCHANGED vars
    <2>1. /\ UNCHANGED <<impl, secret, sessions, used, token, ctx, answer>> /\ rows' = rows /\ device_info' = device_info
        BY <1>3 DEF vars, dbVars, callerVars
    <2>2. \A s \in Ids, f \in Fields : Column(s, f)' = Column(s, f)
        BY <2>1 DEF Column, ChainOf
    <2>3. \A s \in Ids : Current(s)' = Current(s)
        BY <2>1 DEF Current
    <2>4. SameAll
        BY <2>1, <2>2, <2>3 DEF SameAll, Same, Live, Stored
    <2> QED
        BY <2>1, <2>4, SameAllFacts DEF Contract!vars
<1> QED
    BY <1>1, <1>2, <1>3 DEF SessionsNext, Step

\* Package sqlite and the token service are the session store that the services ask for.
THEOREM Implements == Spec => ContractHolds
BY InitImplements, SpecIndInv, NextImplements, PTL DEF Spec, ContractHolds, Contract!Spec

=============================================================================
