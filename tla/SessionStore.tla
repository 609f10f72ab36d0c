---------------------------- MODULE SessionStore ----------------------------
(***************************************************************************)
(* What the services ask of TokenService and the XXXSessionState           *)
(* interfaces, and the suite of package fdotest tests of an                *)
(* implementation, call by call: a session holds values, a value that was  *)
(* set is answered until another is set, one that was not is not found,    *)
(* and an invalidated session is over.                                     *)
(***************************************************************************)
CONSTANTS
    Ids,                    \* sessions
    Fields, Values,         \* what a session holds
    Zero                    \* a value that an implementation may take for none

VARIABLES
    volatile,               \* the store forgets its sessions when the server restarts
    status,                 \* of a session: "unused", "live" or "over"
    store,                  \* its values
    answer                  \* the answer to the last call

vars == <<volatile, status, store, answer>>

NotFound == "ErrNotFound"
Invalid == "ErrInvalidSession"
Empty == [f \in Fields |-> NotFound]

Init ==
    /\ volatile \in BOOLEAN
    /\ status = [s \in Ids |-> "unused"]
    /\ store = [s \in Ids |-> Empty]
    /\ answer = ""

Answer(result) == answer' = result

NewToken ==
    \E s \in Ids :
        /\ status[s] = "unused"
        /\ status' = [status EXCEPT ![s] = "live"]
        /\ Answer(s)
        /\ UNCHANGED <<volatile, store>>

\* A value is set, unless the session is over.
Set ==
    \/ \E s \in Ids, f \in Fields, v \in Values :
           /\ status[s] = "live"
           /\ \/ store' = [store EXCEPT ![s][f] = v]
              \/ v = Zero /\ store' = [store EXCEPT ![s][f] = NotFound]
           /\ Answer("ok")
           /\ UNCHANGED <<volatile, status>>
    \/ /\ \E s \in Ids : status[s] = "over"
       /\ \E e \in {"error", Invalid} : Answer(e)
       /\ UNCHANGED <<volatile, status, store>>

Get ==
    /\ \E s \in Ids, f \in Fields :
           \/ status[s] = "live" /\ Answer(store[s][f])
           \/ status[s] = "over" /\ \E e \in {NotFound, Invalid} : Answer(e)
    /\ UNCHANGED <<volatile, status, store>>

\* The state of the session is destroyed.
InvalidateToken ==
    \/ \E s \in Ids :
           /\ status[s] = "live"
           /\ status' = [status EXCEPT ![s] = "over"]
           /\ store' = [store EXCEPT ![s] = Empty]
           /\ Answer("ok")
           /\ UNCHANGED volatile
    \/ /\ \E s \in Ids : status[s] = "over"
       /\ \E e \in {"ok", NotFound, Invalid} : Answer(e)
       /\ UNCHANGED <<volatile, status, store>>

\* A token of another store has no session here: whatever is asked, nothing changes.
Reject == Answer("rejected") /\ UNCHANGED <<volatile, status, store>>

\* A service goes on to its next call.
Ask == Answer("") /\ UNCHANGED <<volatile, status, store>>

\* The server restarts.
Restart ==
    /\ answer' = ""
    /\ IF volatile
       THEN /\ status' = [s \in Ids |-> IF status[s] = "live" THEN "over" ELSE status[s]]
            /\ store' = [s \in Ids |-> Empty]
       ELSE UNCHANGED <<status, store>>
    /\ UNCHANGED volatile

Next ==
    \/ NewToken \/ Set \/ Get \/ InvalidateToken
    \/ Reject \/ Ask \/ Restart

Spec == Init /\ [][Next]_vars
=============================================================================
