------------------------------- MODULE EapRpc -------------------------------
(***************************************************************************)
(* Synchronous requests between threads as their callers see them, without *)
(* queues, retries and response slots: a request is issued, its owner      *)
(* serves it at most once, and the caller's call returns either the result *)
(* of that very request or an error.  An error says nothing of whether the *)
(* request was, or will be, served.                                        *)
(***************************************************************************)
EXTENDS Naturals

CONSTANT Thread

VARIABLES
    issued,     \* number of requests so far; requests are numbered from 1
    served,     \* the requests that were served
    open,       \* open[t]: the request t waits for, 0 when it waits for none
    answer      \* answer[t]: what the last call of t returned; data 0: an error

vars == <<issued, served, open, answer>>

Init ==
    /\ issued = 0
    /\ served = {}
    /\ open = [t \in Thread |-> 0]
    /\ answer = [t \in Thread |-> [req |-> 0, data |-> 0]]

\* A request nobody waits for.
Issue ==
    /\ issued' = issued + 1
    /\ UNCHANGED <<served, open, answer>>

Open(t) ==
    /\ open[t] = 0
    /\ issued' = issued + 1
    /\ open' = [open EXCEPT ![t] = issued + 1]
    /\ UNCHANGED <<served, answer>>

Serve(n) ==
    /\ n \notin served
    /\ served' = served \cup {n}
    /\ UNCHANGED <<issued, open, answer>>

Return(t) ==
    /\ open[t] \in served
    /\ answer' = [answer EXCEPT ![t] = [req |-> open[t], data |-> open[t]]]
    /\ open' = [open EXCEPT ![t] = 0]
    /\ UNCHANGED <<issued, served>>

Fail(t) ==
    /\ open[t] # 0
    /\ answer' = [answer EXCEPT ![t] = [req |-> open[t], data |-> 0]]
    /\ open' = [open EXCEPT ![t] = 0]
    /\ UNCHANGED <<issued, served>>

Next ==
    \/ Issue
    \/ \E n \in 1 .. issued : Serve(n)
    \/ \E t \in Thread : Open(t) \/ Return(t) \/ Fail(t)

Spec == Init /\ [][Next]_vars
=============================================================================
