------------------------------ MODULE Handout ------------------------------
(***************************************************************************)
(* What a login flow promises its client (login/v2.go): an app password    *)
(* leaves the server only once a grant has put it into the flow, and a     *)
(* poll that starts after a password was handed out never gets that        *)
(* password.  Polls that overlap may share it.                             *)
(***************************************************************************)
CONSTANTS Polls, Passwords

VARIABLES granted,   \* the passwords some grant recorded in the flow
          handed,    \* the passwords a poll has answered with
          seen,      \* per poll, the passwords handed out before it started
          got        \* per poll, the password it answered with, as a set

vars == <<granted, handed, seen, got>>

Init ==
    /\ granted = {} /\ handed = {}
    /\ seen = [c \in Polls |-> {}] /\ got = [c \in Polls |-> {}]

Grant ==
    /\ \E p \in Passwords \ granted : granted' = granted \cup {p}
    /\ UNCHANGED <<handed, seen, got>>

Start(c) ==
    /\ got[c] = {}
    /\ seen' = [seen EXCEPT ![c] = handed]
    /\ UNCHANGED <<granted, handed, got>>

Answer(c) ==
    /\ got[c] = {}
    /\ \E p \in granted \ seen[c] :
          /\ got' = [got EXCEPT ![c] = {p}]
          /\ handed' = handed \cup {p}
    /\ UNCHANGED <<granted, seen>>

Next == Grant \/ \E c \in Polls : Start(c) \/ Answer(c)

Spec == Init /\ [][Next]_vars
=============================================================================
