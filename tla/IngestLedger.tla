----------------------------- MODULE IngestLedger -----------------------------
(***************************************************************************)
(* What a client of PUT /api/v1/logs may rely on, one request id at a time: *)
(* an accepted log is stored once with its content, or lost; a lost one may *)
(* be sent again; a stored one never changes.                               *)
(***************************************************************************)
CONSTANTS Request, Content, None

VARIABLES phase,    \* how far each request has come
          content   \* what is stored for it

vars == <<phase, content>>

Init ==
    /\ phase = [r \in Request |-> "unseen"]
    /\ content = [r \in Request |-> None]

Move(S, to) == phase' = [r \in Request |-> IF r \in S THEN to ELSE phase[r]]

\* One PUT accepts any of the requests that are neither stored nor under way.
Accept(S) ==
    /\ \A r \in S : phase[r] \in {"unseen", "lost"}
    /\ Move(S, "accepted")
    /\ UNCHANGED content

\* An accepted request is stored.
Store(r, c) ==
    /\ phase[r] = "accepted"
    /\ Move({r}, "stored")
    /\ content' = [content EXCEPT ![r] = c]

\* A failure loses one accepted request, a restart any number of them.
Lose(S) ==
    /\ \A r \in S : phase[r] = "accepted"
    /\ Move(S, "lost")
    /\ UNCHANGED content

Next ==
    \/ \E S \in SUBSET Request : Accept(S) \/ Lose(S)
    \/ \E r \in Request, c \in Content : Store(r, c)

Spec == Init /\ [][Next]_vars
===============================================================================
