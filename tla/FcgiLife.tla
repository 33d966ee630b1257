------------------------------ MODULE FcgiLife ------------------------------
(***************************************************************************)
(* What one connection of the library promises its web server about every  *)
(* request: an accepted request is answered by END_REQUEST, once, before   *)
(* its object is released; only a connection that hangs up may release a   *)
(* request it has not answered, and it accepts no request afterwards.      *)
(* FcgiConn implements this specification.                                 *)
(***************************************************************************)
CONSTANT
    Rid         \* request ids

VARIABLES
    life,       \* life[r]: "idle", "open", or "done" and not yet released
    reply,      \* reply[r]: END_REQUEST of r's last request: "none" yet,
                \* "sent", or "lost" in a write that failed
    up          \* FALSE once the handler has left its loop

lifeVars == <<life, reply, up>>

LifeTypeOK ==
    /\ life \in [Rid -> {"idle", "open", "done"}]
    /\ reply \in [Rid -> {"none", "sent", "lost"}]
    /\ up \in BOOLEAN

LifeInit ==
    /\ life = [r \in Rid |-> "idle"]
    /\ reply = [r \in Rid |-> "none"]
    /\ up = TRUE

Accept(r) ==
    /\ up
    /\ life[r] = "idle"
    /\ life' = [life EXCEPT ![r] = "open"]
    /\ reply' = [reply EXCEPT ![r] = "none"]
    /\ UNCHANGED up

\* The object may outlive its answer (the callback still runs) or go with it.
Answer(r) ==
    /\ life[r] = "open"
    /\ \E after \in {"done", "idle"} : life' = [life EXCEPT ![r] = after]
    /\ \E how \in {"sent", "lost"} : reply' = [reply EXCEPT ![r] = how]
    /\ UNCHANGED up

Release(r) ==
    /\ life[r] = "done"
    /\ up => reply[r] # "none"
    /\ life' = [life EXCEPT ![r] = "idle"]
    /\ UNCHANGED <<reply, up>>

HangUp ==
    /\ up
    /\ up' = FALSE
    /\ life' = [r \in Rid |-> IF life[r] = "open" THEN "done" ELSE life[r]]
    /\ UNCHANGED reply

LifeNext ==
    \/ \E r \in Rid : Accept(r) \/ Answer(r) \/ Release(r)
    \/ HangUp

LifeSpec == LifeInit /\ [][LifeNext]_lifeVars

=============================================================================
